-------------------------- MODULE MatchmakingProofs --------------------------
(***************************************************************************)
(* Safety of Matchmaking for every set of sockets, users and instances,    *)
(* every number of queue events, ticks and outages.                        *)
(***************************************************************************)
EXTENDS Matchmaking, FiniteSetTheorems, SequenceTheorems, TLAPS

\* While a connection is up no command has run unanswered.
TypeInv == TypeOK /\ \A i \in Instances : ~silent[i] => ran[i] = 0

-----------------------------------------------------------------------------
(* The list                                                                *)

\* Counting the places up to each of finitely many numbers them from 1.
LEMMA Numbering ==
    ASSUME NEW places \in SUBSET Nat, IsFiniteSet(places)
    PROVE  [j \in places |-> Cardinality({i \in places : i <= j})]
              \in Injection(places, 1..Cardinality(places))
<1>. DEFINE n == Cardinality(places)
            upTo(j) == {i \in places : i <= j}
            rank == [j \in places |-> Cardinality(upTo(j))]
<1>1. n \in Nat
  BY FS_CardinalityType
<1>2. \A j \in places : IsFiniteSet(upTo(j)) /\ Cardinality(upTo(j)) \in Nat
                        /\ Cardinality(upTo(j)) <= n
  <2>. SUFFICES ASSUME NEW j \in places
                PROVE  /\ IsFiniteSet(upTo(j)) /\ Cardinality(upTo(j)) \in Nat
                       /\ Cardinality(upTo(j)) <= n
    OBVIOUS
  <2>1. upTo(j) \in SUBSET places
    OBVIOUS
  <2>. QED  BY <2>1, FS_Subset, FS_CardinalityType
<1>3. \A j \in places : Cardinality(upTo(j)) # 0
  BY <1>2, FS_EmptySet
<1>4. \A i, j \in places : Cardinality(upTo(i)) = Cardinality(upTo(j)) => i = j
  <2>. SUFFICES ASSUME NEW i \in places, NEW j \in places, i < j
                PROVE  Cardinality(upTo(i)) # Cardinality(upTo(j))
    OBVIOUS
  <2>1. i \in Nat /\ j \in Nat /\ places \subseteq Nat
    OBVIOUS
  <2>2. \A h \in Nat : h <= i => h <= j
    BY <2>1
  <2>3. upTo(i) \subseteq upTo(j)
    BY <2>1, <2>2
  <2>4. j \in upTo(j) /\ j \notin upTo(i)
    BY <2>1
  <2>. HIDE DEF upTo
  <2>. QED  BY <1>2, <2>3, <2>4, FS_Subset
<1>5. rank \in Injection(places, 1..n)
  <2>. HIDE DEF upTo, n
  <2>1. \A j \in places : Cardinality(upTo(j)) \in 1..n
    BY <1>1, <1>2, <1>3
  <2>2. rank \in [places -> 1..n]
    BY <2>1
  <2>3. \A i, j \in places : rank[i] = rank[j] => i = j
    BY <1>4
  <2>. HIDE DEF rank
  <2>. QED  BY <2>2, <2>3 DEF Injection, IsInjective
<1>. QED  BY <1>5

\* The k-th smallest of finitely many places is one of them, and has k-1 below.
LEMMA Ranks ==
    ASSUME NEW places \in SUBSET Nat, IsFiniteSet(places),
           NEW k \in 1..Cardinality(places)
    PROVE  /\ Nth(places, k) \in places
           /\ Cardinality({i \in places : i <= Nth(places, k)}) = k
<1>. DEFINE n == Cardinality(places)
            rank == [j \in places |-> Cardinality({i \in places : i <= j})]
<1>1. n \in Nat
  BY FS_CardinalityType
<1>2. rank \in Injection(places, 1..n)
  BY Numbering
<1>3. IsFiniteSet(1..n) /\ Cardinality(1..n) = n
  BY <1>1, FS_Interval
<1>4. rank \in Surjection(places, 1..n)
  BY <1>2, <1>3, FS_Injection
<1>5. \E j \in places : Cardinality({i \in places : i <= j}) = k
  BY <1>4 DEF Surjection
<1>. QED  BY <1>5 DEF Nth

\* LREM keeps the entries at the other places, and each at most once.
LEMMA LremEffect ==
    ASSUME queue \in Seq(Entry), NEW places, Lrem(places)
    PROVE  /\ queue' \in Seq(Entry)
           /\ \E from \in [DOMAIN queue' -> DOMAIN queue \ places] :
                 /\ \A k \in DOMAIN queue' : queue'[k] = queue[from[k]]
                 /\ \A j, k \in DOMAIN queue' : from[j] = from[k] => j = k
<1>. DEFINE kept == DOMAIN queue \ places
            n == Cardinality(kept)
            from == [k \in 1..n |-> Nth(kept, k)]
<1>1. DOMAIN queue = 1..Len(queue) /\ Len(queue) \in Nat
      /\ \A k \in DOMAIN queue : queue[k] \in Entry
  BY LenProperties, ElementOfSeq
<1>2. IsFiniteSet(kept) /\ n \in Nat
  <2>1. IsFiniteSet(1..Len(queue)) /\ kept \in SUBSET (1..Len(queue))
    BY <1>1, FS_Interval
  <2>. QED  BY <2>1, FS_Subset, FS_CardinalityType
<1>3. \A k \in 1..n : /\ Nth(kept, k) \in kept
                      /\ Cardinality({i \in kept : i <= Nth(kept, k)}) = k
  <2>1. kept \in SUBSET Nat
    BY <1>1
  <2>. QED  BY <1>2, <2>1, Ranks
<1>4. queue' = [k \in 1..n |-> queue[Nth(kept, k)]]
  BY DEF Lrem
<1>. HIDE DEF n, kept
<1>5. from \in [1..n -> kept] /\ \A j, k \in 1..n : from[j] = from[k] => j = k
  BY <1>3
<1>6. DOMAIN queue' = 1..n /\ \A k \in 1..n : queue'[k] = queue[from[k]]
  BY <1>4
<1>7. queue' \in Seq(Entry)
  <2>1. \A k \in 1..n : queue[Nth(kept, k)] \in Entry
    BY <1>1, <1>3 DEF kept
  <2>2. queue' \in [1..n -> Entry]
    BY <1>4, <2>1
  <2>. QED  BY <1>2, <2>2, SeqDef
<1>. QED  BY <1>5, <1>6, <1>7 DEF kept

LEMMA LpushEffect ==
    ASSUME queue \in Seq(Entry), NEW c \in Entry, queue' = <<c>> \o queue
    PROVE  /\ queue' \in Seq(Entry) /\ Len(queue) \in Nat /\ Len(queue') = Len(queue) + 1
           /\ DOMAIN queue = 1..Len(queue) /\ DOMAIN queue' = 1..Len(queue')
           /\ queue'[1] = c /\ \A k \in 1..Len(queue) : queue'[k + 1] = queue[k]
<1>1. <<c>> \in Seq(Entry) /\ Len(<<c>>) = 1 /\ <<c>>[1] = c
  OBVIOUS
<1>2. DOMAIN queue = 1..Len(queue) /\ Len(queue) \in Nat
  BY LenProperties
<1>3. /\ <<c>> \o queue \in Seq(Entry) /\ Len(<<c>> \o queue) = 1 + Len(queue)
      /\ \A k \in 1..1 + Len(queue) : (<<c>> \o queue)[k] = IF k <= 1 THEN <<c>>[k]
                                                            ELSE queue[k - 1]
  BY <1>1, ConcatProperties
<1>4. DOMAIN queue' = 1..Len(queue')
  BY <1>3, LenProperties
<1>5. queue'[1] = c /\ \A k \in 1..Len(queue) : queue'[k + 1] = queue[k]
  BY <1>1, <1>2, <1>3
<1>. QED  BY <1>2, <1>3, <1>4, <1>5

\* What is in the list after a command was in it before, or is what it pushed.
LEMMA RunEffect ==
    ASSUME TypeOK, NEW c \in Command, Run(c)
    PROVE  /\ queue' \in Seq(Entry) /\ pushed' \in [Entry -> Nat]
           /\ \A k \in DOMAIN queue' :
                 \/ c.op = "lpush" /\ queue'[k] = c.entry
                 \/ \E j \in DOMAIN queue : queue'[k] = queue[j]
           /\ c.op = "lremAll" => \A k \in DOMAIN queue' : queue'[k] # c.entry
<1>0. /\ c.entry \in Entry /\ queue \in Seq(Entry) /\ pushed \in [Entry -> Nat]
      /\ DOMAIN queue = 1..Len(queue) /\ Len(queue) \in Nat
  BY LenProperties DEF TypeOK, Command
<1>1. CASE c.op = "lpush"
  <2>1. queue' = <<c.entry>> \o queue /\ pushed' = [pushed EXCEPT ![c.entry] = @ + 1]
    BY <1>1 DEF Run
  <2>2. pushed' \in [Entry -> Nat]
    BY <1>0, <2>1
  <2>3. \A k \in DOMAIN queue' : k = 1 \/ (k - 1 \in 1..Len(queue) /\ k = (k - 1) + 1)
    BY <1>0, <2>1, LpushEffect
  <2>4. \A k \in DOMAIN queue' : queue'[k] = c.entry \/ \E j \in DOMAIN queue : queue'[k] = queue[j]
    BY <1>0, <2>1, <2>3, LpushEffect
  <2>. QED  BY <1>0, <1>1, <2>1, <2>2, <2>4, LpushEffect
<1>2. CASE c.op # "lpush"
  <2>1. Lrem(Removed(c)) /\ pushed' = pushed
    BY <1>2 DEF Run
  <2>2. PICK from \in [DOMAIN queue' -> DOMAIN queue \ Removed(c)] :
           \A k \in DOMAIN queue' : queue'[k] = queue[from[k]]
    BY <1>0, <2>1, LremEffect
  <2>3. c.op = "lremAll" => \A j \in DOMAIN queue \ Removed(c) : queue[j] # c.entry
    BY DEF Removed, Queued
  <2>. QED  BY <1>0, <1>2, <2>1, <2>2, <2>3, LremEffect
<1>. QED  BY <1>1, <1>2

-----------------------------------------------------------------------------
(* The commands of an instance                                             *)

\* What a step does to one instance's commands: one more, the first is through,
\* the first goes on as c.
Grew(q, r, c) ==
    /\ Len(r) = Len(q) + 1 /\ r[Len(q) + 1] = c
    /\ \A k \in 1..Len(q) : r[k] = q[k]

Shrank(q, r) ==
    /\ Len(r) = Len(q) - 1
    /\ \A k \in 1..Len(q) - 1 : r[k] = q[k + 1]

WentOn(q, r, c) ==
    /\ Len(r) = Len(q) /\ r[Len(q)] = c
    /\ \A k \in 1..Len(q) - 1 : r[k] = q[k + 1]

\* Only the commands of instance i change.
Others(i) == \A j \in Instances \ {i} : pipe'[j] = pipe[j]

LEMMA SeqDomain ==
    ASSUME NEW S, NEW q \in Seq(S)
    PROVE  Len(q) \in Nat /\ DOMAIN q = 1..Len(q) /\ \A k \in DOMAIN q : q[k] \in S
  BY LenProperties, ElementOfSeq

LEMMA PipeDomain ==
    ASSUME TypeOK, NEW i \in Instances
    PROVE  /\ pipe[i] \in Seq(Command) /\ Len(pipe[i]) \in Nat
           /\ DOMAIN pipe[i] = 1..Len(pipe[i])
           /\ \A k \in DOMAIN pipe[i] : pipe[i][k] \in Command
  BY SeqDomain DEF TypeOK

LEMMA PipeFront ==
    ASSUME TypeOK, NEW i \in Instances, pipe[i] # <<>>
    PROVE  /\ Len(pipe[i]) \in Nat \ {0} /\ 1 \in DOMAIN pipe[i]
           /\ Head(pipe[i]) = pipe[i][1] /\ Head(pipe[i]) \in Command
           /\ Tail(pipe[i]) \in Seq(Command) /\ Len(Tail(pipe[i])) = Len(pipe[i]) - 1
           /\ \A k \in 1..Len(pipe[i]) - 1 : Tail(pipe[i])[k] = pipe[i][k + 1]
<1>1. pipe[i] \in Seq(Command) /\ DOMAIN pipe[i] = 1..Len(pipe[i])
  BY PipeDomain
<1>. QED  BY <1>1, HeadTailProperties, EmptySeq, LenProperties

LEMMA PipeGrows ==
    ASSUME TypeOK, NEW i \in Instances, NEW c \in Command, Issue(i, c)
    PROVE  /\ pipe' \in [Instances -> Seq(Command)] /\ Others(i)
           /\ Grew(pipe[i], pipe'[i], c)
<1>1. /\ Append(pipe[i], c) \in Seq(Command) /\ Len(Append(pipe[i], c)) = Len(pipe[i]) + 1
      /\ Append(pipe[i], c)[Len(pipe[i]) + 1] = c
      /\ \A k \in 1..Len(pipe[i]) : Append(pipe[i], c)[k] = pipe[i][k]
  BY PipeDomain, AppendProperties
<1>. QED  BY <1>1 DEF TypeOK, Issue, Grew, Others

LEMMA PipeFinishes ==
    ASSUME TypeOK, NEW i \in Instances, pipe[i] # <<>>, Finish(i)
    PROVE  /\ pipe' \in [Instances -> Seq(Command)] /\ Others(i)
           /\ Shrank(pipe[i], pipe'[i])
  BY PipeFront DEF TypeOK, Finish, Shrank, Others

LEMMA PipeGoesOn ==
    ASSUME TypeOK, NEW i \in Instances, pipe[i] # <<>>, NEW c \in Command, GoOn(i, c)
    PROVE  /\ pipe' \in [Instances -> Seq(Command)] /\ Others(i)
           /\ WentOn(pipe[i], pipe'[i], c)
<1>1. /\ Append(Tail(pipe[i]), c) \in Seq(Command)
      /\ Len(Append(Tail(pipe[i]), c)) = Len(Tail(pipe[i])) + 1
      /\ \A k \in 1..Len(Tail(pipe[i])) : Append(Tail(pipe[i]), c)[k] = Tail(pipe[i])[k]
      /\ Append(Tail(pipe[i]), c)[Len(Tail(pipe[i])) + 1] = c
  BY PipeFront, AppendProperties
<1>. QED  BY <1>1, PipeFront DEF TypeOK, GoOn, WentOn, Others

\* A rejection or crash leaves no command; the matches stay as many as they were.
LEMMA PipeDropped ==
    ASSUME TypeOK, NEW i \in Instances, DropPipe(i)
    PROVE  /\ pipe' \in [Instances -> Seq(Command)] /\ Others(i)
           /\ pipe'[i] = <<>> /\ Len(pipe'[i]) = 0 /\ DOMAIN pipe'[i] = {}
           /\ matches' \in Seq(Match) /\ Len(matches') = Len(matches)
           /\ DOMAIN matches' = DOMAIN matches
           /\ \A m \in DOMAIN matches :
                 \/ matches'[m] = matches[m]
                 \/ matches'[m] = [matches[m] EXCEPT !.outcome = "failed"]
<1>1. <<>> \in Seq(Command) /\ Len(<<>>) = 0 /\ DOMAIN (<<>>) = {}
  BY EmptySeq
<1>2. pipe' \in [Instances -> Seq(Command)] /\ Others(i) /\ pipe'[i] = <<>>
  BY <1>1 DEF TypeOK, DropPipe, Others
<1>3. /\ Len(matches) \in Nat /\ DOMAIN matches = 1..Len(matches)
      /\ \A m \in DOMAIN matches : matches[m] \in Match
  BY SeqDomain DEF TypeOK
<1>4. \A m \in DOMAIN matches : [matches[m] EXCEPT !.outcome = "failed"] \in Match
  BY <1>3 DEF Match, Outcomes
<1>5. /\ DOMAIN matches' = DOMAIN matches
      /\ \A m \in DOMAIN matches :
            \/ matches'[m] = matches[m]
            \/ matches'[m] = [matches[m] EXCEPT !.outcome = "failed"]
  BY DEF DropPipe
<1>6. matches' \in [1..Len(matches) -> Match]
  <2>1. \A m \in DOMAIN matches : matches'[m] \in Match
    BY <1>3, <1>4, <1>5
  <2>2. matches' = [m \in DOMAIN matches |-> matches'[m]]
    BY DEF DropPipe
  <2>. QED  BY <1>3, <2>1, <2>2
<1>7. matches' \in Seq(Match)
  BY <1>3, <1>6, SeqDef
<1>8. Len(matches') = Len(matches)
  BY <1>3, <1>5, <1>7, LenProperties
<1>. QED  BY <1>1, <1>2, <1>5, <1>7, <1>8

\* A tick that ends notes what became of its match.
LEMMA ConcludeEffect ==
    ASSUME TypeOK, NEW i \in Instances, NEW result \in Outcomes, Conclude(i, result)
    PROVE  /\ matches' \in Seq(Match) /\ Len(matches') >= Len(matches) /\ Finish(i)
           /\ DOMAIN matches' = DOMAIN matches
           /\ \A m \in DOMAIN matches :
                 matches'[m] = IF m = Head(pipe[i]).match
                               THEN [matches[m] EXCEPT !.outcome = result] ELSE matches[m]
<1>1. /\ Len(matches) \in Nat /\ DOMAIN matches = 1..Len(matches)
      /\ \A m \in DOMAIN matches : matches[m] \in Match
  BY SeqDomain DEF TypeOK
<1>2. matches' = [matches EXCEPT ![Head(pipe[i]).match].outcome = result] /\ Finish(i)
  BY DEF Conclude
<1>3. /\ DOMAIN matches' = DOMAIN matches
      /\ \A m \in DOMAIN matches :
            matches'[m] = IF m = Head(pipe[i]).match
                          THEN [matches[m] EXCEPT !.outcome = result] ELSE matches[m]
  BY <1>2
<1>4. \A m \in DOMAIN matches : [matches[m] EXCEPT !.outcome = result] \in Match
  BY <1>1 DEF Match
<1>5. matches' \in [1..Len(matches) -> Match]
  <2>1. \A m \in DOMAIN matches : matches'[m] \in Match
    BY <1>1, <1>3, <1>4
  <2>2. matches' = [m \in DOMAIN matches |-> matches'[m]]
    BY <1>2
  <2>. QED  BY <1>1, <2>1, <2>2
<1>6. matches' \in Seq(Match)
  BY <1>1, <1>5, SeqDef
<1>7. Len(matches') = Len(matches)
  BY <1>1, <1>3, <1>6, LenProperties
<1>. QED  BY <1>1, <1>2, <1>3, <1>6, <1>7

\* The command at the front, when it is answered.
LEMMA Served ==
    ASSUME TypeInv, NEW i \in Instances, NEW operation, Reply(i, operation)
    PROVE  /\ pipe[i] # <<>> /\ Head(pipe[i]) = pipe[i][1] /\ Head(pipe[i]) \in Command
           /\ 1 \in DOMAIN pipe[i] /\ Len(pipe[i]) \in Nat \ {0}
           /\ Head(pipe[i]).op = operation /\ Run(Head(pipe[i]))
           /\ ran[i] = 0 /\ UNCHANGED <<clientVars, linkVars>>
  BY PipeFront DEF TypeInv, Reply

-----------------------------------------------------------------------------
(* Types                                                                   *)

LEMMA SomeEntry == AnyEntry \in Entry
<1>1. PICK s \in Sockets : TRUE
  BY SocketAssumption
<1>2. UserOf[s] \in Users
  BY UserAssumption
<1>3. [clientId |-> s, userId |-> UserOf[s]] \in Entry
  BY <1>2 DEF Entry
<1>. QED  BY <1>3 DEF AnyEntry

LEMMA TickTyped ==
    [op |-> "lrange", entry |-> AnyEntry, other |-> AnyEntry, match |-> 0, left |-> 0] \in Command
  BY SomeEntry, BoundsAssumption DEF Command, WorkerOps

LEMMA ClientCommandTyped ==
    ASSUME NEW operation \in ClientOps, NEW e \in Entry
    PROVE  ClientCommand(operation, e) \in Command /\ ClientCommand(operation, e).match = 0
  BY BoundsAssumption DEF ClientCommand, Command

LEMMA PayloadTyped ==
    ASSUME NEW s \in Sockets
    PROVE  /\ \A u \in PayloadUser[s] : EntryOf(s, u) \in Entry
           /\ EntryOf(s, UserOf[s]) \in Entry
  BY UserAssumption, PayloadAssumption DEF EntryOf, Entry

\* A new command belongs to no match yet.
LEMMA IssuedTyped ==
    ASSUME TypeInv, NEW i \in Instances, NEW c \in Command, c.match = 0, Issue(i, c),
           UNCHANGED <<storeVars, matches, linkVars>>,
           phase' \in [Sockets -> {"new", "open", "closed"}],
           wants' \in [Sockets -> BOOLEAN], events' \in 0..MaxEvents,
           joined' \in [Entry -> Nat]
    PROVE  TypeInv'
<1>1. pipe' \in [Instances -> Seq(Command)] /\ Others(i) /\ Grew(pipe[i], pipe'[i], c)
  BY PipeGrows DEF TypeInv
<1>2. \A j \in Instances : /\ Len(pipe'[j]) \in Nat /\ DOMAIN pipe'[j] = 1..Len(pipe'[j])
                           /\ Len(pipe[j]) \in Nat /\ DOMAIN pipe[j] = 1..Len(pipe[j])
  BY <1>1, SeqDomain, PipeDomain DEF TypeInv
<1>3. Len(matches) \in Nat
  BY SeqDomain DEF TypeInv, TypeOK
<1>4. /\ Len(pipe'[i]) = Len(pipe[i]) + 1 /\ pipe'[i][Len(pipe[i]) + 1] = c
      /\ \A k \in 1..Len(pipe[i]) : pipe'[i][k] = pipe[i][k]
  BY <1>1 DEF Grew
<1>5. \A j \in Instances : \A k \in DOMAIN pipe'[j] : pipe'[j][k].match \in 0..Len(matches')
  <2>. SUFFICES ASSUME NEW j \in Instances, NEW k \in DOMAIN pipe'[j]
                PROVE  pipe'[j][k].match \in 0..Len(matches)
    BY DEF TypeInv
  <2>1. CASE j # i
    BY <1>1, <2>1 DEF Others, TypeInv, TypeOK
  <2>2. CASE j = i
    <3>1. \/ pipe'[i][k] = c
          \/ k \in DOMAIN pipe[i] /\ pipe'[i][k] = pipe[i][k]
      <4>1. k \in 1..Len(pipe[i]) + 1
        BY <1>2, <2>2, <1>4
      <4>2. k = Len(pipe[i]) + 1 \/ k \in 1..Len(pipe[i])
        BY <1>2, <4>1
      <4>. QED  BY <1>2, <1>4, <4>2
    <3>2. \A h \in DOMAIN pipe[i] : pipe[i][h].match \in 0..Len(matches)
      BY DEF TypeInv, TypeOK
    <3>. QED  BY <1>3, <2>2, <3>1, <3>2
  <2>. QED  BY <2>1, <2>2
<1>6. \A j \in Instances : ran'[j] \in 0..Len(pipe'[j]) /\ (~silent'[j] => ran'[j] = 0)
  <2>1. \A j \in Instances : Len(pipe'[j]) >= Len(pipe[j])
    <3>. SUFFICES ASSUME NEW j \in Instances PROVE Len(pipe'[j]) >= Len(pipe[j])
      OBVIOUS
    <3>1. Len(pipe[j]) \in Nat
      BY <1>2
    <3>2. CASE j = i
      BY <1>4, <3>1, <3>2
    <3>3. CASE j # i
      BY <1>1, <3>1, <3>3 DEF Others
    <3>. QED  BY <3>2, <3>3
  <2>. QED  BY <1>2, <2>1 DEF TypeInv, TypeOK, linkVars
<1>. QED  BY <1>1, <1>5, <1>6 DEF TypeInv, TypeOK, storeVars, linkVars

\* An answered command is through or goes on, and its match is one there is.
LEMMA ServedTyped ==
    ASSUME TypeInv, NEW i \in Instances, NEW operation, Reply(i, operation),
           matches' \in Seq(Match), Len(matches') >= Len(matches),
           Finish(i) \/ \E c \in Command : c.match \in 0..Len(matches') /\ GoOn(i, c)
    PROVE  TypeInv'
<1>1. /\ pipe' \in [Instances -> Seq(Command)] /\ Others(i)
      /\ \/ Shrank(pipe[i], pipe'[i])
         \/ \E c \in Command : c.match \in 0..Len(matches') /\ WentOn(pipe[i], pipe'[i], c)
  BY Served, PipeFinishes, PipeGoesOn DEF TypeInv
<1>2. \A j \in Instances : /\ Len(pipe'[j]) \in Nat /\ DOMAIN pipe'[j] = 1..Len(pipe'[j])
                           /\ Len(pipe[j]) \in Nat /\ DOMAIN pipe[j] = 1..Len(pipe[j])
  BY <1>1, SeqDomain, PipeDomain DEF TypeInv
<1>3. Len(matches) \in Nat /\ Len(matches') \in Nat
  BY SeqDomain DEF TypeInv, TypeOK
<1>4. \A j \in Instances : \A k \in DOMAIN pipe[j] : pipe[j][k].match \in 0..Len(matches')
  BY <1>3 DEF TypeInv, TypeOK
<1>5. \A j \in Instances : \A k \in DOMAIN pipe'[j] : pipe'[j][k].match \in 0..Len(matches')
  <2>. SUFFICES ASSUME NEW j \in Instances, NEW k \in DOMAIN pipe'[j]
                PROVE  pipe'[j][k].match \in 0..Len(matches')
    OBVIOUS
  <2>1. CASE j # i
    BY <1>1, <1>4, <2>1 DEF Others
  <2>2. CASE j = i
    <3>1. CASE Shrank(pipe[i], pipe'[i])
      <4>1. k + 1 \in DOMAIN pipe[i] /\ pipe'[i][k] = pipe[i][k + 1]
        <5>1. k \in 1..Len(pipe'[i]) /\ Len(pipe[i]) \in Nat /\ DOMAIN pipe[i] = 1..Len(pipe[i])
          BY <1>2, <2>2
        <5>2. Len(pipe'[i]) = Len(pipe[i]) - 1
          BY <3>1 DEF Shrank
        <5>3. k \in 1..Len(pipe[i]) - 1 /\ k + 1 \in 1..Len(pipe[i])
          BY <5>1, <5>2
        <5>. QED  BY <3>1, <5>1, <5>3 DEF Shrank
      <4>. QED  BY <1>4, <2>2, <4>1
    <3>2. ASSUME NEW c \in Command, c.match \in 0..Len(matches'), WentOn(pipe[i], pipe'[i], c)
          PROVE  pipe'[j][k].match \in 0..Len(matches')
      <4>1. \/ pipe'[i][k] = c
            \/ k + 1 \in DOMAIN pipe[i] /\ pipe'[i][k] = pipe[i][k + 1]
        BY <1>2, <2>2, <3>2 DEF WentOn
      <4>. QED  BY <1>4, <2>2, <3>2, <4>1
    <3>. QED  BY <1>1, <3>1, <3>2
  <2>. QED  BY <2>1, <2>2
<1>6. \A j \in Instances : ran'[j] \in 0..Len(pipe'[j]) /\ (~silent'[j] => ran'[j] = 0)
  <2>1. ran' = ran /\ silent' = silent /\ ran[i] = 0
    BY Served DEF linkVars
  <2>2. \A j \in Instances \ {i} : pipe'[j] = pipe[j]
    BY <1>1 DEF Others
  <2>3. Len(pipe'[i]) \in Nat
    BY <1>2
  <2>4. \A j \in Instances : ran[j] \in 0..Len(pipe[j]) /\ (~silent[j] => ran[j] = 0)
    BY DEF TypeInv, TypeOK
  <2>5. \A j \in Instances : ran'[j] \in 0..Len(pipe'[j])
    BY <2>1, <2>2, <2>3, <2>4
  <2>. QED  BY <2>1, <2>4, <2>5
<1>7. queue' \in Seq(Entry) /\ pushed' \in [Entry -> Nat]
  BY Served, RunEffect DEF TypeInv
<1>8. UNCHANGED <<clientVars, linkVars>>
  BY Served
<1>. QED  BY <1>1, <1>5, <1>6, <1>7, <1>8 DEF TypeInv, TypeOK, clientVars, linkVars

LEMMA GoesOnTyped ==
    ASSUME TypeInv, NEW i \in Instances, NEW operation, Reply(i, operation),
           matches' \in Seq(Match), Len(matches') >= Len(matches),
           NEW c \in Command, c.match \in 0..Len(matches'), GoOn(i, c)
    PROVE  TypeInv'
  BY ServedTyped

LEMMA TypeInvInit == Init => TypeInv
<1>. SUFFICES ASSUME Init PROVE TypeInv
  OBVIOUS
<1>1. <<>> \in Seq(Command) /\ DOMAIN (<<>>) = {} /\ 0 <= Len(<<>>)
  BY EmptySeq
<1>2. queue \in Seq(Entry) /\ matches \in Seq(Match) /\ pipe \in [Instances -> Seq(Command)]
  BY <1>1 DEF Init
<1>3. \A i \in Instances : pipe[i] = <<>> /\ ran[i] = 0
  BY DEF Init
<1>6. ran \in [Instances -> Nat]
  BY DEF Init
<1>4. events \in 0..MaxEvents /\ outages \in 0..MaxOutages
  BY BoundsAssumption DEF Init
<1>5. /\ phase \in [Sockets -> {"new", "open", "closed"}] /\ wants \in [Sockets -> BOOLEAN]
      /\ pushed \in [Entry -> Nat] /\ joined \in [Entry -> Nat] /\ silent \in [Instances -> BOOLEAN] /\ lost \in BOOLEAN
  BY DEF Init
<1>. QED  BY <1>1, <1>2, <1>3, <1>4, <1>5, <1>6 DEF TypeInv, TypeOK

LEMMA TypeInvNext == TypeInv /\ [Next]_vars => TypeInv'
<1>. SUFFICES ASSUME TypeInv, [Next]_vars PROVE TypeInv'
  OBVIOUS
<1>0. Len(matches) \in Nat /\ matches \in Seq(Match)
  BY SeqDomain DEF TypeInv, TypeOK
<1>1. ASSUME NEW s \in Sockets, Connect(s) PROVE TypeInv'
  BY <1>1 DEF Connect, TypeInv, TypeOK, storeVars, linkVars
<1>2. ASSUME NEW s \in Sockets, Join(s) \/ Leave(s) PROVE TypeInv'
  <2>1. PICK c \in Command : c.match = 0 /\ Issue(Home[s], c)
    <3>1. \A u \in PayloadUser[s] : EntryOf(s, IF u = NoUser THEN UserOf[s] ELSE u) \in Entry
      BY PayloadTyped
    <3>. QED  BY <1>2, <3>1, PayloadTyped, ClientCommandTyped DEF Join, Leave, ClientOps
  <2>2. UNCHANGED <<phase, storeVars, matches, linkVars>>
    BY <1>2 DEF Join, Leave
  <2>3. events' \in 0..MaxEvents
    BY <1>2, BoundsAssumption DEF Join, Leave, TypeInv, TypeOK
  <2>4. wants' \in [Sockets -> BOOLEAN]
    BY <1>2 DEF Join, Leave, TypeInv, TypeOK
  <2>5. joined' \in [Entry -> Nat]
    <3>1. joined \in [Entry -> Nat]
      BY DEF TypeInv, TypeOK
    <3>2. \A e \in Entry : [joined EXCEPT ![e] = @ + 1] \in [Entry -> Nat]
      BY <3>1
    <3>. QED  BY <1>2, <3>1, <3>2, PayloadTyped DEF Join, Leave
  <2>. QED  BY <2>1, <2>2, <2>3, <2>4, <2>5, IssuedTyped, HomeAssumption DEF TypeInv, TypeOK
<1>3. ASSUME NEW s \in Sockets, Close(s) PROVE TypeInv'
  <2>1. PICK c \in Command : c.match = 0 /\ Issue(Home[s], c)
    BY <1>3, PayloadTyped, ClientCommandTyped DEF Close, ClientOps
  <2>2. /\ UNCHANGED <<joined, events, storeVars, matches, linkVars>>
        /\ wants' \in [Sockets -> BOOLEAN] /\ phase' \in [Sockets -> {"new", "open", "closed"}]
    BY <1>3 DEF Close, TypeInv, TypeOK
  <2>. QED  BY <2>1, <2>2, IssuedTyped, HomeAssumption DEF TypeInv, TypeOK
<1>4. ASSUME NEW i \in Instances, Tick(i) PROVE TypeInv'
  <2>1. UNCHANGED <<phase, wants, joined, events, storeVars, matches, linkVars>>
    BY <1>4 DEF Tick, clientVars
  <2>. QED  BY <1>4, <2>1, TickTyped, IssuedTyped DEF Tick, TypeInv, TypeOK
<1>5. ASSUME NEW i \in Instances, ServeClient(i) \/ DropDuplicate(i) PROVE TypeInv'
  BY <1>0, <1>5, ServedTyped DEF ServeClient, DropDuplicate
<1>6. ASSUME NEW i \in Instances, ReadQueue(i) PROVE TypeInv'
  <2>. DEFINE h == Head(pipe[i])
  <2>1. Reply(i, "lrange") /\ h \in Command /\ matches' = matches
    BY <1>6, Served DEF ReadQueue
  <2>2. CASE Finish(i)
    BY <1>0, <2>1, <2>2, ServedTyped
  <2>3. CASE ~Finish(i)
    <3>1. PICK operation \in {"dropDuplicate", "takeFirst"} :
             /\ Len(queue) >= 2
             /\ GoOn(i, [h EXCEPT !.entry = queue[1], !.other = queue[2], !.op = operation])
      BY <1>6, <2>3 DEF ReadQueue
    <3>. DEFINE c == [h EXCEPT !.entry = queue[1], !.other = queue[2], !.op = operation]
    <3>2. queue[1] \in Entry /\ queue[2] \in Entry
      BY <3>1, SeqDomain DEF TypeInv, TypeOK
    <3>3. c \in Command /\ c.match = h.match
      BY <2>1, <3>2 DEF Command, WorkerOps
    <3>4. h.match \in 0..Len(matches)
      BY <2>1, Served DEF TypeInv, TypeOK
    <3>. HIDE DEF c, h
    <3>5. GoOn(i, c) /\ matches' \in Seq(Match) /\ Len(matches') >= Len(matches)
          /\ c \in Command /\ c.match \in 0..Len(matches')
      BY <1>0, <2>1, <3>1, <3>3, <3>4 DEF c, h
    <3>. QED  BY <2>1, <3>5, GoesOnTyped
  <2>. QED  BY <2>2, <2>3
<1>7. ASSUME NEW i \in Instances, TakeFirst(i) \/ JoinFirst(i) PROVE TypeInv'
  <2>. DEFINE h == Head(pipe[i])
  <2>1. PICK operation \in {"takeSecond", "joinSecond"} : GoOn(i, [h EXCEPT !.op = operation])
    BY <1>7 DEF TakeFirst, JoinFirst
  <2>2. PICK served : Reply(i, served) /\ matches' = matches
    BY <1>7 DEF TakeFirst, JoinFirst
  <2>3. h \in Command /\ h.match \in 0..Len(matches)
    BY <2>2, Served DEF TypeInv, TypeOK
  <2>4. [h EXCEPT !.op = operation] \in Command /\ [h EXCEPT !.op = operation].match = h.match
    BY <2>3 DEF Command, WorkerOps
  <2>. HIDE DEF h
  <2>5. matches' \in Seq(Match) /\ Len(matches') >= Len(matches)
    BY <1>0, <2>2
  <2>. QED  BY <2>1, <2>2, <2>3, <2>4, <2>5, GoesOnTyped
<1>8. ASSUME NEW i \in Instances, TakeSecond(i) PROVE TypeInv'
  <2>. DEFINE h == Head(pipe[i])
              m == [first |-> h.entry, second |-> h.other, outcome |-> "pending"]
              c == [h EXCEPT !.op = "storeKeys", !.left = NumKeys, !.match = Len(matches) + 1]
  <2>1. /\ Reply(i, "takeSecond") /\ h \in Command /\ matches' = Append(matches, m)
        /\ GoOn(i, c)
    BY <1>8, Served DEF TakeSecond
  <2>2. m \in Match
    BY <2>1 DEF Match, Command, Outcomes
  <2>3. c \in Command /\ c.match = Len(matches) + 1
    <3>1. NumKeys \in 0..NumKeys
      BY BoundsAssumption
    <3>2. Len(matches) + 1 \in Nat
      BY <1>0
    <3>. QED  BY <2>1, <3>1, <3>2 DEF Command, WorkerOps
  <2>. HIDE DEF c, h, m
  <2>4. matches' \in Seq(Match) /\ Len(matches') = Len(matches) + 1
    BY <1>0, <2>1, <2>2, AppendProperties
  <2>. QED  BY <1>0, <2>1, <2>3, <2>4, ServedTyped
<1>9. ASSUME NEW i \in Instances, StoreKey(i) PROVE TypeInv'
  <2>. DEFINE h == Head(pipe[i])
  <2>1. Reply(i, "storeKeys") /\ h \in Command /\ h.match \in 0..Len(matches)
    BY <1>9, Served DEF StoreKey, TypeInv, TypeOK
  <2>2. \/ Conclude(i, "abandoned")
        \/ matches' = matches /\ h.left > 1 /\ GoOn(i, [h EXCEPT !.left = @ - 1])
        \/ matches' = matches /\ GoOn(i, [h EXCEPT !.op = "joinFirst", !.left = 0])
    BY <1>9 DEF StoreKey
  <2>3. CASE matches' = matches /\ h.left > 1 /\ GoOn(i, [h EXCEPT !.left = @ - 1])
    <3>1. [h EXCEPT !.left = @ - 1] \in Command /\ [h EXCEPT !.left = @ - 1].match = h.match
      BY <2>1, <2>3, BoundsAssumption DEF Command
    <3>. DEFINE c == [h EXCEPT !.left = @ - 1]
    <3>2. GoOn(i, c) /\ c \in Command /\ c.match \in 0..Len(matches')
          /\ matches' \in Seq(Match) /\ Len(matches') >= Len(matches)
      BY <1>0, <2>1, <2>3, <3>1
    <3>. HIDE DEF c
    <3>. QED  BY <2>1, <3>2, GoesOnTyped
  <2>4. CASE matches' = matches /\ GoOn(i, [h EXCEPT !.op = "joinFirst", !.left = 0])
    <3>1. /\ [h EXCEPT !.op = "joinFirst", !.left = 0] \in Command
          /\ [h EXCEPT !.op = "joinFirst", !.left = 0].match = h.match
      <4>1. 0 \in 0..NumKeys
        BY BoundsAssumption
      <4>. QED  BY <2>1, <4>1 DEF Command, WorkerOps
    <3>. DEFINE c == [h EXCEPT !.op = "joinFirst", !.left = 0]
    <3>2. GoOn(i, c) /\ c \in Command /\ c.match \in 0..Len(matches')
          /\ matches' \in Seq(Match) /\ Len(matches') >= Len(matches)
      BY <1>0, <2>1, <2>4, <3>1
    <3>. HIDE DEF c
    <3>. QED  BY <2>1, <3>2, GoesOnTyped
  <2>5. CASE Conclude(i, "abandoned")
    BY <2>1, <2>5, ConcludeEffect, ServedTyped DEF TypeInv, Outcomes
  <2>. QED  BY <2>2, <2>3, <2>4, <2>5
<1>10. ASSUME NEW i \in Instances, JoinSecond(i) PROVE TypeInv'
  <2>1. PICK result \in Outcomes : Conclude(i, result)
    BY <1>10 DEF JoinSecond, Outcomes
  <2>. QED  BY <1>10, <2>1, ConcludeEffect, ServedTyped DEF JoinSecond, TypeInv
<1>11. ASSUME NEW i \in Instances, FallSilent(i) \/ Reconnect(i) PROVE TypeInv'
  <2>1. \A j \in Instances : Len(pipe[j]) \in Nat
    BY PipeDomain DEF TypeInv
  <2>2. \A j \in Instances : ran[j] \in 0..Len(pipe[j]) /\ (~silent[j] => ran[j] = 0)
    BY DEF TypeInv, TypeOK
  <2>3. CASE FallSilent(i)
    <3>1. /\ outages' \in 0..MaxOutages
          /\ UNCHANGED <<clientVars, storeVars, matches, pipe, ran, lost>>
      BY <2>3, BoundsAssumption DEF FallSilent, TypeInv, TypeOK
    <3>2. /\ silent' \in [Instances -> BOOLEAN]
          /\ \A j \in Instances : ~silent'[j] => ~silent[j]
      BY <2>3 DEF FallSilent, TypeInv, TypeOK
    <3>. QED  BY <2>2, <3>1, <3>2 DEF clientVars, storeVars, TypeInv, TypeOK
  <2>4. CASE Reconnect(i)
    <3>1. UNCHANGED <<clientVars, storeVars, matches, pipe, lost, outages>>
      BY <2>4 DEF Reconnect, EndSilence
    <3>2. silent' \in [Instances -> BOOLEAN]
      BY <2>4 DEF Reconnect, EndSilence, TypeInv, TypeOK
    <3>3. \A j \in Instances : \/ ran'[j] = 0
                               \/ ran'[j] = ran[j] /\ silent'[j] = silent[j]
      BY <2>4 DEF Reconnect, EndSilence, TypeInv, TypeOK
    <3>4. \A j \in Instances : ran'[j] \in 0..Len(pipe[j]) /\ (~silent'[j] => ran'[j] = 0)
      BY <2>1, <2>2, <3>3
    <3>5. ran' \in [Instances -> Nat]
      BY <2>4 DEF Reconnect, EndSilence, TypeInv, TypeOK
    <3>6. \A j \in Instances : ran'[j] <= Len(pipe'[j])
      BY <2>1, <3>1, <3>4
    <3>. QED  BY <3>1, <3>2, <3>4, <3>5, <3>6 DEF clientVars, storeVars, TypeInv, TypeOK
  <2>. QED  BY <1>11, <2>3, <2>4
<1>12. ASSUME NEW i \in Instances, RunUnanswered(i) PROVE TypeInv'
  <2>1. pipe[i][ran[i] + 1] \in Command /\ Len(pipe[i]) \in Nat /\ ran[i] \in Nat
    BY <1>12, PipeDomain DEF RunUnanswered, TypeInv, TypeOK
  <2>2. queue' \in Seq(Entry) /\ pushed' \in [Entry -> Nat]
    BY <1>12, <2>1, RunEffect DEF RunUnanswered, TypeInv
  <2>. QED  BY <1>12, <2>1, <2>2 DEF RunUnanswered, clientVars, TypeInv, TypeOK
<1>13. ASSUME NEW i \in Instances, GiveUp(i) \/ Crash(i) PROVE TypeInv'
  <2>1. EndSilence(i) /\ DropPipe(i) /\ UNCHANGED <<joined, events, storeVars>>
    BY <1>13 DEF GiveUp, Crash, clientVars
  <2>2. /\ phase' \in [Sockets -> {"new", "open", "closed"}]
        /\ wants' \in [Sockets -> BOOLEAN]
    BY <1>13 DEF GiveUp, Crash, clientVars, TypeInv, TypeOK
  <2>3. /\ pipe' \in [Instances -> Seq(Command)] /\ matches' \in Seq(Match)
        /\ \A j \in Instances : \A k \in DOMAIN pipe'[j] : pipe'[j][k].match \in 0..Len(matches')
    BY <2>1, PipeDropped DEF Others, TypeInv, TypeOK
  <2>4. \A j \in Instances : ran'[j] \in 0..Len(pipe'[j]) /\ (~silent'[j] => ran'[j] = 0)
    <3>1. \A j \in Instances : \/ ran'[j] = 0
                               \/ ran'[j] = ran[j] /\ silent'[j] = silent[j] /\ j # i
      BY <2>1 DEF EndSilence, TypeInv, TypeOK
    <3>2. /\ \A j \in Instances \ {i} : pipe'[j] = pipe[j]
          /\ \A j \in Instances : Len(pipe'[j]) \in Nat
      BY <2>1, <2>3, PipeDropped, SeqDomain DEF Others, TypeInv
    <3>3. \A j \in Instances : ran[j] \in 0..Len(pipe[j]) /\ (~silent[j] => ran[j] = 0)
      BY DEF TypeInv, TypeOK
    <3>4. \A j \in Instances : 0 \in 0..Len(pipe'[j])
      BY <3>2
    <3>. QED  BY <3>1, <3>2, <3>3, <3>4
  <2>5. lost' \in BOOLEAN /\ silent' \in [Instances -> BOOLEAN] /\ outages' = outages
    BY <2>1 DEF EndSilence, DropPipe, TypeInv, TypeOK
  <2>6. ran' \in [Instances -> Nat]
    BY <2>1 DEF EndSilence, TypeInv, TypeOK
  <2>. QED  BY <2>1, <2>2, <2>3, <2>4, <2>5, <2>6 DEF storeVars, TypeInv, TypeOK
<1>14. CASE UNCHANGED vars
  BY <1>14 DEF vars, clientVars, storeVars, linkVars, TypeInv, TypeOK
<1>. QED
  BY <1>1, <1>2, <1>3, <1>4, <1>5, <1>6, <1>7, <1>8, <1>9, <1>10, <1>11, <1>12, <1>13, <1>14
  DEF Next, Serve, Settle

LEMMA TypeInvariant == Spec => []TypeInv
  BY TypeInvInit, TypeInvNext, PTL DEF Spec

\* The list, every command awaited and every match have the shape the code gives
\* them, whichever commands run twice or not at all.
THEOREM TypeCorrect == Spec => []TypeOK
<1>1. TypeInv => TypeOK
  BY DEF TypeInv
<1>. QED  BY <1>1, TypeInvariant, PTL

-----------------------------------------------------------------------------
(* Where the entries and commands of a step come from                      *)

\* A command a client's event issues on its own connection.
FromClient(i, c) ==
    /\ c.op \in ClientOps
    /\ \E s \in Sockets : /\ Home[s] = i
                          /\ \/ \E u \in PayloadUser[s] : c.entry = EntryOf(s, u)
                             \/ c.entry = EntryOf(s, UserOf[s])

Awaited(i, c) == \E h \in DOMAIN pipe[i] : c = pipe[i][h]

LEMMA IssueCame ==
    ASSUME TypeInv, NEW i \in Instances, NEW c \in Command, Issue(i, c)
    PROVE  \A j \in Instances : \A k \in DOMAIN pipe'[j] :
              Awaited(j, pipe'[j][k]) \/ (j = i /\ pipe'[j][k] = c)
<1>1. pipe' \in [Instances -> Seq(Command)] /\ Others(i) /\ Grew(pipe[i], pipe'[i], c)
  BY PipeGrows DEF TypeInv
<1>2. /\ Len(pipe'[i]) \in Nat /\ DOMAIN pipe'[i] = 1..Len(pipe'[i])
      /\ Len(pipe[i]) \in Nat /\ DOMAIN pipe[i] = 1..Len(pipe[i])
  BY <1>1, SeqDomain, PipeDomain DEF TypeInv
<1>3. \A k \in DOMAIN pipe'[i] :
         pipe'[i][k] = c \/ (k \in DOMAIN pipe[i] /\ pipe'[i][k] = pipe[i][k])
  BY <1>1, <1>2 DEF Grew
<1>. QED  BY <1>1, <1>3 DEF Others, Awaited

LEMMA FinishCame ==
    ASSUME TypeInv, NEW i \in Instances, pipe[i] # <<>>, Finish(i)
    PROVE  \A j \in Instances : \A k \in DOMAIN pipe'[j] : Awaited(j, pipe'[j][k])
<1>1. pipe' \in [Instances -> Seq(Command)] /\ Others(i) /\ Shrank(pipe[i], pipe'[i])
  BY PipeFinishes DEF TypeInv
<1>2. /\ Len(pipe'[i]) \in Nat /\ DOMAIN pipe'[i] = 1..Len(pipe'[i])
      /\ Len(pipe[i]) \in Nat /\ DOMAIN pipe[i] = 1..Len(pipe[i])
  BY <1>1, SeqDomain, PipeDomain DEF TypeInv
<1>3. \A k \in DOMAIN pipe'[i] : k \in 1..Len(pipe[i]) - 1 /\ k + 1 \in DOMAIN pipe[i]
  BY <1>1, <1>2 DEF Shrank
<1>4. \A k \in DOMAIN pipe'[i] : k + 1 \in DOMAIN pipe[i] /\ pipe'[i][k] = pipe[i][k + 1]
  BY <1>1, <1>3 DEF Shrank
<1>. QED  BY <1>1, <1>4 DEF Others, Awaited

LEMMA GoOnCame ==
    ASSUME TypeInv, NEW i \in Instances, pipe[i] # <<>>, NEW c \in Command, GoOn(i, c)
    PROVE  \A j \in Instances : \A k \in DOMAIN pipe'[j] :
              Awaited(j, pipe'[j][k]) \/ (j = i /\ pipe'[j][k] = c)
<1>1. pipe' \in [Instances -> Seq(Command)] /\ Others(i) /\ WentOn(pipe[i], pipe'[i], c)
  BY PipeGoesOn DEF TypeInv
<1>2. /\ Len(pipe'[i]) \in Nat /\ DOMAIN pipe'[i] = 1..Len(pipe'[i])
      /\ Len(pipe[i]) \in Nat /\ DOMAIN pipe[i] = 1..Len(pipe[i])
  BY <1>1, SeqDomain, PipeDomain DEF TypeInv
<1>3. \A k \in DOMAIN pipe'[i] :
         k = Len(pipe[i]) \/ (k \in 1..Len(pipe[i]) - 1 /\ k + 1 \in DOMAIN pipe[i])
  BY <1>1, <1>2 DEF WentOn
<1>4. \A k \in DOMAIN pipe'[i] :
         pipe'[i][k] = c \/ (k + 1 \in DOMAIN pipe[i] /\ pipe'[i][k] = pipe[i][k + 1])
  BY <1>1, <1>3 DEF WentOn
<1>. QED  BY <1>1, <1>4 DEF Others, Awaited

\* Every entry in the list was there before or is one a client's command pushed.
LEMMA EntriesCame ==
    ASSUME TypeInv, [Next]_vars
    PROVE  \A k \in DOMAIN queue' :
              \/ \E j \in DOMAIN queue : queue'[k] = queue[j]
              \/ \E i \in Instances : \E h \in DOMAIN pipe[i] :
                    pipe[i][h].op = "lpush" /\ queue'[k] = pipe[i][h].entry
<1>1. ASSUME NEW i \in Instances, NEW h \in DOMAIN pipe[i], Run(pipe[i][h])
      PROVE  \A k \in DOMAIN queue' :
                \/ \E j \in DOMAIN queue : queue'[k] = queue[j]
                \/ pipe[i][h].op = "lpush" /\ queue'[k] = pipe[i][h].entry
  <2>1. pipe[i][h] \in Command
    BY PipeDomain DEF TypeInv
  <2>. QED  BY <1>1, <2>1, RunEffect DEF TypeInv
<1>2. ASSUME NEW i \in Instances, NEW operation, Reply(i, operation)
      PROVE  \E h \in DOMAIN pipe[i] : Run(pipe[i][h])
  BY <1>2, Served
<1>3. ASSUME NEW i \in Instances, RunUnanswered(i)
      PROVE  \E h \in DOMAIN pipe[i] : Run(pipe[i][h])
  <2>1. ran[i] + 1 \in DOMAIN pipe[i]
    BY <1>3, PipeDomain DEF RunUnanswered, TypeInv, TypeOK
  <2>. QED  BY <1>3, <2>1 DEF RunUnanswered
<1>4. ASSUME NEW i \in Instances, Serve(i)
      PROVE  \E operation : Reply(i, operation)
  BY <1>4 DEF Serve, ServeClient, ReadQueue, DropDuplicate, TakeFirst, TakeSecond, StoreKey,
     JoinFirst, JoinSecond
<1>5. \/ queue' = queue
      \/ \E i \in Instances : Serve(i) \/ RunUnanswered(i)
  BY DEF Next, Connect, Join, Leave, Close, Tick, Settle, Reconnect, GiveUp, Crash, FallSilent,
     vars, storeVars
<1>. QED  BY <1>1, <1>2, <1>3, <1>4, <1>5

LEMMA GoneOnTyped ==
    ASSUME TypeInv, NEW i \in Instances, pipe[i] # <<>>, NEW c, GoOn(i, c),
           pipe' \in [Instances -> Seq(Command)]
    PROVE  c \in Command
<1>. DEFINE more == Command \cup {c}
            q == Tail(pipe[i])
<1>1. q \in Seq(Command) /\ pipe'[i] = Append(q, c) /\ pipe'[i] \in Seq(Command)
  BY PipeFront DEF TypeInv, TypeOK, GoOn
<1>2. q \in Seq(more)
  BY <1>1, SeqMonotonic
<1>. HIDE DEF q
<1>3. Len(q) \in Nat /\ Len(Append(q, c)) = Len(q) + 1 /\ Append(q, c)[Len(q) + 1] = c
  BY <1>2, AppendProperties, LenProperties
<1>. HIDE DEF more
<1>4. Len(q) + 1 \in 1..Len(pipe'[i])
  BY <1>1, <1>3
<1>5. pipe'[i][Len(q) + 1] \in Command
  BY <1>1, <1>4, ElementOfSeq
<1>. QED  BY <1>1, <1>3, <1>5

\* Only a tick's command goes on.
LEMMA ServeShape ==
    ASSUME TypeInv, TypeInv', NEW i \in Instances, Serve(i)
    PROVE  /\ pipe[i] # <<>> /\ Run(Head(pipe[i])) /\ UNCHANGED <<clientVars, linkVars>>
           /\ \/ Finish(i)
              \/ /\ Head(pipe[i]).op \in WorkerOps
                 /\ \E c \in Command : c.op \in WorkerOps /\ GoOn(i, c)
<1>. DEFINE h == Head(pipe[i])
<1>1. PICK served : Reply(i, served)
  BY DEF Serve, ServeClient, ReadQueue, DropDuplicate, TakeFirst, TakeSecond, StoreKey,
     JoinFirst, JoinSecond
<1>2. /\ pipe[i] # <<>> /\ Run(h) /\ h \in Command /\ h.op = served
      /\ UNCHANGED <<clientVars, linkVars>>
  BY <1>1, Served
<1>3. ASSUME ~Finish(i)
      PROVE  h.op \in WorkerOps /\ \E c : c.op \in WorkerOps /\ GoOn(i, c)
  <2>0. ASSUME NEW c, NEW operation \in WorkerOps, GoOn(i, c), c.op = operation,
               h.op \in WorkerOps
        PROVE  h.op \in WorkerOps /\ \E d : d.op \in WorkerOps /\ GoOn(i, d)
    BY <2>0
  <2>1. CASE ReadQueue(i)
    <3>1. PICK operation \in {"dropDuplicate", "takeFirst"} :
             GoOn(i, [h EXCEPT !.entry = queue[1], !.other = queue[2], !.op = operation])
      BY <1>3, <2>1 DEF ReadQueue
    <3>. DEFINE c == [h EXCEPT !.entry = queue[1], !.other = queue[2], !.op = operation]
    <3>2. c.op = operation
      BY <1>2 DEF Command
    <3>3. GoOn(i, c) /\ h.op \in WorkerOps /\ operation \in WorkerOps
      BY <2>1, <3>1 DEF ReadQueue, Reply, WorkerOps
    <3>. HIDE DEF c, h
    <3>. QED  BY <2>0, <3>2, <3>3
  <2>2. CASE TakeFirst(i) \/ JoinFirst(i)
    <3>1. PICK operation \in {"takeSecond", "joinSecond"} : GoOn(i, [h EXCEPT !.op = operation])
      BY <2>2 DEF TakeFirst, JoinFirst
    <3>. DEFINE c == [h EXCEPT !.op = operation]
    <3>2. c.op = operation
      BY <1>2 DEF Command
    <3>3. GoOn(i, c) /\ h.op \in WorkerOps /\ operation \in WorkerOps
      BY <2>2, <3>1 DEF TakeFirst, JoinFirst, Reply, WorkerOps
    <3>. HIDE DEF c, h
    <3>. QED  BY <2>0, <3>2, <3>3
  <2>3. CASE TakeSecond(i)
    <3>. DEFINE c == [h EXCEPT !.op = "storeKeys", !.left = NumKeys, !.match = Len(matches) + 1]
    <3>1. GoOn(i, c) /\ h.op \in WorkerOps /\ "storeKeys" \in WorkerOps
      BY <2>3 DEF TakeSecond, Reply, WorkerOps
    <3>2. c.op = "storeKeys"
      BY <1>2 DEF Command
    <3>. HIDE DEF c, h
    <3>. QED  BY <2>0, <3>1, <3>2
  <2>4. CASE StoreKey(i)
    <3>. DEFINE c == [h EXCEPT !.left = @ - 1]
                d == [h EXCEPT !.op = "joinFirst", !.left = 0]
    <3>1. h.op = "storeKeys" /\ {"storeKeys", "joinFirst"} \subseteq WorkerOps
      BY <2>4 DEF StoreKey, Reply, WorkerOps
    <3>2. GoOn(i, c) \/ GoOn(i, d)
      BY <1>3, <2>4 DEF StoreKey, Conclude
    <3>3. c.op = "storeKeys" /\ d.op = "joinFirst"
      BY <1>2, <3>1 DEF Command
    <3>. HIDE DEF c, d, h
    <3>. QED  BY <2>0, <3>1, <3>2, <3>3
  <2>. QED  BY <1>3, <2>1, <2>2, <2>3, <2>4 DEF Serve, ServeClient, DropDuplicate, JoinSecond,
          Conclude
<1>. QED  BY <1>2, <1>3, GoneOnTyped DEF TypeInv, TypeOK

\* Every command awaited was awaited before, or is a tick's, or a client's of the
\* instance.
LEMMA CommandsCame ==
    ASSUME TypeInv, TypeInv', [Next]_vars
    PROVE  \A i \in Instances : \A k \in DOMAIN pipe'[i] :
              \/ Awaited(i, pipe'[i][k])
              \/ pipe'[i][k].op \in WorkerOps
              \/ FromClient(i, pipe'[i][k])
<1>. DEFINE Goal == \A j \in Instances : \A k \in DOMAIN pipe'[j] :
                       \/ Awaited(j, pipe'[j][k])
                       \/ pipe'[j][k].op \in WorkerOps
                       \/ FromClient(j, pipe'[j][k])
<1>1. ASSUME NEW s \in Sockets, Join(s) \/ Leave(s) \/ Close(s) PROVE Goal
  <2>1. PICK u \in PayloadUser[s] \cup {UserOf[s]}, operation \in ClientOps :
           Issue(Home[s], ClientCommand(operation, EntryOf(s, u)))
    BY <1>1 DEF Join, Leave, Close, ClientOps
  <2>. DEFINE c == ClientCommand(operation, EntryOf(s, u))
  <2>2. c \in Command
    BY PayloadTyped, ClientCommandTyped
  <2>3. FromClient(Home[s], c)
    BY <2>1 DEF FromClient, ClientCommand
  <2>. HIDE DEF c
  <2>4. Issue(Home[s], c) /\ Home[s] \in Instances
    BY <2>1, HomeAssumption DEF c
  <2>. QED  BY <2>2, <2>3, <2>4, IssueCame
<1>2. ASSUME NEW i \in Instances, Tick(i) PROVE Goal
  <2>. DEFINE c == [op |-> "lrange", entry |-> AnyEntry, other |-> AnyEntry,
                    match |-> 0, left |-> 0]
  <2>1. Issue(i, c) /\ c \in Command /\ c.op \in WorkerOps
    BY <1>2, TickTyped DEF Tick, WorkerOps
  <2>. HIDE DEF c
  <2>. QED  BY <2>1, IssueCame
<1>3. ASSUME NEW i \in Instances, Serve(i) PROVE Goal
  <2>1. pipe[i] # <<>> /\ (Finish(i) \/ \E c \in Command : c.op \in WorkerOps /\ GoOn(i, c))
    BY <1>3, ServeShape
  <2>. QED  BY <2>1, FinishCame, GoOnCame
<1>4. ASSUME NEW i \in Instances, GiveUp(i) \/ Crash(i) PROVE Goal
  <2>1. DropPipe(i)
    BY <1>4 DEF GiveUp, Crash
  <2>. QED  BY <2>1, PipeDropped DEF Others, Awaited, TypeInv
<1>5. ASSUME UNCHANGED pipe PROVE Goal
  BY <1>5 DEF Awaited
<1>. QED
  BY <1>1, <1>2, <1>3, <1>4, <1>5
  DEF Next, Connect, Settle, Reconnect, FallSilent, RunUnanswered, vars

\* The two entries of a match never change.
LEMMA MatchesKept ==
    ASSUME TypeInv, [Next]_vars
    PROVE  /\ DOMAIN matches \subseteq DOMAIN matches'
           /\ \A m \in DOMAIN matches : /\ matches'[m].first = matches[m].first
                                        /\ matches'[m].second = matches[m].second
<1>. DEFINE Goal == /\ DOMAIN matches \subseteq DOMAIN matches'
                    /\ \A m \in DOMAIN matches : /\ matches'[m].first = matches[m].first
                                                 /\ matches'[m].second = matches[m].second
<1>0. /\ matches \in Seq(Match) /\ Len(matches) \in Nat /\ DOMAIN matches = 1..Len(matches)
      /\ \A m \in DOMAIN matches : matches[m] \in Match
  BY SeqDomain DEF TypeInv, TypeOK
<1>1. ASSUME NEW i \in Instances, GiveUp(i) \/ Crash(i) PROVE Goal
  <2>1. DropPipe(i)
    BY <1>1 DEF GiveUp, Crash
  <2>. QED  BY <1>0, <2>1, PipeDropped DEF TypeInv, Match
<1>2. ASSUME NEW i \in Instances, NEW result \in Outcomes, Conclude(i, result) PROVE Goal
  BY <1>0, <1>2, ConcludeEffect DEF TypeInv, Match
<1>3. ASSUME NEW i \in Instances, TakeSecond(i) PROVE Goal
  <2>. DEFINE m == [first |-> Head(pipe[i]).entry, second |-> Head(pipe[i]).other,
                    outcome |-> "pending"]
  <2>1. matches' = Append(matches, m) /\ m \in Match
    <3>1. Head(pipe[i]) \in Command
      BY <1>3, Served DEF TakeSecond
    <3>. QED  BY <1>3, <3>1 DEF TakeSecond, Match, Command, Outcomes
  <2>. HIDE DEF m
  <2>2. /\ matches' \in Seq(Match) /\ Len(matches') = Len(matches) + 1
        /\ \A n \in 1..Len(matches) : matches'[n] = matches[n]
    BY <1>0, <2>1, AppendProperties
  <2>3. DOMAIN matches' = 1..Len(matches')
    BY <2>2, LenProperties
  <2>. QED  BY <1>0, <2>2, <2>3
<1>4. \/ matches' = matches
      \/ \E i \in Instances : GiveUp(i) \/ Crash(i) \/ TakeSecond(i)
      \/ \E i \in Instances : \E result \in Outcomes : Conclude(i, result)
  BY DEF Next, Connect, Join, Leave, Close, Tick, Serve, ServeClient, ReadQueue, DropDuplicate,
     TakeFirst, StoreKey, JoinFirst, JoinSecond, Settle, Reconnect, FallSilent, RunUnanswered,
     vars, Outcomes
<1>. QED  BY <1>1, <1>2, <1>3, <1>4

-----------------------------------------------------------------------------
(* Leaving the list                                                        *)

\* Clients put their own userId, or none, into their payloads.
OwnPayload == \A s \in Sockets : PayloadUser[s] \subseteq {UserOf[s], NoUser}

OwnUserId(e) == e.userId \in {UserOf[e.clientId], NoUser}

OwnInv ==
    /\ \A k \in DOMAIN queue : OwnUserId(queue[k])
    /\ \A i \in Instances : \A k \in DOMAIN pipe[i] : pipe[i][k].op \in ClientOps =>
          OwnUserId(pipe[i][k].entry) /\ Home[pipe[i][k].entry.clientId] = i

Own(c, s) == c.op \in ClientOps /\ c.entry.clientId = s

\* The last thing a socket that left has under way is the removal of its entry;
\* with nothing under way the entry is gone.
Leaving(s) ==
    /\ OwnCommands(s) = {} =>
          \A k \in DOMAIN queue : queue[k].userId # NoUser => queue[k].clientId # s
    /\ \A k \in OwnCommands(s) : (\A j \in OwnCommands(s) : j <= k) =>
          pipe[Home[s]][k].op = "lremAll" /\ pipe[Home[s]][k].entry = EntryOf(s, UserOf[s])

LeaverInv == ~lost => \A s \in Sockets : ~wants[s] => Leaving(s)

LEMMA OwnInit == Init => OwnInv /\ LeaverInv
<1>. SUFFICES ASSUME Init PROVE OwnInv /\ LeaverInv
  OBVIOUS
<1>1. DOMAIN (<<>>) = {}
  OBVIOUS
<1>2. \A s \in Sockets : OwnCommands(s) = {}
  BY <1>1, HomeAssumption DEF Init, OwnCommands
<1>3. \A s \in Sockets : Leaving(s)
  BY <1>1, <1>2 DEF Init, Leaving
<1>. QED  BY <1>1, <1>3 DEF Init, OwnInv, LeaverInv

LEMMA OwnNext == OwnPayload /\ TypeInv /\ TypeInv' /\ OwnInv /\ [Next]_vars => OwnInv'
<1>. SUFFICES ASSUME OwnPayload, TypeInv, TypeInv', OwnInv, [Next]_vars PROVE OwnInv'
  OBVIOUS
<1>1. ASSUME NEW k \in DOMAIN queue' PROVE OwnUserId(queue'[k])
  BY EntriesCame DEF OwnInv, ClientOps
<1>2. ASSUME NEW i \in Instances, NEW k \in DOMAIN pipe'[i], pipe'[i][k].op \in ClientOps
      PROVE  OwnUserId(pipe'[i][k].entry) /\ Home[pipe'[i][k].entry.clientId] = i
  <2>. DEFINE c == pipe'[i][k]
  <2>1. CASE Awaited(i, c)
    BY <1>2, <2>1 DEF Awaited, OwnInv
  <2>2. CASE FromClient(i, c)
    <3>. HIDE DEF c
    <3>0. PICK s \in Sockets : /\ Home[s] = i
                               /\ \/ \E u \in PayloadUser[s] : c.entry = EntryOf(s, u)
                                  \/ c.entry = EntryOf(s, UserOf[s])
      BY <2>2 DEF FromClient
    <3>1. PICK u \in {UserOf[s], NoUser} : c.entry = EntryOf(s, u)
      BY <3>0 DEF OwnPayload
    <3>2. c.entry.clientId = s /\ c.entry.userId = u
      BY <3>1 DEF EntryOf
    <3>3. OwnUserId(c.entry) /\ Home[c.entry.clientId] = i
      BY <3>0, <3>2 DEF OwnUserId
    <3>. QED  BY <3>3 DEF c
  <2>3. c.op \notin WorkerOps
    BY <1>2 DEF ClientOps, WorkerOps
  <2>. QED  BY <2>1, <2>2, <2>3, CommandsCame
<1>. QED  BY <1>1, <1>2 DEF OwnInv, OwnUserId

\* A socket with nothing under way gets no entry into the list.
LEMMA StaysOut ==
    ASSUME TypeInv, OwnInv, [Next]_vars, NEW s \in Sockets, OwnCommands(s) = {},
           \A k \in DOMAIN queue : queue[k].userId # NoUser => queue[k].clientId # s
    PROVE  \A k \in DOMAIN queue' : queue'[k].userId # NoUser => queue'[k].clientId # s
<1>. SUFFICES ASSUME NEW i \in Instances, NEW h \in DOMAIN pipe[i], pipe[i][h].op = "lpush"
              PROVE  pipe[i][h].entry.clientId # s
  BY EntriesCame
<1>1. CASE i = Home[s]
  BY <1>1 DEF OwnCommands, ClientOps
<1>2. CASE i # Home[s]
  BY <1>2 DEF OwnInv, ClientOps
<1>. QED  BY <1>1, <1>2

\* The commands of a socket stay where they are.
LEMMA LeavingKept ==
    ASSUME TypeInv, OwnInv, [Next]_vars, NEW s \in Sockets, Leaving(s),
           \A k \in DOMAIN pipe'[Home[s]] : Own(pipe'[Home[s]][k], s) =>
              k \in DOMAIN pipe[Home[s]] /\ pipe'[Home[s]][k] = pipe[Home[s]][k],
           \A k \in DOMAIN pipe[Home[s]] :
              k \in DOMAIN pipe'[Home[s]] /\ pipe'[Home[s]][k] = pipe[Home[s]][k]
    PROVE  Leaving(s)'
<1>1. OwnCommands(s)' = OwnCommands(s)
  BY DEF OwnCommands, Own
<1>2. \A k \in OwnCommands(s) : pipe'[Home[s]][k] = pipe[Home[s]][k]
  BY DEF OwnCommands
<1>3. OwnCommands(s) = {} =>
         \A k \in DOMAIN queue' : queue'[k].userId # NoUser => queue'[k].clientId # s
  BY StaysOut DEF Leaving
<1>. QED  BY <1>1, <1>2, <1>3 DEF Leaving

\* The commands of a socket move up; the first may be its own.
LEMMA LeavingMovesUp ==
    ASSUME TypeInv, OwnInv, OwnInv', [Next]_vars, NEW s \in Sockets, Leaving(s),
           pipe[Home[s]] # <<>>, Run(Head(pipe[Home[s]])), TypeInv',
           \A k \in DOMAIN pipe'[Home[s]] : Own(pipe'[Home[s]][k], s) =>
              k + 1 \in DOMAIN pipe[Home[s]] /\ pipe'[Home[s]][k] = pipe[Home[s]][k + 1],
           \A k \in DOMAIN pipe[Home[s]] : k = 1 \/ ~Own(pipe[Home[s]][k], s) \/
              (k - 1 \in DOMAIN pipe'[Home[s]] /\ pipe'[Home[s]][k - 1] = pipe[Home[s]][k])
    PROVE  Leaving(s)'
<1>. DEFINE q == pipe[Home[s]]
            r == pipe'[Home[s]]
<1>0. /\ Home[s] \in Instances /\ DOMAIN q = 1..Len(q) /\ Len(q) \in Nat /\ DOMAIN r \subseteq Nat
      /\ q[1] = Head(q) /\ q[1] \in Command /\ 1 \in DOMAIN q
  <2>1. Home[s] \in Instances
    BY HomeAssumption
  <2>2. DOMAIN r = 1..Len(r)
    BY <2>1, SeqDomain DEF TypeInv, TypeOK
  <2>. QED  BY <2>1, <2>2, PipeDomain, PipeFront DEF TypeInv
<1>1. \A k : k \in OwnCommands(s) <=> k \in DOMAIN q /\ Own(q[k], s)
  BY DEF OwnCommands, Own
<1>2. \A k : k \in OwnCommands(s)' <=> k \in DOMAIN r /\ Own(r[k], s)
  BY DEF OwnCommands, Own
<1>3. \A k \in OwnCommands(s)' : k + 1 \in OwnCommands(s) /\ r[k] = q[k + 1] /\ k \in Nat
  BY <1>0, <1>1, <1>2
<1>4. \A k \in OwnCommands(s) \ {1} : k - 1 \in OwnCommands(s)' /\ k \in Nat
  <2>. SUFFICES ASSUME NEW k \in OwnCommands(s), k # 1 PROVE k - 1 \in OwnCommands(s)' /\ k \in Nat
    OBVIOUS
  <2>1. k \in DOMAIN q /\ Own(q[k], s)
    BY <1>1
  <2>2. k - 1 \in DOMAIN r /\ r[k - 1] = q[k]
    BY <2>1
  <2>. QED  BY <1>0, <1>2, <2>1, <2>2
<1>. HIDE DEF q, r
<1>5. ASSUME NEW k \in OwnCommands(s)', \A j \in OwnCommands(s)' : j <= k
      PROVE  r[k].op = "lremAll" /\ r[k].entry = EntryOf(s, UserOf[s])
  <2>1. \A j \in OwnCommands(s) : j <= k + 1
    <3>. SUFFICES ASSUME NEW j \in OwnCommands(s), j # 1 PROVE j <= k + 1
      BY <1>3
    <3>. QED  BY <1>3, <1>4, <1>5
  <2>2. q[k + 1].op = "lremAll" /\ q[k + 1].entry = EntryOf(s, UserOf[s])
    BY <1>3, <1>5, <2>1 DEF Leaving, q
  <2>. QED  BY <1>3, <1>5, <2>2
<1>6. ASSUME OwnCommands(s)' = {}
      PROVE  \A k \in DOMAIN queue' : queue'[k].userId # NoUser => queue'[k].clientId # s
  <2>1. CASE OwnCommands(s) = {}
    BY <2>1, StaysOut DEF Leaving
  <2>2. CASE OwnCommands(s) # {}
    <3>1. OwnCommands(s) = {1}
      BY <1>4, <1>6, <2>2
    <3>2. q[1].op = "lremAll" /\ q[1].entry = EntryOf(s, UserOf[s])
      BY <3>1 DEF Leaving, q
    <3>3. \A k \in DOMAIN queue' : queue'[k] # EntryOf(s, UserOf[s])
      BY <1>0, <3>2, RunEffect DEF TypeInv, q
    <3>4. \A k \in DOMAIN queue' : queue'[k] \in Entry /\ OwnUserId(queue'[k])
      BY SeqDomain DEF TypeInv, TypeOK, OwnInv, OwnUserId
    <3>5. \A e \in Entry : OwnUserId(e) /\ e.userId # NoUser /\ e.clientId = s =>
             e = EntryOf(s, UserOf[s])
      BY DEF Entry, EntryOf, OwnUserId
    <3>. QED  BY <3>3, <3>4, <3>5
  <2>. QED  BY <2>1, <2>2
<1>. QED  BY <1>5, <1>6 DEF Leaving, r

LEMMA LeaverNext ==
    OwnPayload /\ TypeInv /\ TypeInv' /\ OwnInv /\ OwnInv' /\ LeaverInv /\ [Next]_vars => LeaverInv'
<1>. SUFFICES ASSUME OwnPayload, TypeInv, TypeInv', OwnInv, OwnInv', LeaverInv, [Next]_vars, ~lost',
                     NEW s \in Sockets, ~wants'[s]
              PROVE  Leaving(s)'
  BY DEF LeaverInv
<1>. DEFINE i == Home[s]
            q == pipe[i]
            r == pipe'[i]
<1>0. /\ i \in Instances /\ DOMAIN q = 1..Len(q) /\ Len(q) \in Nat
      /\ DOMAIN r = 1..Len(r) /\ Len(r) \in Nat
  <2>1. i \in Instances
    BY HomeAssumption
  <2>. QED  BY <2>1, SeqDomain DEF TypeInv, TypeOK
<1>1. ASSUME NEW j \in Instances, NEW c \in Command, Issue(j, c), ~Own(c, s), ~lost, ~wants[s]
      PROVE  Leaving(s)'
  <2>1. Leaving(s)
    BY <1>1 DEF LeaverInv
  <2>2. CASE j = i
    <3>1. Grew(q, r, c)
      BY <1>1, <2>2, PipeGrows DEF TypeInv
    <3>2. /\ \A k \in DOMAIN r : k \in DOMAIN q \/ r[k] = c
          /\ \A k \in DOMAIN q : k \in DOMAIN r /\ r[k] = q[k]
      BY <1>0, <3>1 DEF Grew
    <3>. QED  BY <1>1, <2>1, <3>2, LeavingKept
  <2>3. CASE j # i
    <3>1. r = q
      BY <1>0, <1>1, <2>3, PipeGrows DEF TypeInv, Others
    <3>. QED  BY <2>1, <3>1, LeavingKept
  <2>. QED  BY <2>2, <2>3
<1>2. ASSUME NEW t \in Sockets, Join(t) \/ Leave(t) \/ Close(t), t # s PROVE Leaving(s)'
  <2>1. PICK u \in PayloadUser[t] \cup {UserOf[t]}, operation \in ClientOps :
           Issue(Home[t], ClientCommand(operation, EntryOf(t, u)))
    BY <1>2 DEF Join, Leave, Close, ClientOps
  <2>. DEFINE c == ClientCommand(operation, EntryOf(t, u))
  <2>2. c \in Command /\ Home[t] \in Instances
    BY PayloadTyped, ClientCommandTyped, HomeAssumption
  <2>3. ~Own(c, s)
    BY <1>2 DEF Own, ClientCommand, EntryOf
  <2>4. ~lost /\ ~wants[s]
    BY <1>2 DEF Join, Leave, Close, linkVars, TypeInv, TypeOK
  <2>. HIDE DEF c
  <2>. QED  BY <1>1, <2>1, <2>2, <2>3, <2>4 DEF c
<1>3. ~Join(s)
  BY DEF Join, TypeInv, TypeOK
<1>4. CASE Leave(s) \/ Close(s)
  <2>. DEFINE c == ClientCommand("lremAll", EntryOf(s, UserOf[s]))
  <2>1. Issue(i, c)
    <3>1. \A u \in PayloadUser[s] : (IF u = NoUser THEN UserOf[s] ELSE u) = UserOf[s]
      BY DEF OwnPayload
    <3>. QED  BY <1>4, <3>1 DEF Leave, Close
  <2>2. c \in Command
    BY PayloadTyped, ClientCommandTyped DEF ClientOps
  <2>3. Own(c, s) /\ c.op = "lremAll" /\ c.entry = EntryOf(s, UserOf[s])
    BY DEF Own, ClientCommand, EntryOf, ClientOps
  <2>. HIDE DEF c
  <2>4. Grew(q, r, c)
    BY <1>0, <2>1, <2>2, PipeGrows DEF TypeInv
  <2>5. Len(q) + 1 \in DOMAIN r /\ r[Len(q) + 1] = c /\ \A k \in DOMAIN r : k <= Len(q) + 1
    BY <1>0, <2>4 DEF Grew
  <2>6. Len(q) + 1 \in OwnCommands(s)' /\ \A k \in OwnCommands(s)' : k \in DOMAIN r
    BY <2>3, <2>5 DEF OwnCommands, Own
  <2>7. \A k \in OwnCommands(s)' : (\A j \in OwnCommands(s)' : j <= k) => k = Len(q) + 1
    BY <1>0, <2>5, <2>6
  <2>. QED  BY <2>3, <2>5, <2>6, <2>7 DEF Leaving
<1>5. ASSUME NEW j \in Instances, Tick(j) PROVE Leaving(s)'
  <2>. DEFINE c == [op |-> "lrange", entry |-> AnyEntry, other |-> AnyEntry,
                    match |-> 0, left |-> 0]
  <2>1. Issue(j, c) /\ c \in Command /\ ~lost /\ ~wants[s]
    BY <1>5, TickTyped DEF Tick, clientVars, linkVars
  <2>2. ~Own(c, s)
    BY DEF Own, ClientOps
  <2>. HIDE DEF c
  <2>. QED  BY <1>1, <2>1, <2>2
<1>6. ASSUME ~lost, ~wants[s], pipe'[i] = pipe[i] PROVE Leaving(s)'
  BY <1>6, LeavingKept DEF LeaverInv
<1>7. ASSUME NEW j \in Instances, Serve(j) PROVE Leaving(s)'
  <2>1. /\ pipe[j] # <<>> /\ Run(Head(pipe[j])) /\ ~lost /\ ~wants[s]
        /\ \/ Finish(j)
           \/ /\ Head(pipe[j]).op \in WorkerOps
              /\ \E c \in Command : c.op \in WorkerOps /\ GoOn(j, c)
    BY <1>7, ServeShape DEF clientVars, linkVars
  <2>2. CASE j # i
    <3>1. pipe'[i] = pipe[i]
      BY <1>0, <2>1, <2>2, PipeFinishes, PipeGoesOn DEF TypeInv, Others
    <3>. QED  BY <1>6, <2>1, <3>1
  <2>3. CASE j = i
    <3>1. CASE Finish(i)
      <4>1. Shrank(q, r)
        BY <1>0, <2>1, <2>3, <3>1, PipeFinishes DEF TypeInv
      <4>2. /\ \A k \in DOMAIN r : k \in 1..Len(q) - 1 /\ k + 1 \in DOMAIN q
            /\ \A k \in DOMAIN q : k = 1 \/ (k - 1 \in 1..Len(q) - 1 /\ k - 1 \in DOMAIN r /\ (k - 1) + 1 = k)
        BY <1>0, <4>1 DEF Shrank
      <4>3. /\ \A k \in DOMAIN r : k + 1 \in DOMAIN q /\ r[k] = q[k + 1]
            /\ \A k \in DOMAIN q : k = 1 \/ (k - 1 \in DOMAIN r /\ r[k - 1] = q[k])
        BY <4>1, <4>2 DEF Shrank
      <4>. QED  BY <2>1, <2>3, <4>3, LeavingMovesUp DEF LeaverInv
    <3>2. ASSUME NEW c \in Command, c.op \in WorkerOps, GoOn(i, c) PROVE Leaving(s)'
      <4>1. WentOn(q, r, c) /\ ~Own(c, s)
        BY <1>0, <2>1, <2>3, <3>2, PipeGoesOn DEF TypeInv, Own, WorkerOps, ClientOps
      <4>2. /\ \A k \in DOMAIN r : \/ k = Len(q)
                                   \/ k \in 1..Len(q) - 1 /\ k + 1 \in DOMAIN q
            /\ \A k \in DOMAIN q : k = 1 \/ (k - 1 \in 1..Len(q) - 1 /\ k - 1 \in DOMAIN r /\ (k - 1) + 1 = k)
        BY <1>0, <4>1 DEF WentOn
      <4>3. /\ \A k \in DOMAIN r : r[k] = c \/ (k + 1 \in DOMAIN q /\ r[k] = q[k + 1])
            /\ \A k \in DOMAIN q : k = 1 \/ (k - 1 \in DOMAIN r /\ r[k - 1] = q[k])
        BY <4>1, <4>2 DEF WentOn
      <4>. QED  BY <2>1, <2>3, <4>1, <4>3, LeavingMovesUp DEF LeaverInv
    <3>. QED  BY <2>1, <2>3, <3>1, <3>2
  <2>. QED  BY <2>2, <2>3
<1>8. ASSUME NEW j \in Instances PROVE ~GiveUp(j) /\ ~Crash(j)
  BY DEF GiveUp, Crash, DropPipe
<1>9. \/ \E t \in Sockets : Join(t) \/ Leave(t) \/ Close(t)
      \/ \E j \in Instances : Tick(j) \/ Serve(j)
      \/ UNCHANGED <<pipe, lost, wants>>
  BY <1>8 DEF Next, Connect, Settle, Reconnect, FallSilent, RunUnanswered, vars, clientVars, linkVars
<1>. QED  BY <1>2, <1>3, <1>4, <1>5, <1>6, <1>7, <1>9 DEF LeaverInv

\* Once the commands of a client that left or disconnected are through, none of
\* its entries is in the list: of all it may have under way the removal is last,
\* on the connection the pushes were sent on, also when all of them run twice.
THEOREM LeaversStayOut ==
    ASSUME OwnPayload
    PROVE  Spec => []LeaversAreOut
<1>1. TypeInv /\ OwnInv /\ LeaverInv /\ [Next]_vars => OwnInv' /\ LeaverInv'
  BY TypeInvNext, OwnNext, LeaverNext
<1>2. LeaverInv => LeaversAreOut
  BY DEF LeaverInv, Leaving, LeaversAreOut
<1>. QED  BY <1>1, <1>2, OwnInit, TypeInvariant, PTL DEF Spec

-----------------------------------------------------------------------------
(* Few matches for a join                                                  *)

LEMMA QueuedFinite ==
    ASSUME queue \in Seq(Entry), NEW e
    PROVE  IsFiniteSet(Queued(e)) /\ Cardinality(Queued(e)) \in Nat
<1>1. DOMAIN queue = 1..Len(queue) /\ Len(queue) \in Nat
  BY LenProperties
<1>2. IsFiniteSet(1..Len(queue)) /\ Queued(e) \in SUBSET (1..Len(queue))
  BY <1>1, FS_Interval DEF Queued
<1>. QED  BY <1>2, FS_Subset, FS_CardinalityType

LEMMA TakenFinite ==
    ASSUME matches \in Seq(Match), NEW e
    PROVE  IsFiniteSet(Taken(e)) /\ Cardinality(Taken(e)) \in Nat
<1>1. DOMAIN matches = 1..Len(matches) /\ Len(matches) \in Nat
  BY LenProperties
<1>2. IsFiniteSet(1..Len(matches)) /\ Taken(e) \in SUBSET (1..Len(matches))
  BY <1>1, FS_Interval DEF Taken
<1>. QED  BY <1>2, FS_Subset, FS_CardinalityType

\* An LPUSH counts for the entry it pushes.
LEMMA LpushCounts ==
    ASSUME queue \in Seq(Entry), NEW c \in Entry, queue' = <<c>> \o queue, NEW e \in Entry
    PROVE  /\ Cardinality(Queued(e))' \in Nat /\ Cardinality(Queued(e)) \in Nat
           /\ Cardinality(Queued(e))' <= Cardinality(Queued(e)) + (IF e = c THEN 1 ELSE 0)
<1>. DEFINE after == {k \in DOMAIN queue' : queue'[k] = e}
            rest == after \ {1}
            back == [k \in rest |-> k - 1]
<1>0. Queued(e)' = after
  BY DEF Queued
<1>1. /\ queue' \in Seq(Entry) /\ Len(queue) \in Nat /\ Len(queue') = Len(queue) + 1
      /\ DOMAIN queue = 1..Len(queue) /\ DOMAIN queue' = 1..Len(queue')
      /\ queue'[1] = c /\ \A k \in 1..Len(queue) : queue'[k + 1] = queue[k]
  BY LpushEffect
<1>2. IsFiniteSet(Queued(e)) /\ Cardinality(Queued(e)) \in Nat
  BY QueuedFinite
<1>3. IsFiniteSet(after) /\ Cardinality(after) \in Nat
  <2>1. IsFiniteSet(1..Len(queue')) /\ after \in SUBSET (1..Len(queue'))
    BY <1>1, FS_Interval
  <2>. QED  BY <2>1, FS_Subset, FS_CardinalityType
<1>4. IsFiniteSet(rest)
      /\ Cardinality(rest) = IF 1 \in after THEN Cardinality(after) - 1 ELSE Cardinality(after)
  BY <1>3, FS_RemoveElement
<1>5. \A k \in rest : k \in Nat /\ k - 1 \in Queued(e)
  <2>. SUFFICES ASSUME NEW k \in 1..Len(queue) + 1, k # 1, queue'[k] = e
                PROVE  k \in Nat /\ k - 1 \in Queued(e)
    BY <1>1
  <2>1. k - 1 \in 1..Len(queue) /\ (k - 1) + 1 = k
    BY <1>1
  <2>2. queue[k - 1] = e
    BY <1>1, <2>1
  <2>. QED  BY <1>1, <2>1, <2>2 DEF Queued
<1>. HIDE DEF rest
<1>6. back \in Injection(rest, Queued(e))
  <2>1. back \in [rest -> Queued(e)]
    BY <1>5
  <2>2. \A j, k \in rest : back[j] = back[k] => j = k
    BY <1>5
  <2>. HIDE DEF back
  <2>. QED  BY <2>1, <2>2 DEF Injection, IsInjective
<1>7. Cardinality(rest) <= Cardinality(Queued(e))
  BY <1>2, <1>6, FS_Injection
<1>8. 1 \in after => e = c
  BY <1>1
<1>. HIDE DEF after
<1>. QED  BY <1>0, <1>2, <1>3, <1>4, <1>7, <1>8

\* An LREM leaves at most what is at the other places.
LEMMA LremCounts ==
    ASSUME queue \in Seq(Entry), NEW places, Lrem(places), NEW e \in Entry
    PROVE  /\ Cardinality(Queued(e))' \in Nat
           /\ IsFiniteSet(Queued(e) \ places) /\ Cardinality(Queued(e) \ places) \in Nat
           /\ Cardinality(Queued(e))' <= Cardinality(Queued(e) \ places)
           /\ Cardinality(Queued(e) \ places) <= Cardinality(Queued(e))
<1>. DEFINE after == {k \in DOMAIN queue' : queue'[k] = e}
<1>0. Queued(e)' = after
  BY DEF Queued
<1>1. PICK from \in [DOMAIN queue' -> DOMAIN queue \ places] :
         /\ \A k \in DOMAIN queue' : queue'[k] = queue[from[k]]
         /\ \A j, k \in DOMAIN queue' : from[j] = from[k] => j = k
  BY LremEffect
<1>2. /\ IsFiniteSet(Queued(e) \ places) /\ Cardinality(Queued(e) \ places) \in Nat
      /\ Cardinality(Queued(e) \ places) <= Cardinality(Queued(e))
  <2>1. IsFiniteSet(Queued(e)) /\ Queued(e) \ places \in SUBSET Queued(e)
    BY QueuedFinite
  <2>. QED  BY <2>1, FS_Subset, FS_CardinalityType
<1>. DEFINE origin == [k \in after |-> from[k]]
<1>3. origin \in Injection(after, Queued(e) \ places)
  <2>1. origin \in [after -> Queued(e) \ places]
    BY <1>1 DEF Queued
  <2>2. \A j, k \in after : origin[j] = origin[k] => j = k
    BY <1>1
  <2>. HIDE DEF origin, after
  <2>. QED  BY <2>1, <2>2 DEF Injection, IsInjective
<1>4. IsFiniteSet(after) /\ Cardinality(after) <= Cardinality(Queued(e) \ places)
  BY <1>2, <1>3, FS_Injection
<1>5. Cardinality(after) \in Nat
  BY <1>4, FS_CardinalityType
<1>. HIDE DEF after
<1>. QED  BY <1>0, <1>2, <1>4, <1>5

\* There is a first among the places of an entry.
LEMMA SomeFirst ==
    ASSUME queue \in Seq(Entry), NEW e, Queued(e) # {}
    PROVE  \E j \in Queued(e) : j \in FirstQueued(e)
<1>. DEFINE j == Nth(Queued(e), 1)
            upTo == {i \in Queued(e) : i <= j}
<1>1. /\ IsFiniteSet(Queued(e)) /\ Cardinality(Queued(e)) \in Nat
      /\ Cardinality(Queued(e)) # 0
  BY QueuedFinite, FS_EmptySet
<1>2. Queued(e) \in SUBSET Nat
  BY LenProperties DEF Queued
<1>3. 1 \in 1..Cardinality(Queued(e))
  BY <1>1
<1>4. j \in Queued(e) /\ Cardinality(upTo) = 1
  BY <1>1, <1>2, <1>3, Ranks
<1>5. IsFiniteSet(upTo)
  <2>1. upTo \in SUBSET Queued(e)
    OBVIOUS
  <2>. QED  BY <1>1, <2>1, FS_Subset
<1>. HIDE DEF j
<1>6. \E x : upTo = {x}
  <2>. HIDE DEF upTo
  <2>. QED  BY <1>4, <1>5, FS_Singleton
<1>7. j \in upTo
  BY <1>2, <1>4
<1>8. \A i \in Queued(e) : j <= i
  <2>. SUFFICES ASSUME NEW i \in Queued(e), ~(j <= i) PROVE FALSE
    OBVIOUS
  <2>1. i \in upTo /\ i # j
    BY <1>2, <1>4
  <2>. QED  BY <1>6, <1>7, <2>1
<1>. QED  BY <1>4, <1>8 DEF FirstQueued

\* No command loses a push, and none but LPUSH makes one.
LEMMA RunCounts ==
    ASSUME TypeOK, NEW c \in Command, Run(c), NEW e \in Entry
    PROVE  /\ pushed[e] \in Nat /\ pushed'[e] \in Nat /\ pushed[e] <= pushed'[e]
           /\ Cardinality(Queued(e)) \in Nat /\ Cardinality(Queued(e))' \in Nat
           /\ Cardinality(Queued(e))' + pushed[e] <= Cardinality(Queued(e)) + pushed'[e]
           /\ c.op # "lpush" => /\ pushed' = pushed
                                /\ Cardinality(Queued(e))' <= Cardinality(Queued(e))
<1>0. /\ c.entry \in Entry /\ queue \in Seq(Entry) /\ pushed \in [Entry -> Nat]
      /\ Cardinality(Queued(e)) \in Nat
  BY QueuedFinite DEF TypeOK, Command
<1>1. CASE c.op = "lpush"
  <2>1. queue' = <<c.entry>> \o queue /\ pushed' = [pushed EXCEPT ![c.entry] = @ + 1]
    BY <1>1 DEF Run
  <2>2. /\ Cardinality(Queued(e))' \in Nat
        /\ Cardinality(Queued(e))' <= Cardinality(Queued(e)) + (IF e = c.entry THEN 1 ELSE 0)
    BY <1>0, <2>1, LpushCounts
  <2>3. pushed'[e] = pushed[e] + (IF e = c.entry THEN 1 ELSE 0) /\ pushed[e] \in Nat
    BY <1>0, <2>1
  <2>. QED  BY <1>0, <1>1, <2>2, <2>3
<1>2. CASE c.op # "lpush"
  <2>1. Lrem(Removed(c)) /\ pushed' = pushed
    BY <1>2 DEF Run
  <2>2. /\ Cardinality(Queued(e))' \in Nat
        /\ Cardinality(Queued(e))' <= Cardinality(Queued(e))
    <3>1. /\ Cardinality(Queued(e))' \in Nat /\ Cardinality(Queued(e) \ Removed(c)) \in Nat
          /\ Cardinality(Queued(e))' <= Cardinality(Queued(e) \ Removed(c))
          /\ Cardinality(Queued(e) \ Removed(c)) <= Cardinality(Queued(e))
      BY <1>0, <2>1, LremCounts
    <3>. QED  BY <1>0, <3>1
  <2>3. pushed[e] \in Nat
    BY <1>0
  <2>. QED  BY <1>0, <1>2, <2>1, <2>2, <2>3
<1>. QED  BY <1>1, <1>2

\* The worker's removal of an entry removes one if there is one.
LEMMA RunTakes ==
    ASSUME TypeOK, NEW c \in Command, Run(c), NEW e \in Entry,
           \/ c.op = "takeFirst" /\ c.entry = e
           \/ c.op = "takeSecond" /\ c.other = e
    PROVE  \/ Cardinality(Queued(e))' = 0
           \/ Cardinality(Queued(e))' + 1 <= Cardinality(Queued(e))
<1>0. queue \in Seq(Entry)
  BY DEF TypeOK
<1>1. Removed(c) = FirstQueued(e)
  BY DEF Removed, FirstQueued, Queued
<1>2. Lrem(Removed(c))
  BY DEF Run
<1>3. /\ Cardinality(Queued(e))' \in Nat
      /\ IsFiniteSet(Queued(e) \ Removed(c)) /\ Cardinality(Queued(e) \ Removed(c)) \in Nat
      /\ Cardinality(Queued(e))' <= Cardinality(Queued(e) \ Removed(c))
  BY <1>0, <1>2, LremCounts
<1>4. CASE Queued(e) = {}
  <2>1. Cardinality(Queued(e) \ Removed(c)) = 0
    BY <1>3, <1>4, FS_EmptySet
  <2>. QED  BY <1>3, <2>1
<1>5. CASE Queued(e) # {}
  <2>1. PICK j \in Queued(e) : j \in Removed(c)
    BY <1>0, <1>1, <1>5, SomeFirst
  <2>2. /\ IsFiniteSet(Queued(e) \ {j}) /\ Cardinality(Queued(e) \ {j}) = Cardinality(Queued(e)) - 1
        /\ Cardinality(Queued(e)) \in Nat
    BY <1>0, QueuedFinite, FS_RemoveElement
  <2>3. Queued(e) \ Removed(c) \in SUBSET (Queued(e) \ {j})
    BY <2>1
  <2>4. Cardinality(Queued(e) \ Removed(c)) <= Cardinality(Queued(e)) - 1
    BY <2>2, <2>3, FS_Subset
  <2>. QED  BY <1>3, <2>2, <2>4
<1>. QED  BY <1>4, <1>5

LEMMA StepCounts ==
    ASSUME TypeInv, [Next]_vars, NEW e \in Entry
    PROVE  /\ pushed[e] \in Nat /\ pushed'[e] \in Nat /\ pushed[e] <= pushed'[e]
           /\ Cardinality(Queued(e)) \in Nat /\ Cardinality(Queued(e))' \in Nat
           /\ Cardinality(Queued(e))' + pushed[e] <= Cardinality(Queued(e)) + pushed'[e]
<1>1. ASSUME NEW i \in Instances, NEW operation, Reply(i, operation)
      PROVE  \E c \in Command : Run(c)
  BY <1>1, Served
<1>2. ASSUME NEW i \in Instances, RunUnanswered(i)
      PROVE  \E c \in Command : Run(c)
  <2>1. pipe[i][ran[i] + 1] \in Command
    BY <1>2, PipeDomain DEF RunUnanswered, TypeInv, TypeOK
  <2>. QED  BY <1>2, <2>1 DEF RunUnanswered
<1>3. ASSUME NEW i \in Instances, Serve(i)
      PROVE  \E operation : Reply(i, operation)
  BY <1>3 DEF Serve, ServeClient, ReadQueue, DropDuplicate, TakeFirst, TakeSecond, StoreKey,
     JoinFirst, JoinSecond
<1>4. \/ queue' = queue /\ pushed' = pushed
      \/ \E i \in Instances : Serve(i) \/ RunUnanswered(i)
  BY DEF Next, Connect, Join, Leave, Close, Tick, Settle, Reconnect, GiveUp, Crash, FallSilent,
     vars, storeVars
<1>5. CASE queue' = queue /\ pushed' = pushed
  <2>1. Queued(e)' = Queued(e)
    BY <1>5 DEF Queued
  <2>2. pushed[e] \in Nat /\ Cardinality(Queued(e)) \in Nat
    BY QueuedFinite DEF TypeInv, TypeOK
  <2>3. Cardinality(Queued(e))' = Cardinality(Queued(e))
    BY <2>1
  <2>. QED  BY <1>5, <2>2, <2>3
<1>6. ASSUME NEW c \in Command, Run(c)
      PROVE  /\ pushed[e] \in Nat /\ pushed'[e] \in Nat /\ pushed[e] <= pushed'[e]
             /\ Cardinality(Queued(e)) \in Nat /\ Cardinality(Queued(e))' \in Nat
             /\ Cardinality(Queued(e))' + pushed[e] <= Cardinality(Queued(e)) + pushed'[e]
  BY <1>6, RunCounts DEF TypeInv
<1>. QED  BY <1>1, <1>2, <1>3, <1>4, <1>5, <1>6

\* A tick matches what it holds; nothing else changes who is matched.
LEMMA TakenKept ==
    ASSUME TypeInv, [Next]_vars, \A i \in Instances : ~TakeSecond(i), NEW e
    PROVE  Taken(e)' = Taken(e)
<1>1. ASSUME NEW i \in Instances, GiveUp(i) \/ Crash(i) PROVE DOMAIN matches' = DOMAIN matches
  BY <1>1, PipeDropped DEF GiveUp, Crash, TypeInv
<1>2. ASSUME NEW i \in Instances, NEW result \in Outcomes, Conclude(i, result)
      PROVE  DOMAIN matches' = DOMAIN matches
  BY <1>2, ConcludeEffect DEF TypeInv
<1>3. \/ matches' = matches
      \/ \E i \in Instances : GiveUp(i) \/ Crash(i)
      \/ \E i \in Instances : \E result \in Outcomes : Conclude(i, result)
  BY DEF Next, Connect, Join, Leave, Close, Tick, Serve, ServeClient, ReadQueue, DropDuplicate,
     TakeFirst, StoreKey, JoinFirst, JoinSecond, Settle, Reconnect, FallSilent, RunUnanswered,
     vars, Outcomes
<1>4. DOMAIN matches' = DOMAIN matches
  BY <1>1, <1>2, <1>3
<1>. QED  BY <1>4, MatchesKept DEF Taken

LEMMA TakenGrows ==
    ASSUME TypeInv, NEW i \in Instances, TakeSecond(i), NEW e \in Entry
    PROVE  /\ Cardinality(Taken(e)) \in Nat /\ Cardinality(Taken(e))' \in Nat
           /\ Cardinality(Taken(e))' <= Cardinality(Taken(e)) + 1
           /\ e \notin {Head(pipe[i]).entry, Head(pipe[i]).other} =>
                 Cardinality(Taken(e))' = Cardinality(Taken(e))
<1>. DEFINE h == Head(pipe[i])
            m == [first |-> h.entry, second |-> h.other, outcome |-> "pending"]
            n == Len(matches)
            after == {k \in DOMAIN matches' : e \in {matches'[k].first, matches'[k].second}}
<1>0. Taken(e)' = after
  BY DEF Taken
<1>1. /\ matches \in Seq(Match) /\ n \in Nat /\ DOMAIN matches = 1..n
      /\ matches' = Append(matches, m)
  BY SeqDomain DEF TypeInv, TypeOK, TakeSecond
<1>2. m \in Match /\ m.first = h.entry /\ m.second = h.other
  <2>1. h \in Command
    BY Served DEF TakeSecond
  <2>. QED  BY <2>1 DEF Match, Command, Outcomes
<1>. HIDE DEF m, h
<1>3. /\ matches' \in Seq(Match) /\ Len(matches') = n + 1
      /\ matches'[n + 1] = m /\ \A k \in 1..n : matches'[k] = matches[k]
  BY <1>1, <1>2, AppendProperties
<1>4. DOMAIN matches' = 1..n + 1
  BY <1>3, LenProperties
<1>5. IsFiniteSet(Taken(e)) /\ Cardinality(Taken(e)) \in Nat
  BY <1>1, TakenFinite
<1>6. after = Taken(e) \cup (IF e \in {h.entry, h.other} THEN {n + 1} ELSE {})
  BY <1>1, <1>2, <1>3, <1>4 DEF Taken
<1>7. /\ IsFiniteSet(Taken(e) \cup {n + 1})
      /\ Cardinality(Taken(e) \cup {n + 1}) <= Cardinality(Taken(e)) + 1
      /\ Cardinality(Taken(e) \cup {n + 1}) \in Nat
  <2>1. /\ IsFiniteSet(Taken(e) \cup {n + 1})
        /\ Cardinality(Taken(e) \cup {n + 1}) = IF n + 1 \in Taken(e)
                                               THEN Cardinality(Taken(e))
                                               ELSE Cardinality(Taken(e)) + 1
    BY <1>5, FS_AddElement
  <2>. QED  BY <1>5, <2>1
<1>. HIDE DEF after
<1>8. CASE e \in {h.entry, h.other}
  BY <1>0, <1>5, <1>6, <1>7, <1>8 DEF h
<1>9. CASE e \notin {h.entry, h.other}
  <2>1. Taken(e)' = Taken(e)
    BY <1>0, <1>6, <1>9
  <2>. QED  BY <1>5, <2>1
<1>. QED  BY <1>8, <1>9

-----------------------------------------------------------------------------
(* How many commands of a kind are awaited                                 *)

\* The places, in all the pipes p, of the commands in kind: pairs of an instance and
\* a command.
PlacesOf(p, kind) ==
    {x \in Instances \X Nat : x[2] \in DOMAIN p[x[1]] /\ <<x[1], p[x[1]][x[2]]>> \in kind}

One(test) == IF test THEN 1 ELSE 0

LEMMA PlacesFinite ==
    ASSUME NEW p, \A i \in Instances : \E n \in Nat : DOMAIN p[i] = 1..n, NEW kind
    PROVE  IsFiniteSet(PlacesOf(p, kind)) /\ Cardinality(PlacesOf(p, kind)) \in Nat
<1>. DEFINE at == [i \in Instances |-> {i} \X DOMAIN p[i]]
            all == {at[i] : i \in Instances}
<1>1. ASSUME NEW i \in Instances PROVE IsFiniteSet(at[i])
  <2>1. PICK n \in Nat : DOMAIN p[i] = 1..n
    OBVIOUS
  <2>2. IsFiniteSet(1..n)
    <3>1. 1 \in Int /\ n \in Int
      OBVIOUS
    <3>. QED  BY <3>1, FS_Interval
  <2>3. IsFiniteSet({i} \X (1..n))
    BY <2>2, FS_Singleton, FS_Product
  <2>. QED  BY <2>1, <2>3
<1>2. at \in Surjection(Instances, all)
  <2>1. at \in [Instances -> all]
    OBVIOUS
  <2>2. \A t \in all : \E i \in Instances : at[i] = t
    OBVIOUS
  <2>. HIDE DEF at, all
  <2>. QED  BY <2>1, <2>2 DEF Surjection
<1>3. IsFiniteSet(all)
  <2>. HIDE DEF at, all
  <2>. QED  BY <1>2, FS_Surjection, HomeAssumption
<1>4. \A t \in all : IsFiniteSet(t)
  <2>. HIDE DEF at
  <2>. QED  BY <1>1
<1>5. IsFiniteSet(UNION all)
  <2>. HIDE DEF all
  <2>. QED  BY <1>3, <1>4, FS_UNION
<1>6. PlacesOf(p, kind) \in SUBSET UNION all
  <2>. SUFFICES ASSUME NEW i \in Instances, NEW k \in DOMAIN p[i]
                PROVE  <<i, k>> \in UNION all
    BY DEF PlacesOf
  <2>1. <<i, k>> \in at[i] /\ at[i] \in all
    OBVIOUS
  <2>. QED  BY <2>1
<1>. HIDE DEF all
<1>. QED  BY <1>5, <1>6, FS_Subset, FS_CardinalityType

\* When the first of n commands leaves, and another may take the last place.
LEMMA PlacesShifted ==
    ASSUME NEW p, NEW r, NEW i \in Instances, NEW n \in Nat \ {0},
           DOMAIN p[i] = 1..n, DOMAIN r[i] \subseteq 1..n,
           \A k \in DOMAIN r[i] : k # n => r[i][k] = p[i][k + 1],
           \A j \in Instances \ {i} : r[j] = p[j],
           NEW kind, IsFiniteSet(PlacesOf(p, kind))
    PROVE  /\ Cardinality(PlacesOf(p, kind)) \in Nat /\ Cardinality(PlacesOf(r, kind)) \in Nat
           /\ Cardinality(PlacesOf(r, kind)) + One(<<i, p[i][1]>> \in kind)
                 <= Cardinality(PlacesOf(p, kind))
                       + One(n \in DOMAIN r[i] /\ <<i, r[i][n]>> \in kind)
<1>. DEFINE before == PlacesOf(p, kind)
            after == PlacesOf(r, kind)
            rest == after \ {<<i, n>>}
            came == [x \in rest |-> IF x[1] = i THEN <<i, x[2] + 1>> ELSE x]
<1>1. ASSUME NEW x \in rest, x[1] = i PROVE <<i, x[2] + 1>> \in before \ {<<i, 1>>}
  <2>1. x \in Instances \X Nat /\ x[2] \in DOMAIN r[i] /\ <<i, r[i][x[2]]>> \in kind
    BY <1>1 DEF PlacesOf
  <2>2. x[2] # n /\ x[2] \in 1..n
    BY <1>1, <2>1
  <2>3. x[2] + 1 \in 1..n /\ x[2] + 1 # 1 /\ x[2] + 1 \in Nat /\ r[i][x[2]] = p[i][x[2] + 1]
    BY <2>1, <2>2
  <2>. QED  BY <2>1, <2>3 DEF PlacesOf
<1>2. ASSUME NEW x \in rest, x[1] # i PROVE x \in before \ {<<i, 1>>}
  <2>1. x \in Instances \X Nat /\ x[1] \in Instances \ {i} /\ x # <<i, 1>>
    BY <1>2 DEF PlacesOf
  <2>. QED  BY <2>1 DEF PlacesOf
<1>3. came \in Injection(rest, before \ {<<i, 1>>})
  <2>1. came \in [rest -> before \ {<<i, 1>>}]
    <3>. HIDE DEF rest, before
    <3>. QED  BY <1>1, <1>2
  <2>2. ASSUME NEW x \in rest, NEW y \in rest, came[x] = came[y] PROVE x = y
    <3>1. x \in Instances \X Nat /\ y \in Instances \X Nat
      BY DEF PlacesOf
    <3>2. x = <<x[1], x[2]>> /\ y = <<y[1], y[2]>> /\ x[2] \in Nat /\ y[2] \in Nat
      BY <3>1
    <3>3. came[x] = (IF x[1] = i THEN <<i, x[2] + 1>> ELSE x)
          /\ came[y] = (IF y[1] = i THEN <<i, y[2] + 1>> ELSE y)
      BY DEF came
    <3>. HIDE DEF came, rest
    <3>4. came[x][1] = x[1] /\ came[y][1] = y[1]
      BY <3>3
    <3>5. (x[1] = i) <=> (y[1] = i)
      BY <2>2, <3>4
    <3>6. CASE x[1] = i
      <4>1. came[x][2] = x[2] + 1 /\ came[y][2] = y[2] + 1
        BY <3>3, <3>5, <3>6
      <4>2. x[2] = y[2]
        BY <2>2, <3>2, <4>1
      <4>. QED  BY <3>2, <3>5, <3>6, <4>2
    <3>7. CASE x[1] # i
      BY <2>2, <3>3, <3>5, <3>7
    <3>. QED  BY <3>6, <3>7
  <2>. HIDE DEF came, rest, before
  <2>. QED  BY <2>1, <2>2 DEF Injection, IsInjective
<1>4. /\ IsFiniteSet(before \ {<<i, 1>>}) /\ Cardinality(before) \in Nat
      /\ Cardinality(before \ {<<i, 1>>}) =
            IF <<i, 1>> \in before THEN Cardinality(before) - 1 ELSE Cardinality(before)
  BY FS_RemoveElement, FS_CardinalityType
<1>5. IsFiniteSet(rest) /\ Cardinality(rest) <= Cardinality(before \ {<<i, 1>>})
  <2>. HIDE DEF came, rest, before
  <2>. QED  BY <1>3, <1>4, FS_Injection
<1>6. IsFiniteSet(after)
  <2>1. IsFiniteSet(rest \cup {<<i, n>>})
    <3>. HIDE DEF rest
    <3>. QED  BY <1>5, FS_AddElement
  <2>2. after \in SUBSET (rest \cup {<<i, n>>})
    OBVIOUS
  <2>. HIDE DEF after, rest
  <2>. QED  BY <2>1, <2>2, FS_Subset
<1>7. /\ Cardinality(after) \in Nat
      /\ Cardinality(rest) = IF <<i, n>> \in after THEN Cardinality(after) - 1
                                                   ELSE Cardinality(after)
  <2>. HIDE DEF after
  <2>. QED  BY <1>6, FS_RemoveElement, FS_CardinalityType
<1>8. /\ <<i, 1>> \in before <=> <<i, p[i][1]>> \in kind
      /\ <<i, n>> \in after <=> (n \in DOMAIN r[i] /\ <<i, r[i][n]>> \in kind)
  BY DEF PlacesOf
<1>. HIDE DEF before, after, rest
<1>9. Cardinality(after) + One(<<i, 1>> \in before)
         <= Cardinality(before) + One(<<i, n>> \in after)
  BY <1>4, <1>5, <1>7 DEF One
<1>. QED  BY <1>4, <1>7, <1>8, <1>9 DEF before, after

\* The pipes are such that places can be counted.
LEMMA PipesFinite ==
    ASSUME TypeInv, NEW kind
    PROVE  IsFiniteSet(PlacesOf(pipe, kind)) /\ Cardinality(PlacesOf(pipe, kind)) \in Nat
<1>1. \A i \in Instances : \E n \in Nat : DOMAIN pipe[i] = 1..n
  BY PipeDomain DEF TypeInv
<1>. QED  BY <1>1, PlacesFinite

\* One more, one less, one become another, none left.
LEMMA PlacesIssued ==
    ASSUME TypeInv, NEW i \in Instances, NEW c \in Command, Issue(i, c), NEW kind
    PROVE  /\ Cardinality(PlacesOf(pipe, kind)) \in Nat /\ Cardinality(PlacesOf(pipe', kind)) \in Nat
           /\ Cardinality(PlacesOf(pipe', kind))
                 <= Cardinality(PlacesOf(pipe, kind)) + One(<<i, c>> \in kind)
           /\ PlacesOf(pipe', kind) \subseteq
                 PlacesOf(pipe, kind) \cup
                    (IF <<i, c>> \in kind THEN {<<i, Len(pipe[i]) + 1>>} ELSE {})
<1>. DEFINE n == Len(pipe[i])
            before == PlacesOf(pipe, kind)
            after == PlacesOf(pipe', kind)
<1>1. /\ Others(i) /\ n \in Nat /\ DOMAIN pipe[i] = 1..n /\ DOMAIN pipe'[i] = 1..n + 1
      /\ pipe'[i][n + 1] = c /\ \A k \in 1..n : pipe'[i][k] = pipe[i][k]
  <2>1. pipe' \in [Instances -> Seq(Command)] /\ Others(i) /\ Grew(pipe[i], pipe'[i], c)
    BY PipeGrows DEF TypeInv
  <2>2. DOMAIN pipe'[i] = 1..Len(pipe'[i])
    BY <2>1, SeqDomain
  <2>. QED  BY <2>1, <2>2, PipeDomain DEF TypeInv, Grew
<1>2. ASSUME NEW x \in after
      PROVE  x \in before \/ (<<i, c>> \in kind /\ x = <<i, n + 1>>)
  <2>1. /\ x \in Instances \X Nat /\ x = <<x[1], x[2]>>
        /\ x[2] \in DOMAIN pipe'[x[1]] /\ <<x[1], pipe'[x[1]][x[2]]>> \in kind
    BY DEF PlacesOf
  <2>2. CASE x[1] # i
    <3>1. pipe'[x[1]] = pipe[x[1]]
      BY <1>1, <2>1, <2>2 DEF Others
    <3>. QED  BY <2>1, <3>1 DEF PlacesOf
  <2>3. CASE x[1] = i
    <3>1. x[2] = n + 1 \/ x[2] \in 1..n
      BY <1>1, <2>1, <2>3
    <3>2. CASE x[2] = n + 1
      BY <1>1, <2>1, <2>3, <3>2
    <3>3. CASE x[2] \in 1..n
      BY <1>1, <2>1, <2>3, <3>3 DEF PlacesOf
    <3>. QED  BY <3>1, <3>2, <3>3
  <2>. QED  BY <2>2, <2>3
<1>3. IsFiniteSet(before) /\ Cardinality(before) \in Nat
  BY PipesFinite
<1>4. after \in SUBSET (before \cup (IF <<i, c>> \in kind THEN {<<i, n + 1>>} ELSE {}))
  <2>. HIDE DEF before, after, n
  <2>. QED  BY <1>2
<1>5. /\ IsFiniteSet(before \cup {<<i, n + 1>>})
      /\ Cardinality(before \cup {<<i, n + 1>>}) \in Nat
      /\ Cardinality(before \cup {<<i, n + 1>>}) <= Cardinality(before) + 1
  <2>. DEFINE x == <<i, n + 1>>
  <2>. HIDE DEF before, x
  <2>1. /\ IsFiniteSet(before \cup {x})
        /\ Cardinality(before \cup {x}) = IF x \in before THEN Cardinality(before)
                                                          ELSE Cardinality(before) + 1
    BY <1>3, FS_AddElement
  <2>. QED  BY <1>3, <2>1, FS_CardinalityType DEF x
<1>6. Cardinality(after) \in Nat /\ Cardinality(after) <= Cardinality(before) + One(<<i, c>> \in kind)
  <2>1. CASE <<i, c>> \in kind
    <3>1. after \in SUBSET (before \cup {<<i, n + 1>>})
      BY <1>4, <2>1
    <3>. HIDE DEF before, after
    <3>2. /\ Cardinality(after) <= Cardinality(before \cup {<<i, n + 1>>})
          /\ Cardinality(after) \in Nat
      BY <1>5, <3>1, FS_Subset, FS_CardinalityType
    <3>. QED  BY <1>3, <1>5, <2>1, <3>2 DEF One
  <2>2. CASE <<i, c>> \notin kind
    <3>1. after \in SUBSET before
      BY <1>4, <2>2
    <3>. HIDE DEF before, after
    <3>2. Cardinality(after) <= Cardinality(before) /\ Cardinality(after) \in Nat
      BY <1>3, <3>1, FS_Subset, FS_CardinalityType
    <3>. QED  BY <1>3, <2>2, <3>2 DEF One
  <2>. QED  BY <2>1, <2>2
<1>. QED  BY <1>3, <1>4, <1>6

LEMMA PlacesFinished ==
    ASSUME TypeInv, NEW i \in Instances, pipe[i] # <<>>, Finish(i), NEW kind
    PROVE  /\ Cardinality(PlacesOf(pipe, kind)) \in Nat /\ Cardinality(PlacesOf(pipe', kind)) \in Nat
           /\ Cardinality(PlacesOf(pipe', kind)) + One(<<i, Head(pipe[i])>> \in kind)
                 <= Cardinality(PlacesOf(pipe, kind))
<1>. DEFINE n == Len(pipe[i])
<1>1. /\ n \in Nat \ {0} /\ DOMAIN pipe[i] = 1..n /\ Head(pipe[i]) = pipe[i][1]
  BY PipeFront, PipeDomain DEF TypeInv
<1>2. pipe' \in [Instances -> Seq(Command)] /\ Others(i) /\ Shrank(pipe[i], pipe'[i])
  BY PipeFinishes DEF TypeInv
<1>3. DOMAIN pipe'[i] = 1..n - 1
  <2>1. DOMAIN pipe'[i] = 1..Len(pipe'[i])
    BY <1>2, SeqDomain
  <2>. QED  BY <1>2, <2>1 DEF Shrank
<1>4. /\ DOMAIN pipe'[i] \subseteq 1..n /\ n \notin DOMAIN pipe'[i]
      /\ \A k \in DOMAIN pipe'[i] : k # n => pipe'[i][k] = pipe[i][k + 1]
  <2>1. \A k \in 1..n - 1 : pipe'[i][k] = pipe[i][k + 1]
    BY <1>2 DEF Shrank
  <2>2. n \in Nat \ {0}
    BY <1>1
  <2>. HIDE DEF n
  <2>3. 1..n - 1 \subseteq 1..n /\ n \notin 1..n - 1
    BY <2>2
  <2>. QED  BY <1>3, <2>1, <2>3
<1>5. \A j \in Instances \ {i} : pipe'[j] = pipe[j]
  BY <1>2 DEF Others
<1>6. IsFiniteSet(PlacesOf(pipe, kind))
  BY PipesFinite
<1>. HIDE DEF n
<1>7. /\ Cardinality(PlacesOf(pipe, kind)) \in Nat /\ Cardinality(PlacesOf(pipe', kind)) \in Nat
      /\ Cardinality(PlacesOf(pipe', kind)) + One(<<i, pipe[i][1]>> \in kind)
            <= Cardinality(PlacesOf(pipe, kind))
                  + One(n \in DOMAIN pipe'[i] /\ <<i, pipe'[i][n]>> \in kind)
  BY <1>1, <1>4, <1>5, <1>6, PlacesShifted
<1>8. One(n \in DOMAIN pipe'[i] /\ <<i, pipe'[i][n]>> \in kind) = 0
  BY <1>4 DEF One
<1>. QED  BY <1>1, <1>7, <1>8

LEMMA PlacesWentOn ==
    ASSUME TypeInv, NEW i \in Instances, pipe[i] # <<>>, NEW c \in Command, GoOn(i, c), NEW kind
    PROVE  /\ Cardinality(PlacesOf(pipe, kind)) \in Nat /\ Cardinality(PlacesOf(pipe', kind)) \in Nat
           /\ Cardinality(PlacesOf(pipe', kind)) + One(<<i, Head(pipe[i])>> \in kind)
                 <= Cardinality(PlacesOf(pipe, kind)) + One(<<i, c>> \in kind)
<1>. DEFINE n == Len(pipe[i])
<1>1. /\ n \in Nat \ {0} /\ DOMAIN pipe[i] = 1..n /\ Head(pipe[i]) = pipe[i][1]
  BY PipeFront, PipeDomain DEF TypeInv
<1>2. pipe' \in [Instances -> Seq(Command)] /\ Others(i) /\ WentOn(pipe[i], pipe'[i], c)
  BY PipeGoesOn DEF TypeInv
<1>3. DOMAIN pipe'[i] = 1..n
  <2>1. DOMAIN pipe'[i] = 1..Len(pipe'[i])
    BY <1>2, SeqDomain
  <2>. QED  BY <1>2, <2>1 DEF WentOn
<1>4. /\ DOMAIN pipe'[i] \subseteq 1..n /\ pipe'[i][n] = c
      /\ \A k \in DOMAIN pipe'[i] : k # n => pipe'[i][k] = pipe[i][k + 1]
  <2>1. \A k \in 1..n : k # n => k \in 1..n - 1
    BY <1>1
  <2>. QED  BY <1>1, <1>2, <1>3, <2>1 DEF WentOn
<1>5. \A j \in Instances \ {i} : pipe'[j] = pipe[j]
  BY <1>2 DEF Others
<1>6. IsFiniteSet(PlacesOf(pipe, kind)) /\ n \in DOMAIN pipe'[i]
  BY <1>1, <1>3, PipesFinite
<1>. HIDE DEF n
<1>7. /\ Cardinality(PlacesOf(pipe, kind)) \in Nat /\ Cardinality(PlacesOf(pipe', kind)) \in Nat
      /\ Cardinality(PlacesOf(pipe', kind)) + One(<<i, pipe[i][1]>> \in kind)
            <= Cardinality(PlacesOf(pipe, kind))
                  + One(n \in DOMAIN pipe'[i] /\ <<i, pipe'[i][n]>> \in kind)
  BY <1>1, <1>4, <1>5, <1>6, PlacesShifted
<1>8. One(n \in DOMAIN pipe'[i] /\ <<i, pipe'[i][n]>> \in kind) = One(<<i, c>> \in kind)
  BY <1>4, <1>6 DEF One
<1>. QED  BY <1>1, <1>7, <1>8

LEMMA PlacesDropped ==
    ASSUME TypeInv, NEW i \in Instances, DropPipe(i), NEW kind
    PROVE  /\ Cardinality(PlacesOf(pipe, kind)) \in Nat /\ Cardinality(PlacesOf(pipe', kind)) \in Nat
           /\ PlacesOf(pipe', kind) \subseteq PlacesOf(pipe, kind)
           /\ \A k : <<i, k>> \notin PlacesOf(pipe', kind)
           /\ Cardinality(PlacesOf(pipe', kind)) <= Cardinality(PlacesOf(pipe, kind))
<1>. DEFINE before == PlacesOf(pipe, kind)
            after == PlacesOf(pipe', kind)
<1>1. Others(i) /\ DOMAIN pipe'[i] = {}
  BY PipeDropped DEF TypeInv
<1>2. after \in SUBSET before /\ \A k : <<i, k>> \notin after
  BY <1>1 DEF PlacesOf, Others
<1>3. IsFiniteSet(before) /\ Cardinality(before) \in Nat
  BY PipesFinite
<1>. HIDE DEF before, after
<1>4. Cardinality(after) \in Nat /\ Cardinality(after) <= Cardinality(before)
  BY <1>2, <1>3, FS_Subset, FS_CardinalityType
<1>. QED  BY <1>2, <1>3, <1>4 DEF before, after

-----------------------------------------------------------------------------
(* How many ticks may hold an entry                                        *)

OfTicks(i) == {i} \X {c \in Command : c.op \in WorkerOps}

\* As many ticks are under way as the cron job may have started.
TickBound == \A i \in Instances : Cardinality(PlacesOf(pipe, OfTicks(i))) <= MaxTicks

LEMMA TicksCounted ==
    ASSUME TypeInv, NEW i \in Instances
    PROVE  /\ Ticks(i) \in SUBSET Nat /\ IsFiniteSet(Ticks(i))
           /\ Cardinality(Ticks(i)) \in Nat
           /\ Cardinality(Ticks(i)) = Cardinality(PlacesOf(pipe, OfTicks(i)))
<1>. DEFINE at == [k \in Ticks(i) |-> <<i, k>>]
            places == PlacesOf(pipe, OfTicks(i))
<1>1. PICK n \in Nat : DOMAIN pipe[i] = 1..n
  BY PipeDomain DEF TypeInv
<1>2. Ticks(i) \in SUBSET (1..n)
  BY <1>1 DEF Ticks
<1>3. IsFiniteSet(1..n)
  <2>1. 1 \in Int /\ n \in Int
    OBVIOUS
  <2>. QED  BY <2>1, FS_Interval
<1>4. IsFiniteSet(Ticks(i)) /\ Ticks(i) \in SUBSET Nat /\ Cardinality(Ticks(i)) \in Nat
  BY <1>2, <1>3, FS_Subset, FS_CardinalityType
<1>5. \A k \in Ticks(i) : <<i, k>> \in places
  <2>1. \A k \in DOMAIN pipe[i] : pipe[i][k] \in Command
    BY PipeDomain DEF TypeInv
  <2>. QED  BY <1>4, <2>1 DEF Ticks, PlacesOf, OfTicks
<1>6. ASSUME NEW x \in places PROVE \E k \in Ticks(i) : x = <<i, k>>
  <2>1. /\ x = <<x[1], x[2]>> /\ x[2] \in DOMAIN pipe[x[1]]
        /\ <<x[1], pipe[x[1]][x[2]]>> \in OfTicks(i)
    BY DEF PlacesOf
  <2>2. x[1] = i /\ pipe[x[1]][x[2]].op \in WorkerOps
    BY <2>1 DEF OfTicks
  <2>. QED  BY <2>1, <2>2 DEF Ticks
<1>. HIDE DEF places
<1>7. at \in [Ticks(i) -> places]
  BY <1>5
<1>8. \A j, k \in Ticks(i) : at[j] = at[k] => j = k
  <2>1. \A k \in Ticks(i) : at[k][2] = k
    OBVIOUS
  <2>. HIDE DEF at
  <2>. QED  BY <2>1
<1>9. \A x \in places : \E k \in Ticks(i) : at[k] = x
  BY <1>6
<1>. HIDE DEF at
<1>10. at \in Bijection(Ticks(i), places)
  BY <1>7, <1>8, <1>9 DEF Bijection, Injection, Surjection, IsInjective
<1>11. ExistsBijection(Ticks(i), places)
  BY <1>10 DEF ExistsBijection
<1>. QED  BY <1>4, <1>11, FS_Bijection DEF places

LEMMA NoPlacesInit ==
    ASSUME Init, NEW kind
    PROVE  PlacesOf(pipe, kind) = {} /\ Cardinality(PlacesOf(pipe, kind)) = 0
<1>1. \A i \in Instances : DOMAIN pipe[i] = {}
  BY DEF Init
<1>2. PlacesOf(pipe, kind) = {}
  BY <1>1 DEF PlacesOf
<1>. QED  BY <1>2, FS_EmptySet

LEMMA TickBoundInit == Init => TickBound
  BY NoPlacesInit, BoundsAssumption DEF TickBound

LEMMA TickBoundNext == TypeInv /\ TypeInv' /\ TickBound /\ [Next]_vars => TickBound'
<1>. SUFFICES ASSUME TypeInv, TypeInv', TickBound, [Next]_vars, NEW j \in Instances
              PROVE  Cardinality(PlacesOf(pipe', OfTicks(j))) <= MaxTicks
  BY DEF TickBound, OfTicks
<1>. DEFINE Goal == Cardinality(PlacesOf(pipe', OfTicks(j))) <= MaxTicks
<1>0. /\ Cardinality(PlacesOf(pipe, OfTicks(j))) <= MaxTicks /\ MaxTicks \in Nat
      /\ Cardinality(PlacesOf(pipe, OfTicks(j))) \in Nat
  BY PipesFinite, BoundsAssumption DEF TickBound
<1>1. ASSUME NEW s \in Sockets, Join(s) \/ Leave(s) \/ Close(s) PROVE Goal
  <2>1. PICK u \in PayloadUser[s] \cup {UserOf[s]}, operation \in ClientOps :
           Issue(Home[s], ClientCommand(operation, EntryOf(s, u)))
    BY <1>1 DEF Join, Leave, Close, ClientOps
  <2>. DEFINE c == ClientCommand(operation, EntryOf(s, u))
  <2>2. c \in Command /\ c.op = operation
    BY PayloadTyped, ClientCommandTyped DEF ClientCommand
  <2>. HIDE DEF c
  <2>3. Issue(Home[s], c) /\ Home[s] \in Instances
    BY <2>1, HomeAssumption DEF c
  <2>4. <<Home[s], c>> \notin OfTicks(j)
    BY <2>2 DEF OfTicks, WorkerOps, ClientOps
  <2>. QED  BY <1>0, <2>2, <2>3, <2>4, PlacesIssued DEF One
<1>2. ASSUME NEW i \in Instances, Tick(i) PROVE Goal
  <2>. DEFINE c == [op |-> "lrange", entry |-> AnyEntry, other |-> AnyEntry,
                    match |-> 0, left |-> 0]
  <2>1. Issue(i, c) /\ c \in Command /\ Cardinality(Ticks(i)) < MaxTicks
    BY <1>2, TickTyped DEF Tick
  <2>. HIDE DEF c
  <2>2. Cardinality(PlacesOf(pipe', OfTicks(j)))
           <= Cardinality(PlacesOf(pipe, OfTicks(j))) + One(<<i, c>> \in OfTicks(j))
        /\ Cardinality(PlacesOf(pipe', OfTicks(j))) \in Nat
    BY <2>1, PlacesIssued
  <2>3. CASE i = j
    <3>1. Cardinality(PlacesOf(pipe, OfTicks(j))) < MaxTicks
      BY <2>1, <2>3, TicksCounted
    <3>. QED  BY <1>0, <2>2, <3>1 DEF One
  <2>4. CASE i # j
    <3>1. <<i, c>> \notin OfTicks(j)
      BY <2>4 DEF OfTicks
    <3>. QED  BY <1>0, <2>2, <3>1 DEF One
  <2>. QED  BY <2>3, <2>4
<1>3. ASSUME NEW i \in Instances, Serve(i) PROVE Goal
  <2>1. /\ pipe[i] # <<>>
        /\ \/ Finish(i)
           \/ /\ Head(pipe[i]).op \in WorkerOps
              /\ \E c \in Command : c.op \in WorkerOps /\ GoOn(i, c)
    BY <1>3, ServeShape
  <2>2. CASE Finish(i)
    <3>1. /\ Cardinality(PlacesOf(pipe', OfTicks(j))) \in Nat
          /\ Cardinality(PlacesOf(pipe', OfTicks(j))) + One(<<i, Head(pipe[i])>> \in OfTicks(j))
                <= Cardinality(PlacesOf(pipe, OfTicks(j)))
      BY <2>1, <2>2, PlacesFinished
    <3>. QED  BY <1>0, <3>1 DEF One
  <2>3. ASSUME Head(pipe[i]).op \in WorkerOps, NEW c \in Command, c.op \in WorkerOps, GoOn(i, c)
        PROVE  Goal
    <3>1. <<i, Head(pipe[i])>> \in OfTicks(j) <=> <<i, c>> \in OfTicks(j)
      BY <2>1, <2>3, PipeFront DEF OfTicks, TypeInv
    <3>. QED  BY <1>0, <2>1, <2>3, <3>1, PlacesWentOn DEF One
  <2>. QED  BY <2>1, <2>2, <2>3
<1>4. ASSUME NEW i \in Instances, GiveUp(i) \/ Crash(i) PROVE Goal
  <2>1. DropPipe(i)
    BY <1>4 DEF GiveUp, Crash
  <2>. QED  BY <1>0, <2>1, PlacesDropped
<1>5. CASE UNCHANGED pipe
  BY <1>0, <1>5
<1>. QED
  BY <1>1, <1>2, <1>3, <1>4, <1>5
  DEF Next, Connect, Settle, Reconnect, FallSilent, RunUnanswered, vars

LEMMA HoldersTyped == Holders \in Nat /\ MaxTicks \in Nat /\ Cardinality(Instances) \in Nat
  BY BoundsAssumption, HomeAssumption, FS_CardinalityType DEF Holders

\* No more commands are a tick's than there can be ticks.
LEMMA HeldBound ==
    ASSUME TypeInv, TickBound,
           NEW kind, \A x \in kind : x[2].op \in WorkerOps
    PROVE  Cardinality(PlacesOf(pipe, kind)) <= Holders
<1>. DEFINE places == PlacesOf(pipe, kind)
            rank == [i \in Instances |->
                       [k \in Ticks(i) |-> Cardinality({h \in Ticks(i) : h <= k})]]
            number == [x \in places |-> <<x[1], rank[x[1]][x[2]]>>]
<1>1. \A i \in Instances : rank[i] \in Injection(Ticks(i), 1..MaxTicks)
  <2>. SUFFICES ASSUME NEW i \in Instances PROVE rank[i] \in Injection(Ticks(i), 1..MaxTicks)
    OBVIOUS
  <2>1. /\ Ticks(i) \in SUBSET Nat /\ IsFiniteSet(Ticks(i)) /\ Cardinality(Ticks(i)) \in Nat
        /\ Cardinality(Ticks(i)) <= MaxTicks /\ MaxTicks \in Nat
    BY TicksCounted, HoldersTyped DEF TickBound
  <2>2. rank[i] \in Injection(Ticks(i), 1..Cardinality(Ticks(i)))
    BY <2>1, Numbering
  <2>3. 1..Cardinality(Ticks(i)) \subseteq 1..MaxTicks
    BY <2>1
  <2>. HIDE DEF rank
  <2>. QED  BY <2>2, <2>3 DEF Injection, IsInjective
<1>. HIDE DEF rank
<1>2. ASSUME NEW x \in places
      PROVE  /\ x = <<x[1], x[2]>> /\ x[1] \in Instances /\ x[2] \in Ticks(x[1])
             /\ rank[x[1]][x[2]] \in 1..MaxTicks
  <2>1. /\ x = <<x[1], x[2]>> /\ x[1] \in Instances /\ x[2] \in DOMAIN pipe[x[1]]
        /\ <<x[1], pipe[x[1]][x[2]]>> \in kind
    BY DEF PlacesOf
  <2>2. pipe[x[1]][x[2]].op \in WorkerOps
    BY <2>1
  <2>3. x[2] \in Ticks(x[1])
    BY <2>1, <2>2 DEF Ticks
  <2>. QED  BY <1>1, <2>1, <2>3 DEF Injection
<1>3. number \in [places -> Instances \X (1..MaxTicks)]
  BY <1>2
<1>4. ASSUME NEW x \in places, NEW y \in places, number[x] = number[y] PROVE x = y
  <2>1. /\ number[x][1] = x[1] /\ number[y][1] = y[1]
        /\ number[x][2] = rank[x[1]][x[2]] /\ number[y][2] = rank[y[1]][y[2]]
    OBVIOUS
  <2>. HIDE DEF number
  <2>2. x[1] = y[1] /\ rank[x[1]][x[2]] = rank[x[1]][y[2]]
    BY <1>4, <2>1
  <2>3. x[2] = y[2]
    BY <1>1, <1>2, <2>2 DEF Injection, IsInjective
  <2>. QED  BY <1>2, <2>2, <2>3
<1>5. number \in Injection(places, Instances \X (1..MaxTicks))
  <2>. HIDE DEF number, places
  <2>. QED  BY <1>3, <1>4 DEF Injection, IsInjective
<1>6. IsFiniteSet(1..MaxTicks) /\ Cardinality(1..MaxTicks) = MaxTicks
  BY BoundsAssumption, FS_Interval
<1>7. /\ IsFiniteSet(Instances \X (1..MaxTicks))
      /\ Cardinality(Instances \X (1..MaxTicks)) = Cardinality(Instances) * MaxTicks
  BY <1>6, HomeAssumption, FS_Product
<1>8. Cardinality(places) <= Cardinality(Instances) * MaxTicks
  <2>. HIDE DEF number, places
  <2>. QED  BY <1>5, <1>7, FS_Injection
<1>9. Cardinality(Instances) * MaxTicks = Holders
  BY HoldersTyped DEF Holders
<1>. QED  BY <1>8, <1>9

-----------------------------------------------------------------------------
(* What becomes of a push                                                  *)

\* The commands of ticks that hold entry e and have yet to match it, and those of
\* them that have removed it as their first entry.
Holding(e) == {x \in Instances \X Command : /\ x[2].op \in {"takeFirst", "takeSecond"}
                                            /\ e \in {x[2].entry, x[2].other}}
Halfway(e) == {x \in Instances \X Command : x[2].op = "takeSecond" /\ x[2].entry = e}

\* Every push that is no longer in the list is good for a match per holder: the
\* holders all read it while it was there, and took it or find nothing to take.
PushInv ==
    \A e \in Entry :
        /\ Cardinality(Taken(e)) + Cardinality(PlacesOf(pipe, Halfway(e)))
              + Holders * Cardinality(Queued(e)) <= Holders * pushed[e]
        /\ Cardinality(Queued(e)) = 0 =>
              Cardinality(Taken(e)) + Cardinality(PlacesOf(pipe, Holding(e)))
                 <= Holders * pushed[e]

HeldOK ==
    \A e \in Entry :
        /\ Cardinality(PlacesOf(pipe, Holding(e))) \in 0..Holders
        /\ Cardinality(PlacesOf(pipe, Halfway(e))) \in 0..Holders
        /\ Cardinality(PlacesOf(pipe, Halfway(e))) <= Cardinality(PlacesOf(pipe, Holding(e)))
        /\ Cardinality(Taken(e)) \in Nat /\ Cardinality(Queued(e)) \in Nat /\ pushed[e] \in Nat

LEMMA HeldCounts == TypeInv /\ TickBound => HeldOK
<1>. SUFFICES ASSUME TypeInv, TickBound, NEW e \in Entry
              PROVE  /\ Cardinality(PlacesOf(pipe, Holding(e))) \in 0..Holders
                     /\ Cardinality(PlacesOf(pipe, Halfway(e))) \in 0..Holders
                     /\ Cardinality(PlacesOf(pipe, Halfway(e)))
                           <= Cardinality(PlacesOf(pipe, Holding(e)))
                     /\ Cardinality(Taken(e)) \in Nat /\ Cardinality(Queued(e)) \in Nat
                     /\ pushed[e] \in Nat
  BY DEF HeldOK
<1>1. /\ \A x \in Holding(e) : x[2].op \in WorkerOps
      /\ \A x \in Halfway(e) : x[2].op \in WorkerOps
  BY DEF Holding, Halfway, WorkerOps
<1>2. /\ Cardinality(PlacesOf(pipe, Holding(e))) <= Holders
      /\ Cardinality(PlacesOf(pipe, Halfway(e))) <= Holders
  BY <1>1, HeldBound
<1>3. /\ IsFiniteSet(PlacesOf(pipe, Holding(e)))
      /\ Cardinality(PlacesOf(pipe, Holding(e))) \in Nat
      /\ Cardinality(PlacesOf(pipe, Halfway(e))) \in Nat
  BY PipesFinite
<1>4. PlacesOf(pipe, Halfway(e)) \in SUBSET PlacesOf(pipe, Holding(e))
  BY DEF PlacesOf, Holding, Halfway
<1>5. Cardinality(PlacesOf(pipe, Halfway(e))) <= Cardinality(PlacesOf(pipe, Holding(e)))
  BY <1>3, <1>4, FS_Subset
<1>6. Cardinality(Taken(e)) \in Nat /\ Cardinality(Queued(e)) \in Nat /\ pushed[e] \in Nat
  BY TakenFinite, QueuedFinite DEF TypeInv, TypeOK
<1>. QED  BY <1>2, <1>3, <1>5, <1>6, HoldersTyped

\* A step in which nothing is matched and the first command of i goes on as c.
LEMMA GoesOnHolding ==
    ASSUME TypeInv, NEW e \in Entry, Taken(e)' = Taken(e), Cardinality(Taken(e)) \in Nat,
           NEW i \in Instances, pipe[i] # <<>>, NEW c \in Command, GoOn(i, c)
    PROVE  /\ (<<i, c>> \in Holding(e) => <<i, Head(pipe[i])>> \in Holding(e))
              => Cardinality(Taken(e))' + Cardinality(PlacesOf(pipe', Holding(e)))
                    <= Cardinality(Taken(e)) + Cardinality(PlacesOf(pipe, Holding(e)))
           /\ <<i, c>> \notin Halfway(e)
              => Cardinality(Taken(e))' + Cardinality(PlacesOf(pipe', Halfway(e)))
                    <= Cardinality(Taken(e)) + Cardinality(PlacesOf(pipe, Halfway(e)))
<1>. DEFINE W == Cardinality(PlacesOf(pipe, Holding(e)))
            W1 == Cardinality(PlacesOf(pipe', Holding(e)))
            D == Cardinality(PlacesOf(pipe, Halfway(e)))
            D1 == Cardinality(PlacesOf(pipe', Halfway(e)))
<1>1. Cardinality(Taken(e))' = Cardinality(Taken(e))
  OBVIOUS
<1>2. /\ W \in Nat /\ W1 \in Nat /\ D \in Nat /\ D1 \in Nat
      /\ W1 + One(<<i, Head(pipe[i])>> \in Holding(e)) <= W + One(<<i, c>> \in Holding(e))
      /\ D1 + One(<<i, Head(pipe[i])>> \in Halfway(e)) <= D + One(<<i, c>> \in Halfway(e))
  BY PlacesWentOn
<1>. HIDE DEF W, W1, D, D1
<1>3. /\ (<<i, c>> \in Holding(e) => <<i, Head(pipe[i])>> \in Holding(e)) => W1 <= W
      /\ <<i, c>> \notin Halfway(e) => D1 <= D
  BY <1>2 DEF One
<1>. QED  BY <1>1, <1>2, <1>3 DEF W, W1, D, D1

\* What one step may do to the matches of an entry and the ticks that hold it.
LEMMA StepMatches ==
    ASSUME TypeInv, TypeInv', [Next]_vars, NEW e \in Entry
    PROVE  /\ \/ Cardinality(Taken(e))' + Cardinality(PlacesOf(pipe', Holding(e)))
                    <= Cardinality(Taken(e)) + Cardinality(PlacesOf(pipe, Holding(e)))
              \/ Cardinality(Taken(e))' = Cardinality(Taken(e)) /\ Cardinality(Queued(e)) # 0
           /\ \/ Cardinality(Taken(e))' + Cardinality(PlacesOf(pipe', Halfway(e)))
                    <= Cardinality(Taken(e)) + Cardinality(PlacesOf(pipe, Halfway(e)))
              \/ /\ pushed' = pushed
                 /\ \/ Cardinality(Queued(e))' = 0
                    \/ Cardinality(Queued(e))' + 1 <= Cardinality(Queued(e))
<1>. DEFINE M == Cardinality(Taken(e))
            M1 == Cardinality(Taken(e))'
            W == Cardinality(PlacesOf(pipe, Holding(e)))
            W1 == Cardinality(PlacesOf(pipe', Holding(e)))
            D == Cardinality(PlacesOf(pipe, Halfway(e)))
            D1 == Cardinality(PlacesOf(pipe', Halfway(e)))
            Removes == /\ pushed' = pushed
                       /\ \/ Cardinality(Queued(e))' = 0
                          \/ Cardinality(Queued(e))' + 1 <= Cardinality(Queued(e))
            Fewer == M1 + W1 <= M + W /\ M1 + D1 <= M + D
            Goal == /\ M1 + W1 <= M + W \/ (M1 = M /\ Cardinality(Queued(e)) # 0)
                    /\ M1 + D1 <= M + D \/ Removes
<1>0. M \in Nat /\ W \in Nat /\ D \in Nat
  BY TakenFinite, PipesFinite DEF TypeInv, TypeOK
<1>1. (\A i \in Instances : ~TakeSecond(i)) => Taken(e)' = Taken(e)
  BY TakenKept
<1>2. ASSUME Taken(e)' = Taken(e), W1 <= W, D1 <= D, W1 \in Nat, D1 \in Nat PROVE Goal
  <2>1. M1 = M
    BY <1>2
  <2>. HIDE DEF M, M1, W, W1, D, D1, Removes
  <2>. QED  BY <1>0, <1>2, <2>1
<1>3. ASSUME Taken(e)' = Taken(e), NEW i \in Instances, NEW c \in Command, Issue(i, c),
             c.op \notin {"takeFirst", "takeSecond"}
      PROVE  Goal
  <2>1. <<i, c>> \notin Holding(e) /\ <<i, c>> \notin Halfway(e)
    BY <1>3 DEF Holding, Halfway
  <2>2. /\ W \in Nat /\ W1 \in Nat /\ W1 <= W + One(<<i, c>> \in Holding(e))
        /\ D \in Nat /\ D1 \in Nat /\ D1 <= D + One(<<i, c>> \in Halfway(e))
    BY <1>3, PlacesIssued
  <2>. HIDE DEF M, M1, W, W1, D, D1, Goal
  <2>. QED  BY <1>2, <1>3, <2>1, <2>2 DEF One
<1>4. ASSUME Taken(e)' = Taken(e), NEW i \in Instances, pipe[i] # <<>>, Finish(i) PROVE Goal
  <2>1. /\ W \in Nat /\ W1 \in Nat /\ W1 + One(<<i, Head(pipe[i])>> \in Holding(e)) <= W
        /\ D \in Nat /\ D1 \in Nat /\ D1 + One(<<i, Head(pipe[i])>> \in Halfway(e)) <= D
    BY <1>4, PlacesFinished
  <2>. HIDE DEF M, M1, W, W1, D, D1, Goal
  <2>. QED  BY <1>2, <1>4, <2>1 DEF One
<1>5. ASSUME Taken(e)' = Taken(e), NEW i \in Instances, DropPipe(i) PROVE Goal
  <2>1. W1 \in Nat /\ W1 <= W /\ D1 \in Nat /\ D1 <= D
    BY <1>5, PlacesDropped
  <2>. HIDE DEF M, M1, W, W1, D, D1, Goal
  <2>. QED  BY <1>2, <1>5, <2>1
<1>6. ASSUME Taken(e)' = Taken(e), pipe' = pipe PROVE Goal
  <2>1. W1 = W /\ D1 = D
    BY <1>6
  <2>. HIDE DEF M, M1, W, W1, D, D1, Goal
  <2>. QED  BY <1>0, <1>2, <1>6, <2>1
<1>7. ASSUME Taken(e)' = Taken(e), NEW i \in Instances, pipe[i] # <<>>, NEW c \in Command,
             GoOn(i, c), c.op \notin {"takeFirst", "takeSecond"}
      PROVE  Goal
  <2>1. <<i, c>> \notin Holding(e) /\ <<i, c>> \notin Halfway(e)
    BY <1>7 DEF Holding, Halfway
  <2>. QED  BY <1>0, <1>7, <2>1, GoesOnHolding
<1>8. ASSUME Taken(e)' = Taken(e), NEW i \in Instances, ReadQueue(i), ~Finish(i) PROVE Goal
  <2>. DEFINE h == Head(pipe[i])
  <2>1. Reply(i, "lrange") /\ h \in Command /\ pipe[i] # <<>>
    BY <1>8, Served DEF ReadQueue
  <2>2. PICK operation \in {"dropDuplicate", "takeFirst"} :
           /\ Len(queue) >= 2
           /\ GoOn(i, [h EXCEPT !.entry = queue[1], !.other = queue[2], !.op = operation])
    BY <1>8 DEF ReadQueue
  <2>. DEFINE c == [h EXCEPT !.entry = queue[1], !.other = queue[2], !.op = operation]
  <2>3. 1 \in DOMAIN queue /\ 2 \in DOMAIN queue /\ queue[1] \in Entry /\ queue[2] \in Entry
    <3>1. queue \in Seq(Entry)
      BY DEF TypeInv, TypeOK
    <3>2. /\ DOMAIN queue = 1..Len(queue) /\ Len(queue) \in Nat
          /\ \A k \in DOMAIN queue : queue[k] \in Entry
      BY <3>1, SeqDomain
    <3>. QED  BY <2>2, <3>2
  <2>4. c \in Command /\ c.entry = queue[1] /\ c.other = queue[2] /\ c.op = operation
    BY <2>1, <2>3 DEF Command, WorkerOps
  <2>5. GoOn(i, c)
    BY <2>2
  <2>. HIDE DEF c, h
  <2>6. <<i, c>> \notin Halfway(e)
    BY <2>4 DEF Halfway
  <2>7. CASE Cardinality(Queued(e)) # 0
    <3>1. M1 + D1 <= M + D /\ M1 = M
      BY <1>0, <1>8, <2>1, <2>4, <2>5, <2>6, GoesOnHolding
    <3>. QED  BY <2>7, <3>1
  <2>8. CASE Cardinality(Queued(e)) = 0
    <3>1. Queued(e) = {}
      BY <2>8, QueuedFinite, FS_EmptySet DEF TypeInv, TypeOK
    <3>2. e # queue[1] /\ e # queue[2]
      BY <2>3, <3>1 DEF Queued
    <3>3. <<i, c>> \notin Holding(e)
      BY <2>4, <3>2 DEF Holding
    <3>. QED  BY <1>0, <1>8, <2>1, <2>4, <2>5, <2>6, <3>3, GoesOnHolding
  <2>. QED  BY <2>7, <2>8
<1>9. ASSUME Taken(e)' = Taken(e), NEW i \in Instances, TakeFirst(i) PROVE Goal
  <2>. DEFINE h == Head(pipe[i])
              c == [h EXCEPT !.op = "takeSecond"]
  <2>1. /\ Reply(i, "takeFirst") /\ h \in Command /\ h.op = "takeFirst" /\ pipe[i] # <<>>
        /\ Run(h) /\ GoOn(i, c)
    BY <1>9, Served DEF TakeFirst
  <2>2. c \in Command /\ c.op = "takeSecond" /\ c.entry = h.entry /\ c.other = h.other
    BY <2>1 DEF Command, WorkerOps
  <2>. HIDE DEF c
  <2>3. <<i, c>> \in Holding(e) => <<i, h>> \in Holding(e)
    BY <2>1, <2>2 DEF Holding
  <2>4. M1 + W1 <= M + W
    BY <1>0, <1>9, <2>1, <2>2, <2>3, GoesOnHolding
  <2>5. CASE h.entry = e
    <3>1. Removes
      BY <2>1, <2>5, RunTakes DEF Run, TypeInv
    <3>. QED  BY <2>4, <3>1
  <2>6. CASE h.entry # e
    <3>1. <<i, c>> \notin Halfway(e)
      BY <2>2, <2>6 DEF Halfway
    <3>2. M1 + D1 <= M + D
      BY <1>0, <1>9, <2>1, <2>2, <3>1, GoesOnHolding
    <3>. QED  BY <2>4, <3>2
  <2>. QED  BY <2>5, <2>6
<1>10. ASSUME NEW i \in Instances, TakeSecond(i) PROVE Goal
  <2>. DEFINE h == Head(pipe[i])
              c == [h EXCEPT !.op = "storeKeys", !.left = NumKeys, !.match = Len(matches) + 1]
  <2>1. /\ Reply(i, "takeSecond") /\ h \in Command /\ h.op = "takeSecond" /\ pipe[i] # <<>>
        /\ Run(h) /\ GoOn(i, c)
    BY <1>10, Served DEF TakeSecond
  <2>2. c \in Command /\ c.op = "storeKeys"
    <3>1. NumKeys \in 0..NumKeys
      BY BoundsAssumption
    <3>2. Len(matches) \in Nat
      BY SeqDomain DEF TypeInv, TypeOK
    <3>3. Len(matches) + 1 \in Nat
      BY <3>2
    <3>4. h \in Command
      BY <2>1
    <3>. HIDE DEF h
    <3>. QED  BY <3>1, <3>3, <3>4 DEF Command, WorkerOps
  <2>. HIDE DEF c
  <2>3. <<i, c>> \notin Holding(e) /\ <<i, c>> \notin Halfway(e)
    BY <2>2 DEF Holding, Halfway
  <2>4. /\ W1 \in Nat /\ W1 + One(<<i, h>> \in Holding(e)) <= W + One(<<i, c>> \in Holding(e))
        /\ D1 \in Nat /\ D1 + One(<<i, h>> \in Halfway(e)) <= D + One(<<i, c>> \in Halfway(e))
    BY <2>1, <2>2, PlacesWentOn
  <2>5. /\ M1 \in Nat /\ M1 <= M + 1
        /\ e \notin {h.entry, h.other} => M1 = M
    BY <1>10, TakenGrows
  <2>6. /\ e \in {h.entry, h.other} => <<i, h>> \in Holding(e)
        /\ e = h.entry => <<i, h>> \in Halfway(e)
    BY <2>1 DEF Holding, Halfway
  <2>7. e = h.other => Removes
    BY <2>1, RunTakes DEF Run, TypeInv
  <2>. HIDE DEF M, M1, W, W1, D, D1, Removes, h
  <2>8. M1 + W1 <= M + W
    BY <1>0, <2>3, <2>4, <2>5, <2>6 DEF One
  <2>9. M1 + D1 <= M + D \/ Removes
    BY <1>0, <2>3, <2>4, <2>5, <2>6, <2>7 DEF One
  <2>. QED  BY <2>8, <2>9
<1>11. ASSUME Taken(e)' = Taken(e), NEW i \in Instances, StoreKey(i) \/ JoinFirst(i), ~Finish(i)
       PROVE  Goal
  <2>. DEFINE h == Head(pipe[i])
  <2>1. pipe[i] # <<>> /\ h \in Command
    BY <1>11, Served DEF StoreKey, JoinFirst
  <2>2. PICK c : GoOn(i, c) /\ c.op \in {"storeKeys", "joinFirst", "joinSecond"}
    <3>1. CASE JoinFirst(i)
      <4>1. [h EXCEPT !.op = "joinSecond"].op = "joinSecond"
        BY <2>1 DEF Command
      <4>2. GoOn(i, [h EXCEPT !.op = "joinSecond"])
        BY <3>1 DEF JoinFirst
      <4>. HIDE DEF h
      <4>. QED  BY <4>1, <4>2
    <3>2. CASE StoreKey(i)
      <4>. DEFINE d == [h EXCEPT !.left = @ - 1]
                  f == [h EXCEPT !.op = "joinFirst", !.left = 0]
      <4>1. h.op = "storeKeys"
        BY <3>2, Served DEF StoreKey
      <4>2. d.op = "storeKeys" /\ f.op = "joinFirst"
        BY <2>1, <4>1 DEF Command
      <4>3. GoOn(i, d) \/ GoOn(i, f)
        BY <1>11, <3>2 DEF StoreKey, Conclude
      <4>. HIDE DEF d, f, h
      <4>. QED  BY <4>2, <4>3
    <3>. QED  BY <1>11, <3>1, <3>2
  <2>3. c \in Command
    BY <2>1, <2>2, GoneOnTyped DEF TypeInv, TypeOK
  <2>. QED  BY <1>7, <1>11, <2>1, <2>2, <2>3
<1>12. ASSUME Taken(e)' = Taken(e), NEW i \in Instances, Serve(i), ~TakeSecond(i) PROVE Goal
  <2>1. pipe[i] # <<>>
    BY <1>12, ServeShape
  <2>2. CASE Finish(i)
    BY <1>4, <1>12, <2>1, <2>2
  <2>3. CASE ~Finish(i)
    BY <1>8, <1>9, <1>11, <1>12, <2>3
    DEF Serve, ServeClient, DropDuplicate, JoinSecond, Conclude
  <2>. QED  BY <2>2, <2>3
<1>13. ASSUME Taken(e)' = Taken(e), NEW s \in Sockets, Join(s) \/ Leave(s) \/ Close(s) PROVE Goal
  <2>1. PICK u \in PayloadUser[s] \cup {UserOf[s]}, operation \in ClientOps :
           Issue(Home[s], ClientCommand(operation, EntryOf(s, u)))
    BY <1>13 DEF Join, Leave, Close, ClientOps
  <2>. DEFINE c == ClientCommand(operation, EntryOf(s, u))
  <2>2. c \in Command /\ c.op \notin {"takeFirst", "takeSecond"}
    BY PayloadTyped, ClientCommandTyped DEF ClientCommand, ClientOps
  <2>3. Issue(Home[s], c) /\ Home[s] \in Instances
    BY <2>1, HomeAssumption
  <2>. HIDE DEF c, Goal
  <2>. QED  BY <1>3, <1>13, <2>2, <2>3
<1>14. ASSUME Taken(e)' = Taken(e), NEW i \in Instances, Tick(i) PROVE Goal
  <2>. DEFINE c == [op |-> "lrange", entry |-> AnyEntry, other |-> AnyEntry,
                    match |-> 0, left |-> 0]
  <2>1. Issue(i, c) /\ c \in Command /\ c.op \notin {"takeFirst", "takeSecond"}
    BY <1>14, TickTyped DEF Tick
  <2>. HIDE DEF c, Goal
  <2>. QED  BY <1>3, <1>14, <2>1
<1>15. ASSUME \A i \in Instances : ~TakeSecond(i) PROVE Goal
  <2>1. Taken(e)' = Taken(e)
    BY <1>1, <1>15
  <2>. HIDE DEF Goal
  <2>. QED
    BY <1>5, <1>6, <1>12, <1>13, <1>14, <1>15, <2>1
    DEF Next, Connect, Settle, GiveUp, Crash, Reconnect, FallSilent, RunUnanswered, vars
<1>. HIDE DEF Goal
<1>16. Goal
  BY <1>10, <1>15
<1>. QED  BY <1>16 DEF Goal

LEMMA PushInit == Init => PushInv
<1>. SUFFICES ASSUME Init, NEW e \in Entry
              PROVE  /\ Cardinality(Taken(e)) = 0 /\ Cardinality(Queued(e)) = 0 /\ pushed[e] = 0
                     /\ Cardinality(PlacesOf(pipe, Halfway(e))) = 0
                     /\ Cardinality(PlacesOf(pipe, Holding(e))) = 0
  BY HoldersTyped DEF PushInv
<1>1. Taken(e) = {} /\ Queued(e) = {} /\ pushed[e] = 0
  BY DEF Init, Taken, Queued
<1>. QED  BY <1>1, NoPlacesInit, FS_EmptySet

\* Sums with the product that counts what pushes are good for.
LEMMA Product ==
    ASSUME NEW n \in Nat
    PROVE  /\ \A a \in Nat : n * a \in Nat
           /\ \A a, b \in Nat : a <= b => n * a <= n * b
           /\ \A a, b \in Nat : n * (a + b) = n * a + n * b
<1>1. \A a \in Nat : n * a \in Nat
  OBVIOUS
<1>2. \A a, b \in Nat : n * (a + b) = n * a + n * b
  OBVIOUS
<1>3. ASSUME NEW a \in Nat, NEW b \in Nat, a <= b PROVE n * a <= n * b
  <2>1. b - a \in Nat /\ a + (b - a) = b
    BY <1>3
  <2>2. n * (a + (b - a)) = n * a + n * (b - a)
    BY <1>2, <2>1
  <2>. QED  BY <1>1, <2>1, <2>2
<1>. QED  BY <1>1, <1>2, <1>3

\* The arithmetic of a step: m matches, w holders, d of them halfway, q places in
\* the list and p pushes, and the same after the step.
LEMMA PushArithmetic ==
    ASSUME NEW n \in Nat,
           NEW m \in Nat, NEW w \in 0..n, NEW d \in 0..n, d <= w, NEW q \in Nat, NEW p \in Nat,
           NEW m1 \in Nat, NEW w1 \in 0..n, NEW d1 \in 0..n, d1 <= w1, NEW q1 \in Nat,
           NEW p1 \in Nat,
           p <= p1, q1 + p <= q + p1,
           m1 + w1 <= m + w \/ (m1 = m /\ q # 0),
           m1 + d1 <= m + d \/ (p1 = p /\ (q1 = 0 \/ q1 + 1 <= q)),
           m + d + n * q <= n * p, q = 0 => m + w <= n * p
    PROVE  m1 + d1 + n * q1 <= n * p1 /\ (q1 = 0 => m1 + w1 <= n * p1)
<1>1. /\ \A a \in Nat : n * a \in Nat
      /\ \A a, b \in Nat : a <= b => n * a <= n * b
      /\ \A a, b \in Nat : n * (a + b) = n * a + n * b
  BY Product
<1>2. /\ n * q \in Nat /\ n * p \in Nat /\ n * q1 \in Nat /\ n * p1 \in Nat
      /\ n * p <= n * p1
      /\ n * (q1 + p) = n * q1 + n * p /\ n * (q + p1) = n * q + n * p1
      /\ n * (q1 + p) <= n * (q + p1)
  BY <1>1
<1>3. n * 0 = 0 /\ n * 1 = n
  OBVIOUS
<1>4. CASE q1 + p = q + p1
  <2>1. n * q1 + n * p = n * q + n * p1
    BY <1>2, <1>4
  <2>2. q1 = 0 => q = 0 /\ p1 = p
    BY <1>4
  <2>3. CASE m1 + d1 <= m + d
    <3>1. m1 + d1 + n * q1 <= n * p1
      BY <1>2, <2>1, <2>3
    <3>2. q1 = 0 => m1 + w1 <= n * p1
      BY <1>2, <2>2
    <3>. QED  BY <3>1, <3>2
  <2>4. CASE ~(m1 + d1 <= m + d)
    <3>1. q1 = 0 /\ q = 0 /\ p1 = p
      BY <1>4, <2>4
    <3>2. m1 + w1 <= n * p1
      BY <3>1
    <3>3. n * q1 = 0
      BY <1>3, <3>1
    <3>. QED  BY <1>2, <3>2, <3>3
  <2>. QED  BY <2>3, <2>4
<1>5. CASE q1 + p + 1 <= q + p1
  <2>1. n * ((q1 + p) + 1) = n * (q1 + p) + n * 1 /\ n * ((q1 + p) + 1) <= n * (q + p1)
    BY <1>1, <1>5
  <2>2. n * q1 + n * p + n <= n * q + n * p1
    BY <1>2, <1>3, <2>1
  <2>3. m1 + w1 <= m + n
    OBVIOUS
  <2>4. m1 + d1 + n * q1 <= n * p1
    BY <1>2, <2>2, <2>3
  <2>5. q1 = 0 => n * q1 = 0
    BY <1>3
  <2>. QED  BY <1>2, <2>2, <2>3, <2>4, <2>5
<1>. QED  BY <1>4, <1>5

LEMMA PushNext ==
    TypeInv /\ TypeInv' /\ TickBound /\ TickBound' /\ PushInv /\ [Next]_vars => PushInv'
<1>. SUFFICES ASSUME TypeInv, TypeInv', TickBound, TickBound', PushInv, [Next]_vars,
                     NEW e \in Entry
              PROVE  /\ Cardinality(Taken(e))' + Cardinality(PlacesOf(pipe', Halfway(e)))
                           + Holders * Cardinality(Queued(e))' <= Holders * pushed'[e]
                     /\ Cardinality(Queued(e))' = 0 =>
                           Cardinality(Taken(e))' + Cardinality(PlacesOf(pipe', Holding(e)))
                              <= Holders * pushed'[e]
  BY DEF PushInv, Holders, Halfway, Holding
<1>1. /\ Cardinality(PlacesOf(pipe, Holding(e))) \in 0..Holders
      /\ Cardinality(PlacesOf(pipe, Halfway(e))) \in 0..Holders
      /\ Cardinality(PlacesOf(pipe, Halfway(e))) <= Cardinality(PlacesOf(pipe, Holding(e)))
      /\ Cardinality(Taken(e)) \in Nat /\ Cardinality(Queued(e)) \in Nat /\ pushed[e] \in Nat
  BY HeldCounts DEF HeldOK
<1>2. /\ Cardinality(PlacesOf(pipe', Holding(e))) \in 0..Holders
      /\ Cardinality(PlacesOf(pipe', Halfway(e))) \in 0..Holders
      /\ Cardinality(PlacesOf(pipe', Halfway(e))) <= Cardinality(PlacesOf(pipe', Holding(e)))
      /\ Cardinality(Taken(e))' \in Nat /\ Cardinality(Queued(e))' \in Nat /\ pushed'[e] \in Nat
  <2>1. HeldOK'
    BY HeldCounts, PTL
  <2>. QED  BY <2>1 DEF HeldOK, Holding, Halfway, Holders
<1>3. /\ pushed[e] <= pushed'[e]
      /\ Cardinality(Queued(e))' + pushed[e] <= Cardinality(Queued(e)) + pushed'[e]
  BY StepCounts
<1>4. /\ \/ Cardinality(Taken(e))' + Cardinality(PlacesOf(pipe', Holding(e)))
               <= Cardinality(Taken(e)) + Cardinality(PlacesOf(pipe, Holding(e)))
         \/ Cardinality(Taken(e))' = Cardinality(Taken(e)) /\ Cardinality(Queued(e)) # 0
      /\ \/ Cardinality(Taken(e))' + Cardinality(PlacesOf(pipe', Halfway(e)))
               <= Cardinality(Taken(e)) + Cardinality(PlacesOf(pipe, Halfway(e)))
         \/ /\ pushed' = pushed
            /\ \/ Cardinality(Queued(e))' = 0
               \/ Cardinality(Queued(e))' + 1 <= Cardinality(Queued(e))
  BY StepMatches
<1>5. /\ Cardinality(Taken(e)) + Cardinality(PlacesOf(pipe, Halfway(e)))
            + Holders * Cardinality(Queued(e)) <= Holders * pushed[e]
      /\ Cardinality(Queued(e)) = 0 =>
            Cardinality(Taken(e)) + Cardinality(PlacesOf(pipe, Holding(e)))
               <= Holders * pushed[e]
  BY DEF PushInv
<1>. DEFINE m1 == Cardinality(Taken(e))'
            q1 == Cardinality(Queued(e))'
            w1 == Cardinality(PlacesOf(pipe', Holding(e)))
            d1 == Cardinality(PlacesOf(pipe', Halfway(e)))
            m == Cardinality(Taken(e))
            q == Cardinality(Queued(e))
            w == Cardinality(PlacesOf(pipe, Holding(e)))
            d == Cardinality(PlacesOf(pipe, Halfway(e)))
<1>6. pushed' = pushed => pushed'[e] = pushed[e]
  OBVIOUS
<1>7. Holders \in Nat
  BY HoldersTyped
<1>. HIDE DEF m, q, w, d, m1, q1, w1, d1
<1>8. /\ m \in Nat /\ w \in 0..Holders /\ d \in 0..Holders /\ d <= w /\ q \in Nat
      /\ m1 \in Nat /\ w1 \in 0..Holders /\ d1 \in 0..Holders /\ d1 <= w1 /\ q1 \in Nat
      /\ pushed[e] \in Nat /\ pushed'[e] \in Nat
  BY <1>1, <1>2 DEF m, q, w, d, m1, q1, w1, d1
<1>9. /\ pushed[e] <= pushed'[e] /\ q1 + pushed[e] <= q + pushed'[e]
      /\ m1 + w1 <= m + w \/ (m1 = m /\ q # 0)
      /\ m1 + d1 <= m + d \/ (pushed'[e] = pushed[e] /\ (q1 = 0 \/ q1 + 1 <= q))
      /\ m + d + Holders * q <= Holders * pushed[e]
      /\ q = 0 => m + w <= Holders * pushed[e]
  BY <1>3, <1>4, <1>5, <1>6 DEF m, q, w, d, m1, q1, w1, d1
<1>10. m1 + d1 + Holders * q1 <= Holders * pushed'[e]
       /\ (q1 = 0 => m1 + w1 <= Holders * pushed'[e])
  BY <1>7, <1>8, <1>9, PushArithmetic
<1>. QED  BY <1>10 DEF m, q, w, d, m1, q1, w1, d1

-----------------------------------------------------------------------------
(* How often an entry is pushed                                            *)

\* A client's commands are on the connection of its instance.
HomeInv ==
    \A i \in Instances : \A k \in DOMAIN pipe[i] :
        pipe[i][k].op \in ClientOps => Home[pipe[i][k].entry.clientId] = i

LEMMA HomeInit == Init => HomeInv
<1>1. DOMAIN (<<>>) = {}
  OBVIOUS
<1>. QED  BY <1>1 DEF Init, HomeInv

LEMMA HomeNext == TypeInv /\ TypeInv' /\ HomeInv /\ [Next]_vars => HomeInv'
<1>. SUFFICES ASSUME TypeInv, TypeInv', HomeInv, [Next]_vars,
                     NEW i \in Instances, NEW k \in DOMAIN pipe'[i], pipe'[i][k].op \in ClientOps
              PROVE  Home[pipe'[i][k].entry.clientId] = i
  BY DEF HomeInv
<1>. DEFINE c == pipe'[i][k]
<1>1. CASE Awaited(i, c)
  BY <1>1 DEF Awaited, HomeInv
<1>2. CASE FromClient(i, c)
  <2>. HIDE DEF c
  <2>1. PICK s \in Sockets : /\ Home[s] = i
                             /\ \/ \E u \in PayloadUser[s] : c.entry = EntryOf(s, u)
                                \/ c.entry = EntryOf(s, UserOf[s])
    BY <1>2 DEF FromClient
  <2>2. c.entry.clientId = s
    <3>1. PICK u : c.entry = EntryOf(s, u)
      BY <2>1
    <3>. QED  BY <3>1 DEF EntryOf
  <2>3. Home[c.entry.clientId] = i
    BY <2>1, <2>2
  <2>. QED  BY <2>3 DEF c
<1>3. c.op \notin WorkerOps
  BY DEF ClientOps, WorkerOps
<1>. QED  BY <1>1, <1>2, <1>3, CommandsCame

\* The LPUSHes of e that are awaited, and those of them that have not run since the
\* connection fell silent.
Pushing(e) == {x \in Instances \X Command : /\ x[1] = Home[e.clientId]
                                            /\ x[2].op = "lpush" /\ x[2].entry = e}
Unrun(e) == {x \in PlacesOf(pipe, Pushing(e)) : ran[Home[e.clientId]] < x[2]}

\* How often an LPUSH of e may have run: once, and once for each connection lost.
Tries(e) == IF silent[Home[e.clientId]] THEN outages ELSE outages + 1

JoinInv ==
    /\ \A i \in Instances : silent[i] => outages >= 1
    /\ \A e \in Entry :
          /\ Cardinality(PlacesOf(pipe, Pushing(e))) <= joined[e]
          /\ pushed[e] + Cardinality(Unrun(e)) <= joined[e] * Tries(e)

LEMMA PushingCounts ==
    ASSUME TypeInv, NEW e \in Entry
    PROVE  /\ Home[e.clientId] \in Instances
           /\ IsFiniteSet(PlacesOf(pipe, Pushing(e)))
           /\ Cardinality(PlacesOf(pipe, Pushing(e))) \in Nat
           /\ IsFiniteSet(Unrun(e)) /\ Cardinality(Unrun(e)) \in Nat
           /\ Cardinality(Unrun(e)) <= Cardinality(PlacesOf(pipe, Pushing(e)))
           /\ pushed[e] \in Nat /\ joined[e] \in Nat /\ outages \in Nat /\ Tries(e) \in Nat
           /\ ran[Home[e.clientId]] \in Nat
<1>1. Home[e.clientId] \in Instances
  BY HomeAssumption DEF Entry
<1>2. /\ IsFiniteSet(PlacesOf(pipe, Pushing(e)))
      /\ Cardinality(PlacesOf(pipe, Pushing(e))) \in Nat
  BY PipesFinite
<1>3. Unrun(e) \in SUBSET PlacesOf(pipe, Pushing(e))
  BY DEF Unrun
<1>4. /\ IsFiniteSet(Unrun(e)) /\ Cardinality(Unrun(e)) \in Nat
      /\ Cardinality(Unrun(e)) <= Cardinality(PlacesOf(pipe, Pushing(e)))
  BY <1>2, <1>3, FS_Subset, FS_CardinalityType
<1>5. /\ pushed[e] \in Nat /\ joined[e] \in Nat /\ outages \in Nat
      /\ ran[Home[e.clientId]] \in Nat
  BY <1>1, BoundsAssumption DEF TypeInv, TypeOK
<1>6. Tries(e) \in Nat
  BY <1>5 DEF Tries
<1>. QED  BY <1>1, <1>2, <1>4, <1>5, <1>6

LEMMA RunPushes ==
    ASSUME TypeInv, NEW c \in Command, Run(c), NEW e \in Entry
    PROVE  pushed'[e] = pushed[e] + One(c.op = "lpush" /\ c.entry = e)
<1>1. pushed \in [Entry -> Nat] /\ c.entry \in Entry
  BY DEF TypeInv, TypeOK, Command
<1>. QED  BY <1>1 DEF Run, One

\* The arithmetic of a step: j joins, t tries, p pushes and u of them to come.
LEMMA JoinArithmetic ==
    ASSUME NEW j \in Nat, NEW t \in Nat, NEW p \in Nat, NEW u \in Nat,
           NEW j1 \in Nat, NEW t1 \in Nat, NEW p1 \in Nat, NEW u1 \in Nat,
           j <= j1, t <= t1, p + u <= j * t,
           \/ p1 + u1 <= p + u
           \/ j1 = j + 1 /\ t >= 1 /\ p1 + u1 <= p + u + 1
           \/ t1 = t + 1 /\ p1 + u1 <= p + u + j
    PROVE  p1 + u1 <= j1 * t1
<1>1. j * t <= j * t1 /\ j * t \in Nat /\ j * t1 \in Nat
  BY Product
<1>2. t1 * j <= t1 * j1
  BY Product
<1>3. t1 * j = j * t1 /\ t1 * j1 = j1 * t1
  OBVIOUS
<1>4. CASE p1 + u1 <= p + u
  BY <1>1, <1>2, <1>3, <1>4
<1>5. CASE j1 = j + 1 /\ t >= 1 /\ p1 + u1 <= p + u + 1
  <2>1. t1 * (j + 1) = t1 * j + t1 * 1 /\ t1 * 1 = t1
    BY Product
  <2>. QED  BY <1>1, <1>3, <1>5, <2>1
<1>6. CASE t1 = t + 1 /\ p1 + u1 <= p + u + j
  <2>1. j * (t + 1) = j * t + j * 1 /\ j * 1 = j
    BY Product
  <2>2. p1 + u1 <= j * t1
    BY <1>1, <1>6, <2>1
  <2>. QED  BY <1>1, <1>2, <1>3, <2>2
<1>. QED  BY <1>4, <1>5, <1>6

LEMMA JoinInit == Init => JoinInv
<1>. SUFFICES ASSUME Init PROVE JoinInv
  OBVIOUS
<1>1. \A i \in Instances : ~silent[i]
  BY DEF Init
<1>2. ASSUME NEW e \in Entry
      PROVE  /\ Cardinality(PlacesOf(pipe, Pushing(e))) <= joined[e]
             /\ pushed[e] + Cardinality(Unrun(e)) <= joined[e] * Tries(e)
  <2>1. /\ PlacesOf(pipe, Pushing(e)) = {} /\ Cardinality(PlacesOf(pipe, Pushing(e))) = 0
        /\ joined[e] = 0 /\ pushed[e] = 0
    BY NoPlacesInit DEF Init
  <2>2. Unrun(e) = {} /\ Cardinality(Unrun(e)) = 0
    BY <2>1, FS_EmptySet DEF Unrun
  <2>3. Tries(e) \in Nat
    BY PushingCounts, TypeInvInit
  <2>4. 0 * Tries(e) = 0
    BY <2>3
  <2>. QED  BY <2>1, <2>2, <2>4
<1>. QED  BY <1>1, <1>2 DEF JoinInv

LEMMA SilentNext ==
    ASSUME TypeInv, TypeInv', JoinInv, [Next]_vars
    PROVE  /\ \A i \in Instances : silent'[i] => outages' >= 1
           /\ outages \in Nat /\ outages' \in Nat /\ outages <= outages'
<1>1. /\ \A i \in Instances : silent[i] => outages >= 1
      /\ outages \in Nat /\ outages' \in Nat
  BY BoundsAssumption DEF JoinInv, TypeInv, TypeOK
<1>2. ASSUME NEW i \in Instances, FallSilent(i)
      PROVE  outages' = outages + 1
  BY <1>2 DEF FallSilent
<1>3. ASSUME NEW i \in Instances, Settle(i)
      PROVE  outages' = outages /\ \A j \in Instances : silent'[j] => silent[j]
  BY <1>3 DEF Settle, Reconnect, GiveUp, Crash, EndSilence, TypeInv, TypeOK
<1>4. ASSUME NEW i \in Instances, Serve(i) PROVE outages' = outages /\ silent' = silent
  BY <1>4, ServeShape DEF linkVars
<1>5. \/ outages' = outages /\ silent' = silent
      \/ \E i \in Instances : FallSilent(i) \/ Settle(i)
  BY <1>4 DEF Next, Connect, Join, Leave, Close, Tick, RunUnanswered, vars, linkVars
<1>. QED  BY <1>1, <1>2, <1>3, <1>5

LEMMA JoinNext == TypeInv /\ TypeInv' /\ HomeInv /\ JoinInv /\ [Next]_vars => JoinInv'
<1>. SUFFICES ASSUME TypeInv, TypeInv', HomeInv, JoinInv, [Next]_vars PROVE JoinInv'
  OBVIOUS
<1>. SUFFICES ASSUME NEW e \in Entry
              PROVE  /\ Cardinality(PlacesOf(pipe', Pushing(e))) <= joined'[e]
                     /\ pushed'[e] + Cardinality(Unrun(e))' <= joined'[e] * Tries(e)'
  BY SilentNext DEF JoinInv, Pushing
<1>. DEFINE h == Home[e.clientId]
            P == Cardinality(PlacesOf(pipe, Pushing(e)))
            P1 == Cardinality(PlacesOf(pipe', Pushing(e)))
            left == {x \in PlacesOf(pipe', Pushing(e)) : ran'[h] < x[2]}
            U == Cardinality(Unrun(e))
            U1 == Cardinality(left)
            T == Tries(e)
            T1 == Tries(e)'
            Goal == P1 <= joined'[e] /\ pushed'[e] + U1 <= joined'[e] * T1
<1>1. /\ h \in Instances /\ P \in Nat /\ U \in Nat /\ U <= P /\ T \in Nat
      /\ IsFiniteSet(PlacesOf(pipe, Pushing(e))) /\ IsFiniteSet(Unrun(e))
      /\ pushed[e] \in Nat /\ joined[e] \in Nat /\ outages \in Nat /\ ran[h] \in Nat
      /\ P <= joined[e] /\ pushed[e] + U <= joined[e] * T
      /\ silent[h] => outages >= 1
  BY PushingCounts DEF JoinInv
<1>2. /\ pushed'[e] \in Nat /\ joined'[e] \in Nat /\ T1 \in Nat /\ ran'[h] \in Nat
      /\ P1 \in Nat /\ U1 \in Nat /\ U1 <= P1
  <2>1. \A i \in Instances : \E n \in Nat : DOMAIN pipe'[i] = 1..n
    <3>1. \A i \in Instances : pipe'[i] \in Seq(Command)
      BY DEF TypeInv, TypeOK
    <3>. QED  BY <3>1, SeqDomain
  <2>2. IsFiniteSet(PlacesOf(pipe', Pushing(e))) /\ P1 \in Nat
    BY <2>1, PlacesFinite
  <2>3. left \in SUBSET PlacesOf(pipe', Pushing(e))
    OBVIOUS
  <2>4. U1 \in Nat /\ U1 <= P1
    <3>. HIDE DEF left
    <3>. QED  BY <2>2, <2>3, FS_Subset, FS_CardinalityType
  <2>5. pushed'[e] \in Nat /\ joined'[e] \in Nat /\ ran'[h] \in Nat
    BY <1>1 DEF TypeInv, TypeOK
  <2>6. T1 \in Nat
    <3>1. T1 = IF silent'[h] THEN outages' ELSE outages' + 1
      BY DEF Tries
    <3>2. outages' \in Nat
      BY SilentNext
    <3>3. \A n \in Nat : n + 1 \in Nat
      OBVIOUS
    <3>. QED  BY <3>1, <3>2, <3>3
  <2>. QED  BY <2>2, <2>4, <2>5, <2>6
<1>3. Unrun(e)' = left
  BY DEF Unrun, Pushing
<1>. HIDE DEF h, P, P1, left, U, U1, T, T1
<1>4. ASSUME joined[e] <= joined'[e], T <= T1,
             P1 <= P \/ (joined'[e] = joined[e] + 1 /\ P1 <= P + 1),
             \/ pushed'[e] + U1 <= pushed[e] + U
             \/ joined'[e] = joined[e] + 1 /\ T >= 1 /\ pushed'[e] + U1 <= pushed[e] + U + 1
             \/ T1 = T + 1 /\ pushed'[e] + U1 <= pushed[e] + U + joined[e]
      PROVE  Goal
  <2>1. P1 <= joined'[e]
    BY <1>1, <1>2, <1>4
  <2>2. pushed'[e] + U1 <= joined'[e] * T1
    BY <1>1, <1>2, <1>4, JoinArithmetic
  <2>. QED  BY <2>1, <2>2
<1>5. ASSUME NEW i \in Instances, NEW c \in Command, Issue(i, c), ran' = ran
      PROVE  P1 <= P + One(<<i, c>> \in Pushing(e)) /\ U1 <= U + One(<<i, c>> \in Pushing(e))
  <2>1. /\ P1 <= P + One(<<i, c>> \in Pushing(e))
        /\ PlacesOf(pipe', Pushing(e)) \subseteq
              PlacesOf(pipe, Pushing(e)) \cup
                 (IF <<i, c>> \in Pushing(e) THEN {<<i, Len(pipe[i]) + 1>>} ELSE {})
    BY <1>5, PlacesIssued DEF P, P1
  <2>2. left \subseteq Unrun(e) \cup
           (IF <<i, c>> \in Pushing(e) THEN {<<i, Len(pipe[i]) + 1>>} ELSE {})
    BY <1>5, <2>1 DEF left, Unrun, h
  <2>. DEFINE x == <<i, Len(pipe[i]) + 1>>
  <2>3. CASE <<i, c>> \in Pushing(e)
    <3>1. left \in SUBSET (Unrun(e) \cup {x})
      BY <2>2, <2>3
    <3>. HIDE DEF x
    <3>2. /\ IsFiniteSet(Unrun(e) \cup {x})
          /\ Cardinality(Unrun(e) \cup {x}) = IF x \in Unrun(e) THEN Cardinality(Unrun(e))
                                                               ELSE Cardinality(Unrun(e)) + 1
      BY <1>1, FS_AddElement
    <3>3. U1 <= Cardinality(Unrun(e) \cup {x})
      BY <3>1, <3>2, FS_Subset DEF U1
    <3>4. Cardinality(Unrun(e) \cup {x}) \in Nat /\ Cardinality(Unrun(e) \cup {x}) <= U + 1
      BY <1>1, <3>2 DEF U
    <3>5. U1 <= U + 1
      BY <1>1, <1>2, <3>3, <3>4
    <3>. QED  BY <2>1, <2>3, <3>5 DEF One
  <2>4. CASE <<i, c>> \notin Pushing(e)
    <3>1. left \in SUBSET Unrun(e)
      BY <2>2, <2>4
    <3>2. U1 <= U
      BY <1>1, <3>1, FS_Subset DEF U1, U
    <3>. QED  BY <1>1, <1>2, <2>1, <2>4, <3>2 DEF One
  <2>. QED  BY <2>3, <2>4
<1>6. ASSUME silent' = silent, outages' = outages PROVE T1 = T
  BY <1>6 DEF T, T1, Tries
<1>7. T >= 1
  BY <1>1 DEF T, Tries, h
<1>8. ASSUME NEW s \in Sockets, Join(s) PROVE Goal
  <2>1. PICK u \in PayloadUser[s] :
           /\ joined' = [joined EXCEPT ![EntryOf(s, u)] = @ + 1]
           /\ Issue(Home[s], ClientCommand("lpush", EntryOf(s, u)))
    BY <1>8 DEF Join
  <2>. DEFINE c == ClientCommand("lpush", EntryOf(s, u))
  <2>2. /\ c \in Command /\ Home[s] \in Instances /\ EntryOf(s, u) \in Entry
        /\ c.entry = EntryOf(s, u) /\ EntryOf(s, u).clientId = s
    BY PayloadTyped, ClientCommandTyped, HomeAssumption DEF ClientOps, ClientCommand, EntryOf
  <2>3. <<Home[s], c>> \in Pushing(e) => EntryOf(s, u) = e
    BY <2>2 DEF Pushing
  <2>4. /\ P1 <= P + One(<<Home[s], c>> \in Pushing(e))
        /\ U1 <= U + One(<<Home[s], c>> \in Pushing(e))
        /\ pushed' = pushed /\ T1 = T
    BY <1>5, <1>6, <1>8, <2>1, <2>2 DEF Join, storeVars, linkVars
  <2>. HIDE DEF c
  <2>5. CASE EntryOf(s, u) = e
    <3>1. joined'[e] = joined[e] + 1
      BY <2>1, <2>2, <2>5 DEF TypeInv, TypeOK
    <3>2. P1 <= P + 1 /\ U1 <= U + 1
      BY <1>1, <1>2, <2>4 DEF One
    <3>3. pushed'[e] + U1 <= pushed[e] + U + 1
      BY <1>1, <1>2, <2>4, <3>2
    <3>. QED  BY <1>1, <1>4, <1>7, <2>4, <3>1, <3>2, <3>3
  <2>6. CASE EntryOf(s, u) # e
    <3>1. joined'[e] = joined[e]
      BY <2>1, <2>2, <2>6 DEF TypeInv, TypeOK
    <3>2. P1 <= P /\ U1 <= U
      BY <1>1, <1>2, <2>3, <2>4, <2>6 DEF One
    <3>3. pushed'[e] + U1 <= pushed[e] + U
      BY <1>1, <1>2, <2>4, <3>2
    <3>. QED  BY <1>1, <1>4, <2>4, <3>1, <3>2, <3>3
  <2>. QED  BY <2>5, <2>6
<1>9. ASSUME NEW i \in Instances, NEW c \in Command, Issue(i, c), c.op # "lpush",
             UNCHANGED <<joined, pushed, ran, silent, outages>>
      PROVE  Goal
  <2>1. <<i, c>> \notin Pushing(e)
    BY <1>9 DEF Pushing
  <2>2. P1 <= P /\ U1 <= U /\ T1 = T
    BY <1>1, <1>2, <1>5, <1>6, <1>9, <2>1 DEF One
  <2>3. pushed'[e] + U1 <= pushed[e] + U /\ joined'[e] = joined[e]
    BY <1>1, <1>2, <1>9, <2>2
  <2>. QED  BY <1>1, <1>4, <2>2, <2>3
<1>10. ASSUME NEW s \in Sockets, Leave(s) \/ Close(s) PROVE Goal
  <2>1. PICK u \in PayloadUser[s] \cup {UserOf[s]} :
           Issue(Home[s], ClientCommand("lremAll", EntryOf(s, u)))
    BY <1>10 DEF Leave, Close
  <2>. DEFINE c == ClientCommand("lremAll", EntryOf(s, u))
  <2>2. c \in Command /\ Home[s] \in Instances /\ c.op # "lpush"
    BY PayloadTyped, ClientCommandTyped, HomeAssumption DEF ClientOps, ClientCommand
  <2>3. Issue(Home[s], c)
    BY <2>1
  <2>4. UNCHANGED <<joined, pushed, ran, silent, outages>>
    BY <1>10 DEF Leave, Close, storeVars, linkVars
  <2>. HIDE DEF c, Goal
  <2>. QED  BY <1>9, <2>2, <2>3, <2>4
<1>11. ASSUME NEW i \in Instances, Tick(i) PROVE Goal
  <2>. DEFINE c == [op |-> "lrange", entry |-> AnyEntry, other |-> AnyEntry,
                    match |-> 0, left |-> 0]
  <2>1. Issue(i, c) /\ c \in Command /\ c.op # "lpush"
    BY <1>11, TickTyped DEF Tick
  <2>2. UNCHANGED <<joined, pushed, ran, silent, outages>>
    BY <1>11 DEF Tick, clientVars, storeVars, linkVars
  <2>. HIDE DEF c, Goal
  <2>. QED  BY <1>9, <2>1, <2>2
<1>12. ASSUME NEW c \in Command, NEW i \in Instances, NEW k \in DOMAIN pipe[i], c = pipe[i][k], Run(c)
       PROVE  pushed'[e] = pushed[e] + One(<<i, c>> \in Pushing(e))
  <2>1. c.op = "lpush" /\ c.entry = e => i = Home[e.clientId]
    BY <1>12 DEF HomeInv, ClientOps
  <2>2. <<i, c>> \in Pushing(e) <=> (c.op = "lpush" /\ c.entry = e)
    BY <2>1 DEF Pushing
  <2>. QED  BY <1>12, <2>2, RunPushes DEF One
<1>13. ASSUME NEW i \in Instances, Serve(i) PROVE Goal
  <2>. DEFINE c == Head(pipe[i])
  <2>1. /\ pipe[i] # <<>> /\ Run(c) /\ UNCHANGED <<joined, ran, silent, outages>>
        /\ Finish(i) \/ \E d \in Command : d.op \in WorkerOps /\ GoOn(i, d)
    BY <1>13, ServeShape DEF clientVars, linkVars
  <2>2. c \in Command /\ 1 \in DOMAIN pipe[i] /\ c = pipe[i][1]
    BY <2>1, PipeFront DEF TypeInv
  <2>3. pushed'[e] = pushed[e] + One(<<i, c>> \in Pushing(e))
    BY <1>12, <2>1, <2>2
  <2>4. T1 = T /\ joined'[e] = joined[e]
    BY <1>6, <2>1
  <2>5. P1 + One(<<i, c>> \in Pushing(e)) <= P
    <3>1. CASE Finish(i)
      BY <2>1, <3>1, PlacesFinished DEF P, P1
    <3>2. ASSUME NEW d \in Command, d.op \in WorkerOps, GoOn(i, d)
          PROVE  P1 + One(<<i, c>> \in Pushing(e)) <= P
      <4>1. <<i, d>> \notin Pushing(e)
        BY <3>2 DEF Pushing, WorkerOps
      <4>2. P1 + One(<<i, c>> \in Pushing(e)) <= P + One(<<i, d>> \in Pushing(e))
        BY <2>1, <3>2, PlacesWentOn DEF P, P1
      <4>. QED  BY <1>1, <4>1, <4>2 DEF One
    <3>. QED  BY <2>1, <3>1, <3>2
  <2>. HIDE DEF c
  <2>6. P1 <= P
    BY <1>1, <1>2, <2>5 DEF One
  <2>7. CASE i = h
    <3>1. ran[h] = 0
      <4>1. PICK operation : Reply(i, operation)
        BY <1>13 DEF Serve, ServeClient, ReadQueue, DropDuplicate, TakeFirst, TakeSecond,
           StoreKey, JoinFirst, JoinSecond
      <4>. QED  BY <2>7, <4>1, Served
    <3>2. Unrun(e) = PlacesOf(pipe, Pushing(e))
      <4>1. ASSUME NEW x \in PlacesOf(pipe, Pushing(e)) PROVE 0 < x[2]
        <5>1. x[1] \in Instances /\ x[2] \in DOMAIN pipe[x[1]]
          BY DEF PlacesOf
        <5>. QED  BY <5>1, PipeDomain DEF TypeInv
      <4>. QED  BY <3>1, <4>1 DEF Unrun, h
    <3>3. U = P
      BY <3>2 DEF U, P
    <3>4. pushed'[e] + U1 <= pushed[e] + U
      BY <1>1, <1>2, <2>3, <2>5, <3>3 DEF One
    <3>. QED  BY <1>1, <1>4, <2>4, <2>6, <3>4
  <2>8. CASE i # h
    <3>1. pipe'[h] = pipe[h]
      BY <1>1, <2>1, <2>8, PipeFinishes, PipeGoesOn DEF TypeInv, Others
    <3>2. left = Unrun(e)
      <4>1. PlacesOf(pipe', Pushing(e)) = PlacesOf(pipe, Pushing(e))
        BY <3>1 DEF PlacesOf, Pushing, h
      <4>. QED  BY <2>1, <4>1 DEF left, Unrun, h
    <3>3. U1 = U
      BY <3>2 DEF U1, U
    <3>4. <<i, c>> \notin Pushing(e)
      BY <2>8 DEF Pushing, h
    <3>5. pushed'[e] + U1 <= pushed[e] + U
      BY <1>1, <1>2, <2>3, <3>3, <3>4 DEF One
    <3>. QED  BY <1>1, <1>4, <2>4, <2>6, <3>5
  <2>. QED  BY <2>7, <2>8
<1>14. ASSUME NEW i \in Instances, RunUnanswered(i) PROVE Goal
  <2>. DEFINE k == ran[i] + 1
              c == pipe[i][k]
  <2>1. /\ Run(c) /\ UNCHANGED <<joined, pipe, silent, outages>>
        /\ ran' = [ran EXCEPT ![i] = @ + 1]
    BY <1>14 DEF RunUnanswered, clientVars
  <2>2. k \in DOMAIN pipe[i] /\ c \in Command
    <3>1. ran[i] \in Nat
      BY DEF TypeInv, TypeOK
    <3>2. k \in DOMAIN pipe[i]
      BY <1>14, <3>1, PipeDomain DEF RunUnanswered, TypeInv
    <3>. QED  BY <3>2, PipeDomain DEF TypeInv
  <2>3. pushed'[e] = pushed[e] + One(<<i, c>> \in Pushing(e))
    BY <1>12, <2>1, <2>2
  <2>4. T1 = T /\ joined'[e] = joined[e] /\ P1 = P
    BY <1>6, <2>1 DEF P, P1
  <2>5. U1 + One(<<i, c>> \in Pushing(e)) <= U
    <3>1. ran \in [Instances -> Nat]
      BY DEF TypeInv, TypeOK
    <3>2. ran'[h] = (IF i = h THEN ran[h] + 1 ELSE ran[h]) /\ ran[h] \in Nat
      BY <1>1, <2>1, <3>1
    <3>3. left \subseteq Unrun(e)
      <4>1. \A x \in Instances \X Nat : ran'[h] < x[2] => ran[h] < x[2]
        BY <1>1, <3>2
      <4>. QED  BY <2>1, <4>1 DEF left, Unrun, PlacesOf, h
    <3>4. CASE <<i, c>> \in Pushing(e)
      <4>1. i = h /\ k = ran[h] + 1 /\ ran'[h] = ran[h] + 1
        BY <3>2, <3>4 DEF Pushing, h
      <4>2. <<i, k>> \in Unrun(e)
        <5>1. k \in Nat
          BY <3>2, <4>1
        <5>2. <<i, k>> \in PlacesOf(pipe, Pushing(e))
          BY <2>2, <3>4, <5>1 DEF PlacesOf
        <5>. QED  BY <3>2, <4>1, <5>2 DEF Unrun, h
      <4>3. <<i, k>> \notin left
        BY <3>2, <4>1 DEF left
      <4>4. left \in SUBSET (Unrun(e) \ {<<i, k>>})
        BY <3>3, <4>3
      <4>. DEFINE x == <<i, k>>
      <4>. HIDE DEF x, k
      <4>5. IsFiniteSet(Unrun(e) \ {x}) /\ Cardinality(Unrun(e) \ {x}) = U - 1
        BY <1>1, <4>2, FS_RemoveElement DEF U, x
      <4>6. U1 <= U - 1
        BY <4>4, <4>5, FS_Subset DEF U1, x
      <4>. QED  BY <1>1, <1>2, <3>4, <4>6 DEF One
    <3>5. CASE <<i, c>> \notin Pushing(e)
      <4>1. U1 <= U
        BY <1>1, <3>3, FS_Subset DEF U1, U
      <4>. QED  BY <1>1, <1>2, <3>5, <4>1 DEF One
    <3>. QED  BY <3>4, <3>5
  <2>. HIDE DEF c, k
  <2>6. pushed'[e] + U1 <= pushed[e] + U
    BY <1>1, <1>2, <2>3, <2>5 DEF One
  <2>. QED  BY <1>1, <1>4, <2>4, <2>6
<1>15. ASSUME NEW i \in Instances, FallSilent(i) PROVE Goal
  <2>1. /\ ~silent[i] /\ silent' = [silent EXCEPT ![i] = TRUE] /\ outages' = outages + 1
        /\ UNCHANGED <<joined, pushed, pipe, ran>>
    BY <1>15 DEF FallSilent, clientVars, storeVars
  <2>2. P1 = P /\ pushed'[e] = pushed[e] /\ joined'[e] = joined[e]
    BY <2>1 DEF P, P1
  <2>3. left = Unrun(e) /\ U1 = U
    BY <2>1 DEF left, Unrun, h, U, U1
  <2>4. T <= T1
    <3>1. /\ T = IF silent[h] THEN outages ELSE outages + 1
          /\ T1 = IF silent'[h] THEN outages' ELSE outages' + 1
      BY DEF T, T1, Tries, h
    <3>2. silent[h] => silent'[h] /\ i # h
      BY <1>1, <2>1 DEF TypeInv, TypeOK
    <3>. QED  BY <1>1, <2>1, <3>1, <3>2
  <2>. QED  BY <1>1, <1>4, <2>2, <2>3, <2>4
<1>16. ASSUME NEW i \in Instances, EndSilence(i), UNCHANGED <<joined, pushed>>,
              PlacesOf(pipe', Pushing(e)) \subseteq PlacesOf(pipe, Pushing(e))
       PROVE  Goal
  <2>1. silent[i] /\ silent' = [silent EXCEPT ![i] = FALSE] /\ outages' = outages
        /\ ran' = [ran EXCEPT ![i] = 0]
    BY <1>16 DEF EndSilence
  <2>2. /\ T = IF silent[h] THEN outages ELSE outages + 1
        /\ T1 = IF silent'[h] THEN outages' ELSE outages' + 1
    BY DEF T, T1, Tries, h
  <2>3. P1 <= P
    BY <1>1, <1>16, FS_Subset DEF P, P1
  <2>4. CASE i = h
    <3>1. silent[h] /\ ~silent'[h] /\ T1 = T + 1
      BY <1>1, <2>1, <2>2, <2>4 DEF TypeInv, TypeOK
    <3>2. pushed'[e] + U1 <= pushed[e] + U + joined[e]
      BY <1>1, <1>2, <1>16, <2>3
    <3>. QED  BY <1>1, <1>4, <1>16, <2>3, <3>1, <3>2
  <2>5. CASE i # h
    <3>1. ran'[h] = ran[h] /\ silent'[h] = silent[h]
      BY <1>1, <2>1, <2>5 DEF TypeInv, TypeOK
    <3>2. left \subseteq Unrun(e)
      BY <1>16, <3>1 DEF left, Unrun, h
    <3>3. U1 <= U /\ T1 = T
      BY <1>1, <2>1, <2>2, <3>1, <3>2, FS_Subset DEF U, U1
    <3>4. pushed'[e] + U1 <= pushed[e] + U
      BY <1>1, <1>2, <1>16, <3>3
    <3>. QED  BY <1>1, <1>4, <1>16, <2>3, <3>3, <3>4
  <2>. QED  BY <2>4, <2>5
<1>17. ASSUME NEW i \in Instances, Settle(i) PROVE Goal
  <2>1. EndSilence(i) /\ UNCHANGED <<joined, pushed>>
    BY <1>17 DEF Settle, Reconnect, GiveUp, Crash, clientVars, storeVars
  <2>2. pipe' = pipe \/ DropPipe(i)
    BY <1>17 DEF Settle, Reconnect, GiveUp, Crash
  <2>. HIDE DEF Goal
  <2>. QED  BY <1>16, <2>1, <2>2, PlacesDropped
<1>18. ASSUME UNCHANGED <<joined, pushed, pipe, silent, ran, outages>> PROVE Goal
  <2>1. P1 = P /\ pushed'[e] = pushed[e] /\ joined'[e] = joined[e] /\ T1 = T
    BY <1>6, <1>18 DEF P, P1
  <2>2. left = Unrun(e) /\ U1 = U
    BY <1>18 DEF left, Unrun, h, U, U1
  <2>. QED  BY <1>1, <1>4, <2>1, <2>2
<1>. HIDE DEF Goal
<1>19. Goal
  BY <1>8, <1>10, <1>11, <1>13, <1>14, <1>15, <1>17, <1>18
  DEF Next, Connect, vars, clientVars, storeVars, linkVars
<1>. QED  BY <1>3, <1>19 DEF Goal, P1, U1, T1

\* A matchmaking:join makes at most one match per tick that may be under way, and
\* as many more for each connection that was lost: a tick that reads the list finds
\* an entry there only until the first of the ticks that read it removes it, and an
\* LPUSH runs once and once more for each time it is sent again.
THEOREM JoinIsForFewMatches == Spec => []MatchesPerJoin
<1>1. TypeInv /\ TypeInv' /\ TickBound /\ PushInv /\ HomeInv /\ JoinInv /\ [Next]_vars
         => TickBound' /\ PushInv' /\ HomeInv' /\ JoinInv'
  BY TickBoundNext, PushNext, HomeNext, JoinNext
<1>2. Init => TickBound /\ PushInv /\ HomeInv /\ JoinInv
  BY TickBoundInit, PushInit, HomeInit, JoinInit
<1>3. TypeInv /\ TickBound /\ PushInv /\ JoinInv => MatchesPerJoin
  <2>. SUFFICES ASSUME TypeInv, TickBound, PushInv, JoinInv, NEW e \in Entry
                PROVE  Cardinality(Taken(e)) + Holders * Cardinality(Queued(e))
                          <= Holders * (joined[e] * (outages + 1))
    BY DEF MatchesPerJoin
  <2>1. /\ Cardinality(PlacesOf(pipe, Halfway(e))) \in Nat
        /\ Cardinality(Taken(e)) \in Nat /\ Cardinality(Queued(e)) \in Nat
    BY HeldCounts DEF HeldOK
  <2>2. /\ Cardinality(Unrun(e)) \in Nat /\ pushed[e] \in Nat /\ joined[e] \in Nat
        /\ outages \in Nat /\ Tries(e) \in Nat
    BY PushingCounts
  <2>3. Holders \in Nat
    BY HoldersTyped
  <2>4. Cardinality(Taken(e)) + Holders * Cardinality(Queued(e)) <= Holders * pushed[e]
    <3>1. /\ Holders * Cardinality(Queued(e)) \in Nat /\ Holders * pushed[e] \in Nat
          /\ Cardinality(Taken(e)) + Cardinality(PlacesOf(pipe, Halfway(e)))
                + Holders * Cardinality(Queued(e)) <= Holders * pushed[e]
      BY <2>1, <2>2, <2>3, Product DEF PushInv
    <3>. QED  BY <2>1, <3>1
  <2>5. pushed[e] <= joined[e] * (outages + 1)
    <3>1. Tries(e) <= outages + 1
      BY <2>2 DEF Tries
    <3>2. joined[e] * Tries(e) <= joined[e] * (outages + 1)
      BY <2>2, <3>1, Product
    <3>3. pushed[e] + Cardinality(Unrun(e)) <= joined[e] * Tries(e)
      BY DEF JoinInv
    <3>4. joined[e] * Tries(e) \in Nat /\ joined[e] * (outages + 1) \in Nat
      BY <2>2, Product
    <3>. QED  BY <2>2, <3>2, <3>3, <3>4
  <2>6. joined[e] * (outages + 1) \in Nat
    BY <2>2, Product
  <2>7. Holders * pushed[e] <= Holders * (joined[e] * (outages + 1))
    BY <2>2, <2>3, <2>5, <2>6, Product
  <2>8. /\ Holders * pushed[e] \in Nat /\ Holders * (joined[e] * (outages + 1)) \in Nat
        /\ Holders * Cardinality(Queued(e)) \in Nat
    BY <2>1, <2>2, <2>3, <2>6, Product
  <2>. QED  BY <2>1, <2>4, <2>7, <2>8
<1>. QED  BY <1>1, <1>2, <1>3, TypeInvariant, PTL DEF Spec
=============================================================================
