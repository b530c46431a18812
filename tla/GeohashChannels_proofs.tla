------------------------- MODULE GeohashChannels_proofs -------------------------
(***************************************************************************)
(* Safety of GeohashChannels, for any geohashes, relays and bounds: every   *)
(* relay of a joined geohash has a task, and an event becomes one message.  *)
(*                                                                          *)
(* JoinedIsServed is inductive with the types.  ShownOnce counts lines that *)
(* move through the queue: what is inductive is that an event is in one     *)
(* place, with its handler, in one line, or shown (InOnePlace).             *)
(***************************************************************************)
EXTENDS GeohashChannels, FiniteSetTheorems, TLAPS

Line == [geohash : Geohashes, type : {"presence", "message", "system"}]
JoinStates(states) == {Idle} \cup [geohash : Geohashes, state : states]
Tasks == [LoopState -> Nat]

(* The types that the tasks and the queue depend on. *)
TaskTypes ==
    /\ loops \in [Geohashes -> [Relays -> Tasks]]
    /\ hearts \in [Geohashes -> Nat]
    /\ handling \in [Geohashes -> Relays \cup {None}]
LineTypes ==
    /\ lines \in Seq(Line) /\ Len(lines) <= MaxLines
    /\ shown \in [Geohashes -> Nat]
JoinTypes ==
    /\ joined \subseteq Geohashes /\ seen \subseteq Geohashes /\ listed \subseteq Geohashes
    /\ posted \in [Geohashes -> SUBSET Relays]
    /\ main \in JoinStates({"resolving", "announcing"})
    /\ saved_joins \in Seq(Geohashes)
    /\ restoring \in JoinStates({"spawned", "resolving", "announcing"})
    /\ sending \in [Geohashes ->
         {"no", "spawned", "resolving", "announcing", "publishing", "done"}]
    /\ joins \in 0..MaxJoins /\ failures \in 0..MaxFailures

InLines(g) == {i \in DOMAIN lines : lines[i] = Message(g)}

(* The event of g is unseen, handled, in one line, or shown once. *)
Unplaced(g) == handling[g] = None /\ InLines(g) = {} /\ shown[g] = 0
InOnePlace(g) ==
    \/ Unplaced(g)
    \/ g \in seen /\ handling[g] # None /\ InLines(g) = {} /\ shown[g] = 0
    \/ g \in seen /\ handling[g] = None /\ (\E i \in DOMAIN lines : InLines(g) = {i}) /\ shown[g] = 0
    \/ g \in seen /\ handling[g] = None /\ InLines(g) = {} /\ shown[g] = 1
OnePlace == \A g \in Geohashes : InOnePlace(g)

IInv == TaskTypes /\ LineTypes /\ JoinTypes /\ JoinedIsServed /\ OnePlace

-----------------------------------------------------------------------------
(* The queue.                                                                *)

LEMMA Enqueues ==
  ASSUME LineTypes, NEW line \in Line, Enqueue(line)
  PROVE  /\ lines' \in Seq(Line) /\ Len(lines') <= MaxLines
         /\ \A g \in Geohashes :
              InLines(g)' = IF line = Message(g) THEN InLines(g) \cup {Len(lines) + 1}
                            ELSE InLines(g)
<1>1. /\ lines \in Seq(Line) /\ Len(lines) \in Nat /\ Len(lines) < MaxLines
      /\ lines' = Append(lines, line) /\ MaxLines \in Nat
  BY BoundsAssumption DEF LineTypes, Enqueue
<1>2. lines' \in Seq(Line) /\ Len(lines') = Len(lines) + 1
  BY <1>1
<1>3. /\ \A i \in 1..Len(lines) : lines'[i] = lines[i]
      /\ lines'[Len(lines) + 1] = line
  BY <1>1
<1>4. DOMAIN lines = 1..Len(lines) /\ DOMAIN lines' = 1..Len(lines) + 1
  BY <1>1, <1>2
<1>5. ASSUME NEW g \in Geohashes
      PROVE  InLines(g)' = IF line = Message(g) THEN InLines(g) \cup {Len(lines) + 1}
                           ELSE InLines(g)
  <2>1. InLines(g)' = {i \in 1..Len(lines) + 1 : lines'[i] = Message(g)}
    BY <1>4 DEF InLines
  <2>2. InLines(g) = {i \in 1..Len(lines) : lines[i] = Message(g)}
    BY <1>4 DEF InLines
  <2> HIDE DEF InLines
  <2> QED
    BY <1>1, <1>3, <2>1, <2>2
<1> QED
  BY <1>1, <1>2, <1>5

LEMMA Dequeues ==
  ASSUME LineTypes, lines # <<>>, lines' = Tail(lines)
  PROVE  /\ lines' \in Seq(Line) /\ Len(lines') <= MaxLines /\ Head(lines) \in Line
         /\ \A g \in Geohashes :
              InLines(g)' = {i \in DOMAIN lines' : i + 1 \in InLines(g)}
         /\ \A g \in Geohashes : 1 \in InLines(g) <=> Head(lines) = Message(g)
<1>1. /\ lines \in Seq(Line) /\ Len(lines) \in Nat /\ Len(lines) > 0 /\ MaxLines \in Nat
      /\ Len(lines) <= MaxLines
  BY BoundsAssumption DEF LineTypes
<1>2. lines' \in Seq(Line) /\ Len(lines') = Len(lines) - 1 /\ Head(lines) = lines[1]
  BY <1>1
<1>3. \A i \in 1..Len(lines') : lines'[i] = lines[i + 1] /\ i + 1 \in 1..Len(lines)
  BY <1>1, <1>2
<1>4. DOMAIN lines = 1..Len(lines) /\ DOMAIN lines' = 1..Len(lines')
  BY <1>1, <1>2
<1>5. ASSUME NEW g \in Geohashes
      PROVE  /\ InLines(g)' = {i \in DOMAIN lines' : i + 1 \in InLines(g)}
             /\ 1 \in InLines(g) <=> Head(lines) = Message(g)
  BY <1>1, <1>2, <1>3, <1>4 DEF InLines
<1>6. Head(lines) \in Line
  BY <1>1, <1>2
<1> QED
  BY <1>1, <1>2, <1>5, <1>6
-----------------------------------------------------------------------------
(* Where the event is.                                                       *)

LEMMA PlaceStays ==
  ASSUME OnePlace, seen \subseteq seen', UNCHANGED <<handling, shown>>,
         \A g \in Geohashes : InLines(g)' = InLines(g)
  PROVE  OnePlace'
<1>1. ASSUME NEW g \in Geohashes,
             \E i \in DOMAIN lines : InLines(g) = {i}
      PROVE  \E i \in DOMAIN lines' : InLines(g)' = {i}
  <2>1. PICK i \in DOMAIN lines : InLines(g) = {i}
    BY <1>1
  <2>2. InLines(g)' = {i}
    BY <2>1
  <2>3. i \in DOMAIN lines'
    BY <2>2 DEF InLines
  <2> QED
    BY <2>2, <2>3
<1> QED
  BY <1>1 DEF OnePlace, InOnePlace, Unplaced

(* A line that is no message moves no event. *)
LEMMA NoticeStays ==
  ASSUME LineTypes, OnePlace, NEW g \in Geohashes, NEW line \in {Presence(g), Status(g)},
         Enqueue(line), UNCHANGED <<seen, handling, shown>>
  PROVE  OnePlace' /\ LineTypes'
<1>1. line \in Line /\ \A h \in Geohashes : line # Message(h)
  BY DEF Presence, Status, Message, Line
<1>2. \A h \in Geohashes : InLines(h)' = InLines(h)
  BY <1>1, Enqueues
<1>3. LineTypes'
  BY <1>1, Enqueues DEF LineTypes
<1> QED
  BY <1>2, <1>3, PlaceStays

(* The first line is read, and is shown if it is a message. *)
LEMMA ReadingPlaces ==
  ASSUME LineTypes, OnePlace, ReadLine
  PROVE  OnePlace' /\ LineTypes' /\ listed' \subseteq listed \cup Geohashes
<1> DEFINE line == Head(lines)
<1>1. /\ lines # <<>> /\ lines' = Tail(lines) /\ seen' = seen /\ handling' = handling
      /\ listed' \in {listed, listed \cup {line.geohash}}
      /\ shown' = IF line.type = "message" THEN [shown EXCEPT ![line.geohash] = @ + 1]
                  ELSE shown
  BY DEF ReadLine, taskVars
<1>2. /\ lines' \in Seq(Line) /\ Len(lines') <= MaxLines /\ line \in Line
      /\ \A g \in Geohashes : InLines(g)' = {i \in DOMAIN lines' : i + 1 \in InLines(g)}
      /\ \A g \in Geohashes : 1 \in InLines(g) <=> line = Message(g)
  BY <1>1, Dequeues
<1> HIDE DEF line
<1>3. LineTypes'
  BY <1>1, <1>2 DEF LineTypes, Line
<1>4. ASSUME NEW g \in Geohashes PROVE InOnePlace(g)'
  <2>1. InOnePlace(g) /\ shown[g] \in Nat
    BY DEF OnePlace, LineTypes
  <2>2. CASE line = Message(g)
    <3>1. 1 \in InLines(g)
      BY <1>2, <2>2
    <3>2. /\ g \in seen /\ handling[g] = None /\ shown[g] = 0
          /\ \E i \in DOMAIN lines : InLines(g) = {i}
      BY <2>1, <3>1 DEF InOnePlace, Unplaced
    <3>3. InLines(g) = {1}
      BY <3>1, <3>2
    <3>4. DOMAIN lines' \subseteq Nat \ {0}
      BY <1>2
    <3>5. InLines(g)' = {}
      BY <1>2, <3>3, <3>4
    <3>6. shown'[g] = 1
      BY <1>1, <2>2, <3>2 DEF Message, LineTypes
    <3> QED
      BY <1>1, <3>2, <3>5, <3>6 DEF InOnePlace
  <2>3. CASE line # Message(g)
    <3>1. shown'[g] = shown[g]
      BY <1>1, <1>2, <2>3 DEF Message, Line, LineTypes
    <3>2. 1 \notin InLines(g)
      BY <1>2, <2>3
    <3>3. InLines(g) = {} => InLines(g)' = {}
      BY <1>2
    <3>4. ASSUME NEW i \in DOMAIN lines, InLines(g) = {i}
          PROVE  \E j \in DOMAIN lines' : InLines(g)' = {j}
      <4>1. /\ DOMAIN lines = 1..Len(lines) /\ DOMAIN lines' = 1..Len(lines) - 1
            /\ Len(lines) \in Nat
        BY <1>1 DEF LineTypes
      <4>2. i \in 2..Len(lines)
        BY <3>2, <3>4, <4>1
      <4>3. i - 1 \in DOMAIN lines' /\ \A j \in DOMAIN lines' : j + 1 = i <=> j = i - 1
        BY <4>1, <4>2
      <4>4. InLines(g)' = {i - 1}
        BY <1>2, <3>4, <4>3
      <4> QED
        BY <4>3, <4>4
    <3> QED
      BY <1>1, <2>1, <3>1, <3>3, <3>4 DEF InOnePlace, Unplaced
  <2> QED
    BY <2>2, <2>3
<1> QED
  BY <1>1, <1>2, <1>3, <1>4 DEF OnePlace, Line

(* A task that is the first to see an event handles it ... *)
LEMMA ReceivingPlaces ==
  ASSUME TaskTypes, OnePlace, NEW g \in Geohashes, NEW r \in Relays, LoopReceives(g, r)
  PROVE  OnePlace'
<1>1. /\ g \notin seen /\ seen' = seen \cup {g} /\ handling' = [handling EXCEPT ![g] = r]
      /\ UNCHANGED <<lines, shown>>
  BY DEF LoopReceives, Accept, appVars
<1>2. \A h \in Geohashes : InLines(h)' = InLines(h) /\ (h # g => handling'[h] = handling[h])
  BY <1>1 DEF InLines, TaskTypes
<1>3. handling'[g] # None
  BY <1>1, NoneAssumption DEF TaskTypes
<1>4. Unplaced(g)
  BY <1>1 DEF OnePlace, InOnePlace
<1>5. InOnePlace(g)'
  BY <1>1, <1>2, <1>3, <1>4 DEF InOnePlace, Unplaced
<1>6. ASSUME NEW h \in Geohashes \ {g} PROVE InOnePlace(h)'
  BY <1>1, <1>2 DEF OnePlace, InOnePlace, Unplaced
<1> QED
  BY <1>5, <1>6 DEF OnePlace

(* ... and puts it into one line. *)
LEMMA ShowingPlaces ==
  ASSUME TaskTypes, LineTypes, OnePlace, NEW g \in Geohashes, LoopShows(g)
  PROVE  OnePlace' /\ LineTypes'
<1>1. /\ handling[g] # None /\ Enqueue(Message(g)) /\ handling' = [handling EXCEPT ![g] = None]
      /\ UNCHANGED <<seen, shown>>
  BY DEF LoopShows
<1>2. /\ Message(g) \in Line /\ \A h \in Geohashes : Message(g) = Message(h) <=> g = h
  BY DEF Message, Line
<1>3. /\ lines' \in Seq(Line) /\ Len(lines') <= MaxLines
      /\ \A h \in Geohashes :
           InLines(h)' = IF Message(g) = Message(h) THEN InLines(h) \cup {Len(lines) + 1}
                         ELSE InLines(h)
  BY <1>1, <1>2, Enqueues
<1>4. LineTypes'
  BY <1>1, <1>3 DEF LineTypes
<1>5. /\ g \in seen /\ InLines(g) = {} /\ shown[g] = 0 /\ handling'[g] = None
      /\ \A h \in Geohashes \ {g} : handling'[h] = handling[h]
  BY <1>1 DEF OnePlace, InOnePlace, Unplaced, TaskTypes
<1>6. InOnePlace(g)'
  <2>1. InLines(g)' = {Len(lines) + 1}
    BY <1>3, <1>5
  <2>2. Len(lines) + 1 \in DOMAIN lines'
    BY <2>1 DEF InLines
  <2> QED
    BY <1>1, <1>5, <2>1, <2>2 DEF InOnePlace
<1>7. ASSUME NEW h \in Geohashes \ {g} PROVE InOnePlace(h)'
  <2>1. InLines(h)' = InLines(h)
    BY <1>2, <1>3
  <2>2. ASSUME NEW i \in DOMAIN lines, InLines(h) = {i} PROVE i \in DOMAIN lines'
    BY <2>1, <2>2 DEF InLines
  <2> QED
    BY <1>1, <1>5, <2>1, <2>2 DEF OnePlace, InOnePlace, Unplaced
<1> QED
  BY <1>4, <1>6, <1>7 DEF OnePlace

(* What is in one place is counted at most once. *)
LEMMA OnePlaceIsOnce ==
  ASSUME OnePlace
  PROVE  ShownOnce
<1> SUFFICES ASSUME NEW g \in Geohashes
             PROVE  shown[g] + Cardinality(InLines(g))
                             + (IF handling[g] = None THEN 0 ELSE 1) <= 1
  BY DEF ShownOnce, InLines
<1>1. Cardinality({}) = 0 /\ \A i \in DOMAIN lines : Cardinality({i}) = 1
  BY FS_EmptySet, FS_Singleton
<1> QED
  BY <1>1 DEF OnePlace, InOnePlace, Unplaced
-----------------------------------------------------------------------------
(* The tasks.                                                                *)

LEMMA MovedType ==
  ASSUME NEW count \in Tasks, NEW from, NEW to,
         from \in LoopState => count[from] > 0
  PROVE  /\ Moved(count, from, to) \in Tasks
         /\ to \in LoopState => Moved(count, from, to)[to] > 0 \/ from = to
<1>1. DOMAIN count = LoopState /\ \A s \in LoopState : count[s] \in Nat
  BY DEF Tasks
<1>2. ASSUME NEW s \in LoopState
      PROVE  /\ Moved(count, from, to)[s]
                   = count[s] - (IF s = from THEN 1 ELSE 0) + (IF s = to THEN 1 ELSE 0)
             /\ Moved(count, from, to)[s] \in Nat
  <2>1. /\ Moved(count, from, to)[s]
             = count[s] - (IF s = from THEN 1 ELSE 0) + (IF s = to THEN 1 ELSE 0)
    BY <1>1 DEF Moved
  <2>2. count[s] \in Nat /\ (s = from => count[s] > 0)
    BY <1>1
  <2> QED
    BY <2>1, <2>2
<1>3. Moved(count, from, to) \in Tasks
  BY <1>1, <1>2 DEF Moved, Tasks
<1>4. ASSUME to \in LoopState, from # to PROVE Moved(count, from, to)[to] > 0
  BY <1>1, <1>2, <1>4
<1> QED
  BY <1>3, <1>4

(* A task that moves serves its relay of a joined geohash in its new state,  *)
(* or by handling an event; all others stay where they are.                  *)
LEMMA MovesServe ==
  ASSUME TaskTypes, JoinTypes, JoinedIsServed, NEW g \in Geohashes, NEW r \in Relays,
         NEW from, NEW to, from \in LoopState => loops[g][r][from] > 0, from # to,
         loops' = [loops EXCEPT ![g][r] = Moved(@, from, to)],
         handling' \in [Geohashes -> Relays \cup {None}],
         \A h \in Geohashes, q \in Relays :
            <<h, q>> # <<g, r>> /\ handling[h] = q => handling'[h] = q,
         g \in joined => to \in LoopState \/ handling'[g] = r,
         UNCHANGED <<joined, hearts, main, restoring, sending>>
  PROVE  TaskTypes' /\ JoinedIsServed'
<1>1. loops[g][r] \in Tasks
  BY DEF TaskTypes
<1>2. /\ Moved(loops[g][r], from, to) \in Tasks
      /\ to \in LoopState => Moved(loops[g][r], from, to)[to] > 0
  BY <1>1, MovedType
<1>3. /\ loops' \in [Geohashes -> [Relays -> Tasks]]
      /\ loops'[g][r] = Moved(loops[g][r], from, to)
      /\ \A h \in Geohashes, q \in Relays : <<h, q>> # <<g, r>> => loops'[h][q] = loops[h][q]
  BY <1>2 DEF TaskTypes
<1>4. TaskTypes'
  BY <1>3 DEF TaskTypes
<1>5. ASSUME NEW h \in joined', NEW q \in Relays
      PROVE  Resolving(h)' \/ HasLoop(h, q)'
  <2>1. h \in Geohashes /\ (Resolving(h) \/ HasLoop(h, q))
    BY <1>5 DEF JoinedIsServed, JoinTypes
  <2>2. Resolving(h)' <=> Resolving(h)
    BY DEF Resolving
  <2>3. CASE <<h, q>> = <<g, r>>
    BY <1>2, <1>3, <1>5, <2>1, <2>3 DEF HasLoop
  <2>4. CASE <<h, q>> # <<g, r>>
    BY <1>3, <1>5, <2>1, <2>2, <2>4 DEF HasLoop
  <2> QED
    BY <2>3, <2>4
<1> QED
  BY <1>4, <1>5 DEF JoinedIsServed
(* New tasks serve every relay of their geohash. *)
LEMMA SpawnServes ==
  ASSUME TaskTypes, JoinTypes, JoinedIsServed, NEW g \in Geohashes, Spawn(g),
         UNCHANGED <<handling, joined>>,
         \A h \in Geohashes \ {g} : Resolving(h) => Resolving(h)'
  PROVE  TaskTypes' /\ JoinedIsServed'
<1>1. /\ loops' = WithLoops(g) /\ hearts' = [hearts EXCEPT ![g] = @ + 1]
  BY DEF Spawn
<1>2. ASSUME NEW count \in Tasks
      PROVE  Started(count) \in Tasks /\ Started(count)["asleep"] > 0
  BY DEF Tasks, LoopState, Started
<1> DEFINE more == [r \in Relays |-> Started(loops[g][r])]
<1>3. /\ loops'[g] = more /\ more \in [Relays -> Tasks]
      /\ \A r \in Relays : more[r]["asleep"] > 0
      /\ \A h \in Geohashes \ {g} : loops'[h] = loops[h]
      /\ loops' \in [Geohashes -> [Relays -> Tasks]]
  <2>1. \A r \in Relays : loops[g][r] \in Tasks
    BY DEF TaskTypes
  <2>2. more \in [Relays -> Tasks] /\ \A r \in Relays : more[r]["asleep"] > 0
    BY <1>2, <2>1
  <2>3. loops' = [loops EXCEPT ![g] = more]
    BY <1>1 DEF WithLoops
  <2> HIDE DEF more
  <2> QED
    BY <2>2, <2>3 DEF TaskTypes
<1> HIDE DEF more
<1>4. TaskTypes'
  <2>1. hearts' \in [Geohashes -> Nat]
    BY <1>1 DEF TaskTypes
  <2>2. handling' \in [Geohashes -> Relays \cup {None}]
    BY DEF TaskTypes
  <2> QED
    BY <1>3, <2>1, <2>2 DEF TaskTypes
<1>5. ASSUME NEW h \in joined', NEW q \in Relays PROVE Resolving(h)' \/ HasLoop(h, q)'
  <2>1. h \in Geohashes /\ (Resolving(h) \/ HasLoop(h, q))
    BY <1>5 DEF JoinedIsServed, JoinTypes
  <2>2. CASE h = g
    BY <1>3, <2>2 DEF HasLoop, LoopState
  <2>3. CASE h # g
    BY <1>3, <2>1, <2>3 DEF HasLoop
  <2> QED
    BY <2>2, <2>3
<1> QED
  BY <1>4, <1>5 DEF JoinedIsServed

(* What is joined now has tasks, or will have them. *)
LEMMA JoinServes ==
  ASSUME TaskTypes, JoinedIsServed, UNCHANGED taskVars,
         \A h \in joined' : Resolving(h)' \/ (h \in joined /\ (Resolving(h) => Resolving(h)'))
  PROVE  TaskTypes' /\ JoinedIsServed'
<1>1. TaskTypes'
  BY DEF TaskTypes, taskVars
<1>2. \A h, q : HasLoop(h, q)' <=> HasLoop(h, q)
  BY DEF HasLoop, taskVars
<1> QED
  BY <1>1, <1>2 DEF JoinedIsServed

-----------------------------------------------------------------------------
(* The steps of one task of a relay.                                         *)
TaskStep(g, r) == LoopSteps(g, r) \/ LoopFails(g, r)

LEMMA TaskKeeps ==
  ASSUME IInv, NEW g \in Geohashes, NEW r \in Relays, TaskStep(g, r)
  PROVE  IInv'
<1>1. /\ seen' \in {seen, seen \cup {g}} /\ failures' \in 0..MaxFailures
      /\ UNCHANGED <<joined, hearts, appVars, posted, joinVars>>
  BY BoundsAssumption
  DEF IInv, JoinTypes, TaskStep, LoopSteps, LoopWakes, LoopConnects, LoopTimesOut,
      LoopReceives, LoopFails, Accept
<1>2. JoinTypes' /\ LineTypes'
  BY <1>1 DEF IInv, JoinTypes, LineTypes, appVars, joinVars
<1>3. UNCHANGED <<main, restoring, sending>>
  BY <1>1 DEF joinVars
<1>4. \A h \in Geohashes : handling[h] \in Relays \cup {None}
  BY DEF IInv, TaskTypes
<1>5. TaskTypes' /\ JoinedIsServed'
  <2>1. ASSUME NEW from \in LoopState, NEW to, from # to, MoveLoop(g, r, from, to),
               handling' = handling, g \in joined => to \in LoopState
        PROVE  TaskTypes' /\ JoinedIsServed'
    <3>1. /\ loops[g][r][from] > 0
          /\ loops' = [loops EXCEPT ![g][r] = Moved(@, from, to)]
      BY <2>1 DEF MoveLoop
    <3>2. handling' \in [Geohashes -> Relays \cup {None}]
      BY <2>1 DEF IInv, TaskTypes
    <3> QED
      BY <1>1, <1>3, <2>1, <3>1, <3>2, MovesServe DEF IInv
  <2>2. /\ \A state \in LoopState : IfJoined(g, state) \in {state, "end"}
        /\ g \in joined => \A state : IfJoined(g, state) = state
    BY DEF IfJoined, IsJoined
  <2> USE DEF LoopState
  <2>3. CASE LoopWakes(g, r)
    BY <2>1, <2>2, <2>3 DEF LoopWakes
  <2>4. CASE LoopConnects(g, r)
    BY <2>1, <2>2, <2>4 DEF LoopConnects
  <2>5. CASE LoopTimesOut(g, r)
    <3>1. IfJoined(g, "reading") = "end" /\ g \notin joined
      BY <2>5 DEF LoopTimesOut, IfJoined, IsJoined
    <3> QED
      BY <2>1, <2>5, <3>1 DEF LoopTimesOut
  <2>6. CASE LoopFails(g, r)
    <3>1. PICK from \in {"connecting", "reading"} : MoveLoop(g, r, from, AfterError(g))
      BY <2>6 DEF LoopFails
    <3>2. /\ AfterError(g) \in {"asleep", "end"} /\ (g \in joined => AfterError(g) = "asleep")
          /\ handling' = handling
      BY <2>2, <2>6 DEF AfterError, LoopFails
    <3> QED
      BY <2>1, <3>1, <3>2
  <2>7. CASE LoopReceives(g, r)
    <3>1. /\ loops[g][r]["reading"] > 0 /\ handling[g] = None
          /\ loops' = [loops EXCEPT ![g][r] = Moved(@, "reading", "end")]
          /\ handling' = [handling EXCEPT ![g] = r]
      BY <2>7 DEF LoopReceives, MoveLoop
    <3>2. /\ handling' \in [Geohashes -> Relays \cup {None}] /\ handling'[g] = r
          /\ \A h \in Geohashes : h # g => handling'[h] = handling[h]
      BY <3>1 DEF IInv, TaskTypes
    <3>3. \A h \in Geohashes, q \in Relays :
            <<h, q>> # <<g, r>> /\ handling[h] = q => handling'[h] = q
      BY <3>1, <3>2, NoneAssumption
    <3> QED
      BY <1>1, <1>3, <3>1, <3>2, <3>3, MovesServe DEF IInv
  <2> QED
    BY <2>3, <2>4, <2>5, <2>6, <2>7 DEF TaskStep, LoopSteps
<1>6. OnePlace'
  <2>1. CASE LoopReceives(g, r)
    BY <2>1, ReceivingPlaces DEF IInv
  <2>2. CASE UNCHANGED <<seen, handling, appVars>>
    <3>1. \A h \in Geohashes : InLines(h)' = InLines(h)
      BY <2>2 DEF InLines, appVars
    <3> QED
      BY <2>2, <3>1, PlaceStays DEF IInv, appVars
  <2> QED
    BY <2>1, <2>2 DEF TaskStep, LoopSteps, LoopWakes, LoopConnects, LoopTimesOut, LoopFails
<1> QED
  BY <1>2, <1>5, <1>6 DEF IInv

LEMMA ShowKeeps ==
  ASSUME IInv, NEW g \in Geohashes, LoopShows(g)
  PROVE  IInv'
<1>1. OnePlace' /\ LineTypes'
  BY ShowingPlaces DEF IInv
<1>2. /\ UNCHANGED <<joined, hearts, seen, listed, posted, joinVars, failures>>
      /\ handling[g] # None /\ handling' = [handling EXCEPT ![g] = None]
      /\ loops' = [loops EXCEPT ![g][handling[g]] = Moved(@, "none", IfJoined(g, "reading"))]
  BY DEF LoopShows
<1>3. JoinTypes'
  BY <1>2 DEF IInv, JoinTypes, joinVars
<1>4. /\ handling[g] \in Relays /\ handling' \in [Geohashes -> Relays \cup {None}]
      /\ \A h \in Geohashes : h # g => handling'[h] = handling[h]
  BY <1>2 DEF IInv, TaskTypes
<1>5. g \in joined => IfJoined(g, "reading") \in LoopState
  BY DEF IfJoined, IsJoined, LoopState
<1>6. "none" # IfJoined(g, "reading") /\ "none" \notin LoopState
  BY DEF IfJoined, LoopState
<1>7. UNCHANGED <<joined, hearts, main, restoring, sending>>
  BY <1>2 DEF joinVars
<1>8. TaskTypes' /\ JoinedIsServed'
  <2> DEFINE r == handling[g]
  <2>1. \A h \in Geohashes, q \in Relays :
          <<h, q>> # <<g, r>> /\ handling[h] = q => handling'[h] = q
    BY <1>4
  <2>2. r \in Relays /\ loops' = [loops EXCEPT ![g][r] = Moved(@, "none", IfJoined(g, "reading"))]
    BY <1>2, <1>4
  <2> HIDE DEF r
  <2> QED
    BY <1>4, <1>5, <1>6, <1>7, <2>1, <2>2, MovesServe DEF IInv
<1> QED
  BY <1>1, <1>3, <1>8 DEF IInv
(* A presence line of a heartbeat, or its end. *)
LEMMA BeatKeeps ==
  ASSUME IInv, NEW g \in Geohashes, HeartBeats(g)
  PROVE  IInv'
<1>1. /\ hearts[g] > 0
      /\ UNCHANGED <<joined, loops, handling, seen, listed, shown, posted, joinVars, failures>>
  BY DEF HeartBeats
<1>2. JoinTypes' /\ JoinedIsServed'
  BY <1>1 DEF IInv, JoinTypes, joinVars, JoinedIsServed, Resolving, HasLoop
<1>3. CASE Enqueue(Presence(g)) /\ UNCHANGED hearts
  BY <1>1, <1>2, <1>3, NoticeStays DEF IInv, TaskTypes
<1>4. CASE hearts' = [hearts EXCEPT ![g] = @ - 1] /\ UNCHANGED lines
  <2>1. hearts[g] \in Nat /\ hearts[g] - 1 \in Nat
    BY <1>1 DEF IInv, TaskTypes
  <2>2. hearts' \in [Geohashes -> Nat]
    BY <1>4, <2>1 DEF IInv, TaskTypes
  <2>3. TaskTypes' /\ LineTypes'
    BY <1>1, <1>4, <2>2 DEF IInv, TaskTypes, LineTypes
  <2>4. \A h \in Geohashes : InLines(h)' = InLines(h)
    BY <1>4 DEF InLines
  <2>5. OnePlace'
    BY <1>1, <2>4, PlaceStays DEF IInv
  <2> QED
    BY <1>2, <2>3, <2>5 DEF IInv
<1> QED
  BY <1>3, <1>4 DEF HeartBeats

-----------------------------------------------------------------------------
(* Joins, leaves and sends.                                                  *)

(* Those that start or end no task. *)
LEMMA UserKeepsServed ==
  ASSUME IInv,
         \/ \E g \in Geohashes : UserJoin(g) \/ UserLeave(g) \/ UserSends(g) \/ SendInserts(g)
         \/ RestoreNext \/ RestoreInserts
  PROVE  /\ TaskTypes' /\ JoinedIsServed' /\ JoinTypes'
         /\ UNCHANGED <<taskVars, seen, lines, shown>>
<1>1. JoinTypes
  BY DEF IInv
<1>2. main = Idle => \A g : main # [geohash |-> g, state |-> "resolving"]
  BY DEF Idle
<1>3. UNCHANGED <<taskVars, seen, lines, shown>>
  BY DEF UserJoin, UserLeave, UserSends, SendInserts, RestoreNext, RestoreInserts, appVars
<1>4. ASSUME JoinTypes',
             \A h \in joined' :
               Resolving(h)' \/ (h \in joined /\ (Resolving(h) => Resolving(h)'))
      PROVE  TaskTypes' /\ JoinedIsServed' /\ JoinTypes'
  BY <1>3, <1>4, JoinServes DEF IInv
<1>5. ASSUME NEW g \in Geohashes, UserJoin(g) PROVE TaskTypes' /\ JoinedIsServed' /\ JoinTypes'
  <2>1. /\ main = Idle /\ joins' \in 0..MaxJoins /\ listed' = listed \cup {g}
        /\ \/ g \in joined /\ joined' = joined /\ main' = main
           \/ joined' = joined \cup {g} /\ main' = [geohash |-> g, state |-> "resolving"]
        /\ UNCHANGED <<posted, saved_joins, restoring, sending, seen, failures>>
    BY <1>1, <1>5, BoundsAssumption DEF UserJoin, JoinTypes, IsJoined, Insert
  <2>2. JoinTypes'
    BY <1>1, <2>1 DEF JoinTypes, JoinStates
  <2>3. \A h \in joined' : Resolving(h)' \/ (h \in joined /\ (Resolving(h) => Resolving(h)'))
    BY <1>2, <2>1 DEF Resolving
  <2> QED
    BY <1>4, <2>2, <2>3
<1>6. ASSUME NEW g \in Geohashes, UserLeave(g) PROVE TaskTypes' /\ JoinedIsServed' /\ JoinTypes'
  <2>1. JoinTypes' /\ joined' \subseteq joined /\ UNCHANGED <<main, restoring, sending>>
    BY <1>1, <1>6 DEF UserLeave, JoinTypes, joinVars
  <2> QED
    BY <1>4, <2>1 DEF Resolving
<1>7. ASSUME NEW g \in Geohashes, UserSends(g) PROVE TaskTypes' /\ JoinedIsServed' /\ JoinTypes'
  <2>1. /\ joins' \in 0..MaxJoins /\ sending[g] = "no"
        /\ sending' = [sending EXCEPT ![g] = "spawned"]
        /\ UNCHANGED <<joined, seen, listed, posted, main, saved_joins, restoring, failures>>
    BY <1>1, <1>7, BoundsAssumption DEF UserSends, JoinTypes, appVars
  <2>2. JoinTypes'
    BY <1>1, <2>1 DEF JoinTypes
  <2>3. \A h \in joined : Resolving(h) => Resolving(h)'
    BY <1>1, <2>1 DEF Resolving, JoinTypes
  <2> QED
    BY <1>4, <2>1, <2>2, <2>3
<1>8. ASSUME NEW g \in Geohashes, SendInserts(g)
      PROVE  TaskTypes' /\ JoinedIsServed' /\ JoinTypes'
  <2>1. /\ sending[g] = "spawned"
        /\ \/ joined' = joined /\ sending' = [sending EXCEPT ![g] = "publishing"]
           \/ joined' = joined \cup {g} /\ sending' = [sending EXCEPT ![g] = "resolving"]
        /\ UNCHANGED <<seen, listed, posted, main, saved_joins, restoring, joins, failures>>
    BY <1>8 DEF SendInserts, Insert, appVars
  <2>2. JoinTypes'
    BY <1>1, <2>1 DEF JoinTypes
  <2>3. \A h \in joined' : Resolving(h)' \/ (h \in joined /\ (Resolving(h) => Resolving(h)'))
    BY <1>1, <2>1 DEF Resolving, JoinTypes
  <2> QED
    BY <1>4, <2>2, <2>3
<1>9. CASE RestoreNext
  <2>1. /\ restoring = Idle /\ saved_joins # <<>>
        /\ restoring' = [geohash |-> Head(saved_joins), state |-> "spawned"]
        /\ saved_joins' = Tail(saved_joins)
        /\ UNCHANGED <<joined, seen, listed, posted, main, sending, joins, failures>>
    BY <1>9 DEF RestoreNext, appVars
  <2>2. Head(saved_joins) \in Geohashes /\ saved_joins' \in Seq(Geohashes)
    BY <1>1, <2>1 DEF JoinTypes
  <2>3. JoinTypes'
    BY <1>1, <2>1, <2>2 DEF JoinTypes, JoinStates
  <2>4. \A h \in joined : Resolving(h) => Resolving(h)'
    BY <2>1 DEF Resolving, Idle
  <2> QED
    BY <1>3, <1>4, <2>1, <2>3, <2>4
<1>10. CASE RestoreInserts
  <2>1. /\ restoring.state = "spawned"
        /\ \/ restoring' = Idle /\ joined' = joined
           \/ /\ joined' = joined \cup {restoring.geohash}
              /\ restoring' = [restoring EXCEPT !.state = "resolving"]
        /\ UNCHANGED <<seen, listed, posted, main, saved_joins, sending, joins, failures>>
    BY <1>10 DEF RestoreInserts, Insert, appVars
  <2>2. restoring \in [geohash : Geohashes, state : {"spawned", "resolving", "announcing"}]
    BY <1>1, <2>1 DEF JoinTypes, JoinStates, Idle
  <2>3. JoinTypes'
    BY <1>1, <2>1, <2>2 DEF JoinTypes, JoinStates
  <2>4. \A h \in joined' : Resolving(h)' \/ (h \in joined /\ (Resolving(h) => Resolving(h)'))
    BY <2>1, <2>2 DEF Resolving
  <2> QED
    BY <1>3, <1>4, <2>3, <2>4
<1> QED
  BY <1>3, <1>5, <1>6, <1>7, <1>8, <1>9, <1>10

(* Those that start tasks. *)
LEMMA ResolvedKeepsServed ==
  ASSUME IInv,
         \/ UserJoinResolved \/ RestoreResolved
         \/ \E g \in Geohashes : SendResolved(g)
  PROVE  /\ TaskTypes' /\ JoinedIsServed' /\ JoinTypes'
         /\ UNCHANGED <<handling, seen, lines, shown>>
<1>1. JoinTypes
  BY DEF IInv
<1>2. CASE UserJoinResolved
  <2>1. /\ main \in [geohash : Geohashes, state : {"resolving", "announcing"}]
        /\ main.state = "resolving" /\ main.geohash \in Geohashes /\ Spawn(main.geohash)
        /\ main' = [main EXCEPT !.state = "announcing"]
    BY <1>1, <1>2 DEF UserJoinResolved, JoinTypes, JoinStates, Idle
  <2>2. UNCHANGED <<joined, handling, seen, lines, shown, listed, posted, saved_joins,
                    restoring, sending, joins, failures>>
    BY <1>2 DEF UserJoinResolved, appVars
  <2>3. JoinTypes'
    BY <1>1, <2>1, <2>2 DEF JoinTypes, JoinStates
  <2>4. \A h \in Geohashes \ {main.geohash} : Resolving(h) => Resolving(h)'
    BY <2>1, <2>2 DEF Resolving
  <2> QED
    BY <2>1, <2>2, <2>3, <2>4, SpawnServes DEF IInv
<1>3. CASE RestoreResolved
  <2>1. /\ restoring.state = "resolving" /\ Spawn(restoring.geohash)
        /\ restoring' = [restoring EXCEPT !.state = "announcing"]
    BY <1>3 DEF RestoreResolved
  <2>2. /\ restoring \in [geohash : Geohashes, state : {"spawned", "resolving", "announcing"}]
        /\ restoring.geohash \in Geohashes
    BY <1>1, <2>1 DEF JoinTypes, JoinStates, Idle
  <2>3. UNCHANGED <<joined, handling, seen, lines, shown, listed, posted, main, saved_joins,
                    sending, joins, failures>>
    BY <1>3 DEF RestoreResolved, appVars
  <2>4. JoinTypes'
    BY <1>1, <2>1, <2>2, <2>3 DEF JoinTypes, JoinStates
  <2>5. \A h \in Geohashes \ {restoring.geohash} : Resolving(h) => Resolving(h)'
    BY <2>2, <2>3 DEF Resolving
  <2> QED
    BY <2>1, <2>2, <2>3, <2>4, <2>5, SpawnServes DEF IInv
<1>4. ASSUME NEW g \in Geohashes, SendResolved(g)
      PROVE  /\ TaskTypes' /\ JoinedIsServed' /\ JoinTypes'
             /\ UNCHANGED <<handling, seen, lines, shown>>
  <2>1. Spawn(g) /\ sending' = [sending EXCEPT ![g] = "announcing"]
    BY <1>4 DEF SendResolved
  <2>2. UNCHANGED <<joined, handling, seen, lines, shown, listed, posted, main, saved_joins,
                    restoring, joins, failures>>
    BY <1>4 DEF SendResolved, appVars
  <2>3. JoinTypes'
    BY <1>1, <2>1, <2>2 DEF JoinTypes
  <2>4. \A h \in Geohashes \ {g} : Resolving(h) => Resolving(h)'
    BY <1>1, <2>1, <2>2 DEF Resolving, JoinTypes
  <2> QED
    BY <2>1, <2>2, <2>3, <2>4, SpawnServes DEF IInv
<1> QED
  BY <1>2, <1>3, <1>4

(* The end of a join, or of a send: a line, and no task. *)
LEMMA LineKeeps ==
  ASSUME IInv,
         \/ UserJoinAnnounces \/ RestoreAnnounces
         \/ \E g \in Geohashes : SendAnnounces(g) \/ SendEnds(g)
  PROVE  IInv'
<1>1. JoinTypes
  BY DEF IInv
<1>2. ASSUME NEW g \in Geohashes, NEW line \in {Presence(g), Status(g)}, Enqueue(line),
             UNCHANGED <<joined, taskVars, seen, shown>>, JoinTypes',
             \A h \in joined : Resolving(h) => Resolving(h)'
      PROVE  IInv'
  <2>1. TaskTypes' /\ JoinedIsServed'
    BY <1>2, JoinServes DEF IInv
  <2>2. OnePlace' /\ LineTypes'
    BY <1>2, NoticeStays DEF IInv, taskVars
  <2> QED
    BY <1>2, <2>1, <2>2 DEF IInv
<1>3. CASE UserJoinAnnounces
  <2>1. /\ main.state = "announcing" /\ main.geohash \in Geohashes /\ main' = Idle
        /\ Enqueue(Status(main.geohash))
        /\ UNCHANGED <<joined, taskVars, seen, listed, shown, posted, saved_joins, restoring,
                       sending, joins, failures>>
    BY <1>1, <1>3 DEF UserJoinAnnounces, JoinTypes, JoinStates, Idle
  <2>2. JoinTypes'
    BY <1>1, <2>1 DEF JoinTypes, JoinStates
  <2>3. \A h \in joined : Resolving(h) => Resolving(h)'
    BY <2>1 DEF Resolving
  <2> QED
    BY <1>2, <2>1, <2>2, <2>3
<1>4. CASE RestoreAnnounces
  <2>1. /\ restoring.state = "announcing" /\ restoring.geohash \in Geohashes
        /\ restoring' = Idle /\ Enqueue(Status(restoring.geohash))
        /\ UNCHANGED <<joined, taskVars, seen, listed, shown, posted, main, saved_joins,
                       sending, joins, failures>>
    BY <1>1, <1>4 DEF RestoreAnnounces, JoinTypes, JoinStates, Idle
  <2>2. JoinTypes'
    BY <1>1, <2>1 DEF JoinTypes, JoinStates
  <2>3. \A h \in joined : Resolving(h) => Resolving(h)'
    BY <2>1 DEF Resolving
  <2> QED
    BY <1>2, <2>1, <2>2, <2>3
<1>5. ASSUME NEW g \in Geohashes, SendAnnounces(g) \/ SendEnds(g)
      PROVE  IInv'
  <2>1. /\ \E line \in {Presence(g), Status(g)} : Enqueue(line)
        /\ sending[g] \in {"announcing", "publishing"}
        /\ sending' = [sending EXCEPT ![g] = "publishing"]
              \/ sending' = [sending EXCEPT ![g] = "done"]
        /\ UNCHANGED <<joined, taskVars, seen, listed, shown, posted, main, saved_joins,
                       restoring, joins, failures>>
    BY <1>5 DEF SendAnnounces, SendEnds
  <2>2. JoinTypes'
    BY <1>1, <2>1 DEF JoinTypes
  <2>3. \A h \in joined : Resolving(h) => Resolving(h)'
    BY <1>1, <2>1 DEF Resolving, JoinTypes
  <2> QED
    BY <1>2, <2>1, <2>2, <2>3
<1> QED
  BY <1>3, <1>4, <1>5

-----------------------------------------------------------------------------
(* The invariant.                                                            *)

LEMMA InitIInv == Init => IInv
<1> SUFFICES ASSUME Init PROVE IInv
  OBVIOUS
<1>1. TaskTypes
  BY DEF Init, TaskTypes, Tasks
<1>2. LineTypes
  BY BoundsAssumption DEF Init, LineTypes
<1>3. JoinTypes
  <2>1. listed \in SUBSET Geohashes /\ IsFiniteSet(listed)
    BY NoneAssumption, FS_Subset DEF Init
  <2>2. joins \in Nat /\ joins \in 0..MaxJoins
    BY <2>1, FS_CardinalityType, BoundsAssumption DEF Init
  <2>3. saved_joins \in [1..joins -> Geohashes]
    BY <2>1 DEF Init
  <2>4. saved_joins \in Seq(Geohashes)
    BY <2>2, <2>3
  <2>5. /\ joined = {} /\ seen = {} /\ posted = [g \in Geohashes |-> {}] /\ main = Idle
        /\ restoring = Idle /\ sending = [g \in Geohashes |-> "no"] /\ failures = 0
    BY DEF Init
  <2> QED
    BY <2>1, <2>2, <2>4, <2>5, BoundsAssumption DEF JoinTypes, JoinStates
<1>4. JoinedIsServed
  BY DEF Init, JoinedIsServed
<1>5. OnePlace
  <2>1. lines = <<>> /\ DOMAIN lines = {}
    BY DEF Init
  <2> QED
    BY <2>1 DEF Init, OnePlace, InOnePlace, Unplaced, InLines
<1> QED
  BY <1>1, <1>2, <1>3, <1>4, <1>5 DEF IInv

LEMMA NextIInv == IInv /\ [Next]_vars => IInv'
<1> SUFFICES ASSUME IInv, [Next]_vars PROVE IInv'
  OBVIOUS
<1>1. ASSUME TaskTypes', JoinedIsServed', JoinTypes', UNCHANGED <<handling, seen, lines, shown>>
      PROVE  IInv'
  <2>1. \A h \in Geohashes : InLines(h)' = InLines(h)
    BY <1>1 DEF InLines
  <2>2. OnePlace' /\ LineTypes'
    BY <1>1, <2>1, PlaceStays DEF IInv, LineTypes
  <2> QED
    BY <1>1, <2>2 DEF IInv
<1>2. ASSUME UNCHANGED <<joined, taskVars, main, restoring, sending>>
      PROVE  TaskTypes' /\ JoinedIsServed'
  BY <1>2 DEF IInv, TaskTypes, taskVars, JoinedIsServed, Resolving, HasLoop
<1>3. ASSUME NEW g \in Geohashes, Post(g) PROVE IInv'
  <2>1. JoinTypes'
    BY <1>3 DEF Post, IInv, JoinTypes, appVars, joinVars
  <2> QED
    BY <1>1, <1>2, <1>3, <2>1 DEF Post, taskVars, appVars, joinVars
<1>4. CASE \/ \E g \in Geohashes : UserJoin(g) \/ UserLeave(g) \/ UserSends(g) \/ SendInserts(g)
           \/ RestoreNext \/ RestoreInserts
  BY <1>1, <1>4, UserKeepsServed DEF taskVars
<1>5. CASE UserJoinResolved \/ RestoreResolved \/ \E g \in Geohashes : SendResolved(g)
  BY <1>1, <1>5, ResolvedKeepsServed
<1>6. CASE \/ UserJoinAnnounces \/ RestoreAnnounces
           \/ \E g \in Geohashes : SendAnnounces(g) \/ SendEnds(g)
  BY <1>6, LineKeeps
<1>7. CASE ReadLine
  <2>1. OnePlace' /\ LineTypes' /\ listed' \subseteq listed \cup Geohashes
    BY <1>7, ReadingPlaces DEF IInv
  <2>2. UNCHANGED <<joined, taskVars, seen, posted, joinVars, failures>>
    BY <1>7 DEF ReadLine
  <2>3. JoinTypes'
    BY <2>1, <2>2 DEF IInv, JoinTypes, joinVars
  <2> QED
    BY <1>2, <2>1, <2>2, <2>3 DEF IInv, joinVars
<1>8. CASE UNCHANGED vars
  <2>1. JoinTypes'
    BY <1>8 DEF vars, IInv, JoinTypes, appVars, joinVars
  <2> QED
    BY <1>1, <1>2, <1>8, <2>1 DEF vars, taskVars, appVars, joinVars
<1> QED
  BY <1>3, <1>4, <1>5, <1>6, <1>7, <1>8, TaskKeeps, ShowKeeps, BeatKeeps DEF Next, TaskStep

(* IInv is an invariant of the specification. *)
THEOREM Invariant == Spec => []IInv
<1> QED
  BY InitIInv, NextIInv, PTL DEF Spec

(* The variables of the subscriptions keep their types, and the queue to the *)
(* user interface its capacity.                                              *)
THEOREM TypeCorrect == Spec => []TypeOK
<1>1. IInv => TypeOK
  BY DEF IInv, TaskTypes, LineTypes, JoinTypes, JoinStates, TypeOK, Tasks, Line
<1> QED
  BY <1>1, Invariant, PTL

(* With any number of joins, leaves, sends and failures of connections, a    *)
(* joined geohash whose relays are known has a task for each of them         *)
(* (join_channel, leave_channel, subscribe_loop).                            *)
THEOREM Served == Spec => []JoinedIsServed
<1>1. IInv => JoinedIsServed
  BY DEF IInv
<1> QED
  BY <1>1, Invariant, PTL

(* However many relays and generations of tasks bring an event, it becomes   *)
(* one message at most (seen_event_ids, handle_relay_text).                  *)
THEOREM ShownAtMostOnce == Spec => []ShownOnce
<1>1. IInv => ShownOnce
  BY OnePlaceIsOnce DEF IInv
<1> QED
  BY <1>1, Invariant, PTL
=============================================================================
