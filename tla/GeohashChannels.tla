---------------------------- MODULE GeohashChannels ----------------------------
(***************************************************************************)
(* The subscriptions of the Nostr client (nostr_geo.rs).  join_channel      *)
(* starts one task for each relay and one for the presence of the user;     *)
(* leave_channel only takes the geohash out of a set that the tasks look    *)
(* into when they next wake.  Joins come from the main loop (/j), from the  *)
(* task that restores the saved channels, and from every task that sends a  *)
(* message, so a geohash may have several generations of tasks at once.     *)
(* A join ends with a line to the user interface, whose queue is bounded:   *)
(* a task waits for room, and so does the main loop, though nobody but it   *)
(* takes lines out.                                                         *)
(*                                                                          *)
(* In each geohash others publish one event, which any relay may store.     *)
(* Every geohash is one of a length that broadcasts presence.               *)
(***************************************************************************)
EXTENDS Naturals, Sequences, FiniteSets

CONSTANTS
    Geohashes,
    Relays,         \* subscribe_relays of each geohash
    None,
    MaxJoins,       \* bound: saved channels, /j commands and messages
    MaxFailures,    \* bound: connections that fail or end
    MaxLines        \* capacity of ui_tx

ASSUME NoneAssumption == None \notin Geohashes \cup Relays /\ IsFiniteSet(Geohashes)
ASSUME BoundsAssumption ==
    MaxJoins \in Nat /\ MaxFailures \in Nat /\ MaxLines \in Nat \ {0}

VARIABLES
    joined,         \* joined_geohashes
    loops,          \* loops[g][r][s]: subscribe_loop tasks in state s
    hearts,         \* hearts[g]: presence_heartbeat_loop tasks
    seen,           \* geohashes whose event is in seen_event_ids
    handling,       \* handling[g]: the relay whose task handles the event of g
    lines,          \* ui_rx
    posted,         \* posted[g]: relays that store the event of g
    main,           \* the join, of a /j, that the main loop awaits: [geohash, state]
    saved_joins,    \* pending_saved_geohash_joins
    restoring,      \* active_saved_geohash_join: [geohash, state]
    sending,        \* sending[g]: a spawned send_message
    listed,         \* app.channels
    shown,          \* shown[g]: how often the event of g became a message
    joins, failures \* for the bounds

taskVars == <<loops, hearts, handling>>
joinVars == <<main, saved_joins, restoring, sending, joins>>
appVars  == <<lines, listed, shown>>
vars == <<joined, taskVars, seen, appVars, posted, joinVars, failures>>

LoopState == {"asleep", "connecting", "reading"}
Status(g)   == [geohash |-> g, type |-> "system"]
Presence(g) == [geohash |-> g, type |-> "presence"]
Message(g)  == [geohash |-> g, type |-> "message"]

(* The task list with one task moved from a state to another; "end" ends it. *)
Moved(count, from, to) ==
    [s \in DOMAIN count |->
        count[s] - (IF s = from THEN 1 ELSE 0) + (IF s = to THEN 1 ELSE 0)]

IsJoined(g) == g \in joined

Idle == [geohash |-> None, state |-> "idle"]

(* A line is sent when there is room; until then its sender waits.           *)
EnqueueUnbounded(line) == lines' = Append(lines, line)      \* mutant: always room
Enqueue(line) == Len(lines) < MaxLines /\ lines' = Append(lines, line)

(* join_channel, first part: the geohash is inserted, or it was there.       *)
Insert(g) == joined' = joined \cup {g}

(* join_channel, second part, once the relays are known                      *)
Started(count) == [count EXCEPT !["asleep"] = @ + 1]
WithLoops(g) == [loops EXCEPT ![g] = [r \in Relays |-> Started(loops[g][r])]]
Spawn(g) ==
    /\ loops' = WithLoops(g)
    /\ hearts' = [hearts EXCEPT ![g] = @ + 1]

(* Joins that inserted a geohash and do not know its relays yet.             *)
Resolving(g) ==
    \/ [geohash |-> g, state |-> "resolving"] \in {main, restoring}
    \/ sending[g] = "resolving"

-----------------------------------------------------------------------------
Init ==
    /\ joined = {} /\ seen = {}
    /\ loops = [g \in Geohashes |-> [r \in Relays |-> [s \in LoopState |-> 0]]]
    /\ hearts = [g \in Geohashes |-> 0]
    /\ handling = [g \in Geohashes |-> None]
    /\ lines = <<>> /\ shown = [g \in Geohashes |-> 0]
    /\ posted = [g \in Geohashes |-> {}]
    /\ main = Idle /\ restoring = Idle
    /\ sending = [g \in Geohashes |-> "no"]
    /\ listed \in SUBSET Geohashes
    /\ joins = Cardinality(listed) /\ joins <= MaxJoins /\ failures = 0
    /\ saved_joins \in {order \in [1..joins -> listed] :
                          \A g \in listed : \E i \in 1..joins : order[i] = g}

(* Others publish the event; each relay may take it.                         *)
Post(g) ==
    /\ posted[g] = {}
    /\ \E rs \in SUBSET Relays \ {{}} : posted' = [posted EXCEPT ![g] = rs]
    /\ UNCHANGED <<joined, taskVars, seen, appVars, joinVars, failures>>

-----------------------------------------------------------------------------
(* The main loop, which does nothing else while it awaits a join.            *)

UserJoin(g) ==
    /\ main = Idle /\ joins < MaxJoins
    /\ joins' = joins + 1
    /\ listed' = listed \cup {g}
    /\ IF IsJoined(g)
       THEN UNCHANGED <<joined, main>>
       ELSE Insert(g) /\ main' = [geohash |-> g, state |-> "resolving"]
    /\ UNCHANGED <<taskVars, seen, lines, shown, posted, saved_joins, restoring, sending,
                   failures>>

UserJoinResolved ==
    /\ main.state = "resolving"
    /\ Spawn(main.geohash) /\ main' = [main EXCEPT !.state = "announcing"]
    /\ UNCHANGED <<joined, handling, seen, appVars, posted, saved_joins, restoring, sending,
                   joins, failures>>

(* The status line that ends a join.                                         *)
UserJoinAnnounces ==
    /\ main.state = "announcing"
    /\ Enqueue(Status(main.geohash)) /\ main' = Idle
    /\ UNCHANGED <<joined, taskVars, seen, listed, shown, posted, saved_joins, restoring,
                   sending, joins, failures>>

(* /leave: leave_channel and leave_geohash_channel.  A saved join that has   *)
(* not begun is not taken back.                                              *)
UserLeave(g) ==
    /\ main = Idle /\ g \in listed
    /\ joined' = joined \ {g}
    /\ listed' = listed \ {g}
    /\ UNCHANGED <<taskVars, seen, lines, shown, posted, joinVars, failures>>

(* A typed line: the task sends it later, and joins first.                   *)
UserSends(g) ==
    /\ main = Idle /\ g \in listed /\ sending[g] = "no"
    /\ joins < MaxJoins /\ joins' = joins + 1
    /\ sending' = [sending EXCEPT ![g] = "spawned"]
    /\ UNCHANGED <<joined, taskVars, seen, appVars, posted, main, saved_joins, restoring,
                   failures>>

(* A line of a geohash lists it again, if it was left meanwhile; a status    *)
(* line is only displayed.                                                   *)
ReadLine ==
    /\ main = Idle /\ lines # <<>>
    /\ LET line == Head(lines)
       IN  /\ listed' = IF line.type = "system" THEN listed
                        ELSE listed \cup {line.geohash}
           /\ shown' = IF line.type = "message"
                       THEN [shown EXCEPT ![line.geohash] = @ + 1] ELSE shown
    /\ lines' = Tail(lines)
    /\ UNCHANGED <<joined, taskVars, seen, posted, joinVars, failures>>

(* The loop's top: one saved channel after the other is joined by a task.    *)
RestoreNext ==
    /\ main = Idle /\ restoring = Idle /\ saved_joins # <<>>
    /\ restoring' = [geohash |-> Head(saved_joins), state |-> "spawned"]
    /\ saved_joins' = Tail(saved_joins)
    /\ UNCHANGED <<joined, taskVars, seen, appVars, posted, main, sending, joins,
                   failures>>

-----------------------------------------------------------------------------
(* The task that restores a channel.                                         *)

RestoreInserts ==
    /\ restoring.state = "spawned"
    /\ IF IsJoined(restoring.geohash)
       THEN restoring' = Idle /\ UNCHANGED joined
       ELSE Insert(restoring.geohash) /\ restoring' = [restoring EXCEPT !.state = "resolving"]
    /\ UNCHANGED <<taskVars, seen, appVars, posted, main, saved_joins, sending, joins, failures>>

RestoreResolved ==
    /\ restoring.state = "resolving"
    /\ Spawn(restoring.geohash) /\ restoring' = [restoring EXCEPT !.state = "announcing"]
    /\ UNCHANGED <<joined, handling, seen, appVars, posted, main, saved_joins, sending, joins,
                   failures>>

RestoreAnnounces ==
    /\ restoring.state = "announcing"
    /\ Enqueue(Status(restoring.geohash)) /\ restoring' = Idle
    /\ UNCHANGED <<joined, taskVars, seen, listed, shown, posted, main, saved_joins, sending,
                   joins, failures>>

-----------------------------------------------------------------------------
(* A task that sends a message.                                              *)

SendInserts(g) ==
    /\ sending[g] = "spawned"
    /\ IF IsJoined(g)
       THEN sending' = [sending EXCEPT ![g] = "publishing"] /\ UNCHANGED joined
       ELSE Insert(g) /\ sending' = [sending EXCEPT ![g] = "resolving"]
    /\ UNCHANGED <<taskVars, seen, appVars, posted, main, saved_joins, restoring, joins, failures>>

SendResolved(g) ==
    /\ sending[g] = "resolving"
    /\ Spawn(g) /\ sending' = [sending EXCEPT ![g] = "announcing"]
    /\ UNCHANGED <<joined, handling, seen, appVars, posted, main, saved_joins, restoring, joins,
                   failures>>

SendAnnounces(g) ==
    /\ sending[g] = "announcing"
    /\ Enqueue(Status(g)) /\ sending' = [sending EXCEPT ![g] = "publishing"]
    /\ UNCHANGED <<joined, taskVars, seen, listed, shown, posted, main, saved_joins, restoring,
                   joins, failures>>

(* Once a relay took it the user is present; if every relay refused it, a    *)
(* status line says so.                                                      *)
SendEnds(g) ==
    /\ sending[g] = "publishing"
    /\ \E line \in {Presence(g), Status(g)} : Enqueue(line)
    /\ sending' = [sending EXCEPT ![g] = "done"]
    /\ UNCHANGED <<joined, taskVars, seen, listed, shown, posted, main, saved_joins, restoring,
                   joins, failures>>

-----------------------------------------------------------------------------
(* subscribe_loop.  A task that finds the geohash not joined ends.           *)

StaysConnected(g, state) == state   \* mutant: is_joined is not asked
IfJoined(g, state) == IF IsJoined(g) THEN state ELSE "end"
EndsOnError(g) == "end"             \* mutant: an error ends the task
AfterError(g) == IfJoined(g, "asleep")

MoveLoop(g, r, from, to) ==
    /\ loops[g][r][from] > 0
    /\ loops' = [loops EXCEPT ![g][r] = Moved(@, from, to)]

LoopWakes(g, r) ==
    /\ MoveLoop(g, r, "asleep", IfJoined(g, "connecting"))
    /\ UNCHANGED <<joined, hearts, handling, seen, appVars, posted, joinVars, failures>>

LoopConnects(g, r) ==
    /\ MoveLoop(g, r, "connecting", IfJoined(g, "reading"))
    /\ UNCHANGED <<joined, hearts, handling, seen, appVars, posted, joinVars, failures>>

(* A connection fails, times out or ends.                                    *)
LoopFails(g, r) ==
    /\ failures < MaxFailures /\ failures' = failures + 1
    /\ \E from \in {"connecting", "reading"} :
         MoveLoop(g, r, from, AfterError(g))
    /\ UNCHANGED <<joined, hearts, handling, seen, appVars, posted, joinVars>>

(* Two seconds without a message: is_joined is asked again.                  *)
LoopTimesOut(g, r) ==
    /\ ~IsJoined(g)
    /\ MoveLoop(g, r, "reading", IfJoined(g, "reading"))
    /\ UNCHANGED <<joined, hearts, handling, seen, appVars, posted, joinVars, failures>>

(* handle_relay_text: the first task to insert the event's id goes on with   *)
(* it, for the others the connection stays as it is.                         *)
AcceptAlways(g) == UNCHANGED seen   \* mutant: nothing is remembered
Accept(g) == g \notin seen /\ seen' = seen \cup {g}
LoopReceives(g, r) ==
    /\ r \in posted[g] /\ handling[g] = None
    /\ Accept(g)
    /\ MoveLoop(g, r, "reading", "end")
    /\ handling' = [handling EXCEPT ![g] = r]
    /\ UNCHANGED <<joined, hearts, appVars, posted, joinVars, failures>>

(* Its lines, taken as one, reach the user interface, joined or not.         *)
LoopShows(g) ==
    /\ handling[g] # None
    /\ Enqueue(Message(g))
    /\ loops' = [loops EXCEPT ![g][handling[g]] = Moved(@, "none", IfJoined(g, "reading"))]
    /\ handling' = [handling EXCEPT ![g] = None]
    /\ UNCHANGED <<joined, hearts, seen, listed, shown, posted, joinVars, failures>>

-----------------------------------------------------------------------------
(* presence_heartbeat_loop.  A beat no relay takes changes nothing.          *)

HeartBeats(g) ==
    /\ hearts[g] > 0
    /\ IF IsJoined(g)
       THEN Enqueue(Presence(g)) /\ UNCHANGED hearts
       ELSE hearts' = [hearts EXCEPT ![g] = @ - 1] /\ UNCHANGED lines
    /\ UNCHANGED <<joined, loops, handling, seen, listed, shown, posted, joinVars,
                   failures>>

-----------------------------------------------------------------------------
LoopSteps(g, r) ==
    LoopWakes(g, r) \/ LoopConnects(g, r) \/ LoopTimesOut(g, r) \/ LoopReceives(g, r)

Next ==
    \/ \E g \in Geohashes :
         \/ Post(g) \/ UserJoin(g) \/ UserLeave(g) \/ UserSends(g)
         \/ SendInserts(g) \/ SendResolved(g) \/ SendAnnounces(g) \/ SendEnds(g)
         \/ LoopShows(g) \/ HeartBeats(g)
         \/ \E r \in Relays : LoopSteps(g, r) \/ LoopFails(g, r)
    \/ UserJoinResolved \/ UserJoinAnnounces \/ ReadLine
    \/ RestoreNext \/ RestoreInserts \/ RestoreResolved \/ RestoreAnnounces

Spec == Init /\ [][Next]_vars

(* The runtime runs every task and timer, the main loop goes round, and a    *)
(* relay sends what it stores.  Those who wait for room in ui_tx are served  *)
(* in turn, hence SF for a task that has an event: it gets room if the main  *)
(* loop makes some again and again.  For those with other lines WF will do.  *)
(* The user and the failures are not fair; the bound on failures makes every *)
(* relay reachable at last.                                                  *)
Fairness ==
    /\ WF_vars(UserJoinResolved) /\ WF_vars(UserJoinAnnounces) /\ WF_vars(ReadLine)
    /\ WF_vars(RestoreNext) /\ WF_vars(RestoreInserts)
    /\ WF_vars(RestoreResolved) /\ WF_vars(RestoreAnnounces)
    /\ \A g \in Geohashes :
         /\ WF_vars(SendInserts(g)) /\ WF_vars(SendResolved(g))
         /\ WF_vars(SendAnnounces(g)) /\ WF_vars(SendEnds(g))
         /\ SF_vars(LoopShows(g)) /\ WF_vars(HeartBeats(g))
         /\ \A r \in Relays :
              /\ WF_vars(LoopWakes(g, r)) /\ WF_vars(LoopConnects(g, r))
              /\ WF_vars(LoopTimesOut(g, r)) /\ WF_vars(LoopReceives(g, r))

FairSpec == Spec /\ Fairness

-----------------------------------------------------------------------------
(* Type correctness.                                                         *)
TypeOK ==
    /\ joined \subseteq Geohashes /\ seen \subseteq Geohashes
    /\ loops \in [Geohashes -> [Relays -> [LoopState -> Nat]]]
    /\ hearts \in [Geohashes -> Nat]
    /\ handling \in [Geohashes -> Relays \cup {None}]
    /\ lines \in Seq([geohash : Geohashes, type : {"presence", "message", "system"}])
    /\ Len(lines) <= MaxLines
    /\ posted \in [Geohashes -> SUBSET Relays]
    /\ main \in {Idle} \cup [geohash : Geohashes, state : {"resolving", "announcing"}]
    /\ saved_joins \in Seq(Geohashes)
    /\ restoring \in {Idle} \cup
         [geohash : Geohashes, state : {"spawned", "resolving", "announcing"}]
    /\ sending \in [Geohashes ->
         {"no", "spawned", "resolving", "announcing", "publishing", "done"}]
    /\ listed \subseteq Geohashes
    /\ shown \in [Geohashes -> Nat]
    /\ joins \in 0..MaxJoins /\ failures \in 0..MaxFailures

(* A joined geohash whose relays are known has a task for each of them, so   *)
(* no relay is lost for good: neither by an error, nor by a leave and a join *)
(* while the tasks of the first join sleep, nor by two joins at once         *)
(* (join_channel, subscribe_loop).                                           *)
HasLoop(g, r) ==
    handling[g] = r \/ \E s \in LoopState : loops[g][r][s] > 0
JoinedIsServed ==
    \A g \in joined, r \in Relays : Resolving(g) \/ HasLoop(g, r)

(* An event becomes at most one message, however many relays, connections    *)
(* and generations of tasks bring it (seen_event_ids).                       *)
ShownOnce ==
    \A g \in Geohashes :
      shown[g] + Cardinality({i \in DOMAIN lines : lines[i] = Message(g)})
               + (IF handling[g] = None THEN 0 ELSE 1) <= 1

(* The main loop waits for room that only it could make, and does so for     *)
(* good: the status line of its own join meets a full queue.                 *)
WaitsForItself == main.state = "announcing" /\ Len(lines) = MaxLines

(* The tasks of a geohash that stays left all end, unless the main loop is   *)
(* stuck with a full queue, into which one of them may have to put a line.   *)
NoTasks(g) == \A r \in Relays : ~HasLoop(g, r) /\ hearts[g] = 0
StopsAfterLeave ==
    \A g \in Geohashes : <>[](g \notin joined) => <>[](NoTasks(g) \/ WaitsForItself)

(* An event that a relay stores is shown, unless the geohash is left, or the *)
(* main loop, in a join of its own, comes to wait for itself.                *)
PostedIsShown ==
    \A g \in Geohashes :
      (g \in joined /\ posted[g] # {}) ~> (shown[g] = 1 \/ g \notin joined \/ WaitsForItself)
=============================================================================
