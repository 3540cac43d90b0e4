------------------------------ MODULE MapUpdater ------------------------------
(***************************************************************************)
(* The update of the maps by worker threads: MapManager::Update on the     *)
(* world thread, MapUpdater with its ProducerConsumerQueue, the workers,   *)
(* and of Map::Update what passes from map to map: the transports that     *)
(* change maps through the Messager of the new map.                        *)
(*                                                                         *)
(* MapUpdater::_lock guards pending, m_queueLock the queue; a step that    *)
(* holds one of them to its end is one action here.  A thread that waits   *)
(* for a condition is "asleep" until it is notified.                       *)
(***************************************************************************)
EXTENDS Naturals, Sequences, FiniteSets, SequencesExt

CONSTANTS
    Worker,     \* _workerThreads
    Map,        \* the maps that may exist
    Continent,  \* those of CreateContinents, which are never unloaded
    Transport,  \* the transports that cross continents
    MaxTicks,   \* bound: ticks of the world thread
    None        \* nullptr

ASSUME UpdaterAssumption ==
    /\ IsFiniteSet(Map)
    /\ None \notin Map
    /\ Worker # {}
    /\ Continent \subseteq Map
    /\ MaxTicks \in Nat

VARIABLES
    maps,       \* MapManager::i_maps
    clock,      \* World::m_currentMSTime
    at,         \* what the world thread does
    todo,       \* maps its loop over i_maps has still to schedule
    pending,    \* pending_requests
    queue,      \* m_queue: the maps of the requests
    token,      \* _cancelationToken
    shutdown,   \* m_shutdown
    worker,     \* what each worker does
    hand,       \* the map of the request that it has popped
    left,       \* the transports that its loop over m_transports has to update
    on,         \* Map::m_transports
    mail,       \* Map::m_messager: transports that a message brings to the map
    progress    \* Transport::m_pathProgress: the clock it was moved for

worldVars == <<maps, clock, todo>>
workerVars == <<worker, hand, left>>
transportVars == <<on, mail, progress>>
vars == <<worldVars, at, pending, queue, token, shutdown, workerVars,
          transportVars>>

WorldStates == {"tick", "schedule", "wait", "asleep", "unload", "destroy",
                "cancel", "join", "ended"}
WorkerStates == {"pop", "asleep", "got", "run", "ran", "ended"}

TypeOK ==
    /\ maps \subseteq Map
    /\ clock \in Nat
    /\ at \in WorldStates
    /\ todo \subseteq Map
    /\ pending \in Nat
    /\ queue \in Seq(Map)
    /\ token \in BOOLEAN
    /\ shutdown \in BOOLEAN
    /\ worker \in [Worker -> WorkerStates]
    /\ hand \in [Worker -> Map \cup {None}]
    /\ left \in [Worker -> SUBSET Transport]
    /\ on \in [Map -> SUBSET Transport]
    /\ mail \in [Map -> SUBSET Transport]
    /\ progress \in [Transport -> Nat]

\* After Initialize: the continents exist and every transport is on one.
Init ==
    /\ maps = Continent
    /\ clock = 0
    /\ at = "tick"
    /\ todo = {}
    /\ pending = 0
    /\ queue = <<>>
    /\ token = FALSE
    /\ shutdown = FALSE
    /\ worker = [w \in Worker |-> "pop"]
    /\ hand = [w \in Worker |-> None]
    /\ left = [w \in Worker |-> {}]
    /\ \E home \in [Transport -> Continent] :
         on = [m \in Map |-> {t \in Transport : home[t] = m}]
    /\ mail = [m \in Map |-> {}]
    /\ progress = [t \in Transport |-> 0]

-----------------------------------------------------------------------------
(* The world thread.  A definition whose name ends in a remark after "__"  *)
(* is a defect the properties are tried against; no action uses it.        *)

\* CreateMap, from the packet handlers and callbacks of the world thread.
CreateMap(m) ==
    /\ at = "tick"
    /\ m \notin maps
    /\ maps' = maps \cup {m}
    /\ UNCHANGED <<clock, at, todo, pending, queue, token, shutdown, workerVars,
                   transportVars>>

\* World::Update sets the time; MapManager::Update begins its loop.
StartUpdate ==
    /\ at = "tick"
    /\ clock < MaxTicks
    /\ clock' = clock + 1
    /\ todo' = maps
    /\ at' = "schedule"
    /\ UNCHANGED <<maps, pending, queue, token, shutdown, workerVars,
                   transportVars>>

\* Whom notify_one of Push may wake.
Woken__Nobody(state) == {state}
Woken(state) ==
    LET sleepers == {w \in Worker : state[w] = "asleep"}
    IN  IF sleepers = {} THEN {state}
        ELSE {[state EXCEPT ![w] = "pop"] : w \in sleepers}

Requested__NotCounted == pending
Requested == pending + 1

\* schedule_update of a MapUpdateWorker.
ScheduleUpdate(m) ==
    /\ at = "schedule"
    /\ m \in todo
    /\ todo' = todo \ {m}
    /\ pending' = Requested
    /\ queue' = Append(queue, m)
    /\ worker' \in Woken(worker)
    /\ UNCHANGED <<maps, clock, at, token, shutdown, hand, left, transportVars>>

Scheduled ==
    /\ at = "schedule"
    /\ todo = {}
    /\ at' = "wait"
    /\ UNCHANGED <<worldVars, pending, queue, token, shutdown, workerVars,
                   transportVars>>

\* wait(): the loop around the condition variable.
MustWait__OffByOne == pending > 1
MustWait == pending > 0

Wait ==
    /\ at = "wait"
    /\ at' = IF MustWait THEN "asleep" ELSE "unload"
    /\ UNCHANGED <<worldVars, pending, queue, token, shutdown, workerVars,
                   transportVars>>

\* CanUnload is true for an instance that has been empty for some time.
UnloadMap(m) ==
    /\ at = "unload"
    /\ m \in maps \ Continent
    /\ maps' = maps \ {m}
    /\ UNCHANGED <<clock, at, todo, pending, queue, token, shutdown, workerVars,
                   transportVars>>

UpdateDone ==
    /\ at = "unload"
    /\ at' = "tick"
    /\ UNCHANGED <<worldVars, pending, queue, token, shutdown, workerVars,
                   transportVars>>

\* MapManager::UnloadAll at shutdown: the maps first, then deactivate().
UnloadAll ==
    /\ at = "tick"
    /\ maps' = {}
    /\ at' = "destroy"
    /\ UNCHANGED <<clock, todo, pending, queue, token, shutdown, workerVars,
                   transportVars>>

SetToken == token' = TRUE

Deactivate ==
    /\ at = "destroy"
    /\ SetToken
    /\ at' = "cancel"
    /\ UNCHANGED <<worldVars, pending, queue, shutdown, workerVars, transportVars>>

AllWoken ==
    [w \in Worker |-> IF worker[w] = "asleep" THEN "pop" ELSE worker[w]]

\* ProducerConsumerQueue::Cancel.
Cancel ==
    /\ at = "cancel"
    /\ queue' = <<>>
    /\ shutdown' = TRUE
    /\ worker' = AllWoken
    /\ at' = "join"
    /\ UNCHANGED <<worldVars, pending, token, hand, left, transportVars>>

Join ==
    /\ at = "join"
    /\ \A w \in Worker : worker[w] = "ended"
    /\ at' = "ended"
    /\ UNCHANGED <<worldVars, pending, queue, token, shutdown, workerVars,
                   transportVars>>

-----------------------------------------------------------------------------
(* A worker thread.                                                        *)

\* WaitAndPop: sleep, or return with a request, or with none after Cancel.
FallAsleep(w) ==
    /\ worker[w] = "pop"
    /\ queue = <<>>
    /\ ~shutdown
    /\ worker' = [worker EXCEPT ![w] = "asleep"]
    /\ UNCHANGED <<worldVars, at, pending, queue, token, shutdown, hand, left,
                   transportVars>>

Popped(q) == Tail(q)

Pop(w) ==
    /\ worker[w] = "pop"
    /\ queue # <<>>
    /\ ~shutdown
    /\ hand' = [hand EXCEPT ![w] = Head(queue)]
    /\ queue' = Popped(queue)
    /\ worker' = [worker EXCEPT ![w] = "got"]
    /\ UNCHANGED <<worldVars, at, pending, token, shutdown, left, transportVars>>

PopNothing(w) ==
    /\ worker[w] = "pop"
    /\ shutdown
    /\ worker' = [worker EXCEPT ![w] = "got"]
    /\ UNCHANGED <<worldVars, at, pending, queue, token, shutdown, hand, left,
                   transportVars>>

SpuriousWakeUp(w) ==
    /\ worker[w] = "asleep"
    /\ worker' = [worker EXCEPT ![w] = "pop"]
    /\ UNCHANGED <<worldVars, at, pending, queue, token, shutdown, hand, left,
                   transportVars>>

\* The request, if any, is deleted.
EndWorker(w) ==
    /\ worker[w] = "got"
    /\ token
    /\ worker' = [worker EXCEPT ![w] = "ended"]
    /\ hand' = [hand EXCEPT ![w] = None]
    /\ UNCHANGED <<worldVars, at, pending, queue, token, shutdown, left,
                   transportVars>>

\* Map::Update: the messages, then the transports of the map.
Arrived__Late(m) == on[m]
Arrived(m) == on[m] \cup mail[m]

StartMapUpdate(w) ==
    LET m == hand[w] IN
    /\ worker[w] = "got"
    /\ ~token
    /\ m # None
    /\ on' = [on EXCEPT ![m] = @ \cup mail[m]]
    /\ mail' = [mail EXCEPT ![m] = {}]
    /\ left' = [left EXCEPT ![w] = Arrived(m)]
    /\ worker' = [worker EXCEPT ![w] = "run"]
    /\ UNCHANGED <<worldVars, at, pending, queue, token, shutdown, hand, progress>>

Stepped(w, t) == [left EXCEPT ![w] = @ \ {t}]

\* Transport::Update returns at once when the transport has come from another
\* map that was updated in the same tick.
UpdateTransport(w, t) ==
    /\ worker[w] = "run"
    /\ t \in left[w]
    /\ left' = Stepped(w, t)
    /\ progress' = [progress EXCEPT ![t] = clock]
    /\ UNCHANGED <<worldVars, at, pending, queue, token, shutdown, worker, hand,
                   on, mail>>

\* TeleportTransport to another continent.
Posted__Copy(m, t) == on
Posted(m, t) == [on EXCEPT ![m] = @ \ {t}]

TeleportTransport(w, t, m) ==
    /\ worker[w] = "run"
    /\ t \in left[w]
    /\ progress[t] < clock
    /\ m \in maps \cap Continent
    /\ m # hand[w]
    /\ left' = Stepped(w, t)
    /\ progress' = [progress EXCEPT ![t] = clock]
    /\ on' = Posted(hand[w], t)
    /\ mail' = [mail EXCEPT ![m] = @ \cup {t}]
    /\ UNCHANGED <<worldVars, at, pending, queue, token, shutdown, worker, hand>>

EndMapUpdate(w) ==
    /\ worker[w] = "run"
    /\ left[w] = {}
    /\ worker' = [worker EXCEPT ![w] = "ran"]
    /\ UNCHANGED <<worldVars, at, pending, queue, token, shutdown, hand, left,
                   transportVars>>

Notified__Nobody == at
Notified == IF at = "asleep" THEN "wait" ELSE at

\* update_finished() wakes the world thread; the request is deleted.
UpdateFinished(w) ==
    /\ worker[w] = "ran"
    /\ pending' = pending - 1
    /\ at' = Notified
    /\ worker' = [worker EXCEPT ![w] = "pop"]
    /\ hand' = [hand EXCEPT ![w] = None]
    /\ UNCHANGED <<worldVars, queue, token, shutdown, left, transportVars>>

-----------------------------------------------------------------------------
WorldStep ==
    \/ \E m \in Map : ScheduleUpdate(m)
    \/ Scheduled \/ Wait \/ UpdateDone
    \/ Deactivate \/ Cancel \/ Join

WorkerStep(w) ==
    \/ FallAsleep(w) \/ Pop(w) \/ PopNothing(w) \/ EndWorker(w)
    \/ StartMapUpdate(w) \/ EndMapUpdate(w) \/ UpdateFinished(w)
    \/ \E t \in Transport :
         \/ UpdateTransport(w, t)
         \/ \E m \in Map : TeleportTransport(w, t, m)

Stopped == at = "ended" /\ UNCHANGED vars

Next ==
    \/ \E m \in Map : CreateMap(m) \/ UnloadMap(m)
    \/ StartUpdate
    \/ UnloadAll
    \/ WorldStep
    \/ \E w \in Worker : WorkerStep(w) \/ SpuriousWakeUp(w)
    \/ Stopped

Spec == Init /\ [][Next]_vars

\* Every thread that can go on does so at last.
Fairness == WF_vars(WorldStep) /\ \A w \in Worker : WF_vars(WorkerStep(w))

FairSpec == Spec /\ Fairness

-----------------------------------------------------------------------------
(* Properties.                                                             *)

Busy == {w \in Worker : hand[w] # None}
Held == {hand[w] : w \in Busy}
InFlight == Range(queue) \cup Held

\* A map is updated by one thread at a time: it is requested once, and no two
\* workers hold it.
OneThreadPerMap ==
    /\ IsInjective(queue)
    /\ Range(queue) \cap Held = {}
    /\ \A v, w \in Busy : hand[v] = hand[w] => v = w

\* While the world thread runs anything but the loop that schedules the maps
\* and the wait after it, no worker touches a map.
WorldAlone ==
    at \notin {"schedule", "wait", "asleep"} => InFlight = {}

\* Requests only name maps that exist.
RequestsValid == InFlight \subseteq maps

\* With requests in the queue, not all workers sleep; and the world thread
\* sleeps only while there is something to wait for.
NoLostWakeup ==
    /\ queue # <<>> => \E w \in Worker : worker[w] # "asleep"
    /\ at = "asleep" => pending > 0

\* WaitAndPop returns without a request only when the worker has to end.
NoNullRequest == \A w \in Worker : worker[w] = "got" => token \/ hand[w] # None

\* A transport is in one place: on a map or in a message to one.
Places(t) == {m \in Map : t \in on[m]} \cup {m \in Map : t \in mail[m]}
TransportOwned ==
    \A t \in Transport :
        /\ \E m \in Map : Places(t) = {m}
        /\ \A m \in Map : t \notin on[m] \cap mail[m]

\* A thread updates only transports of its own map.
TransportExclusive ==
    \A w \in Worker : left[w] # {} => hand[w] # None /\ left[w] \subseteq on[hand[w]]

\* When the wait is over every transport has been moved to this tick, also
\* those that have changed maps in it or in the tick before.
AllAdvanced ==
    at = "unload" => \A t \in Transport : progress[t] = clock

\* Every update of the maps comes to an end, and so does the shutdown.
UpdateEnds ==
    /\ at = "schedule" ~> at = "tick"
    /\ at = "destroy" ~> at = "ended"

\* What MapManager::Update promises (MapTick): the maps that the tick has still
\* to update, and those that a worker is updating.
Due == todo \cup Range(queue) \cup {hand[w] : w \in {v \in Busy : worker[v] = "got"}}
Running == {hand[w] : w \in {v \in Busy : worker[v] = "run"}}

Tick == INSTANCE MapTick WITH alive <- maps, due <- Due, running <- Running
ImplementsMapTick == Tick!TickSpec

=============================================================================
