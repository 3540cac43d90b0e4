-------------------------- MODULE MapUpdater_proofs ---------------------------
(***************************************************************************)
(* Proofs about MapUpdater, for every set of workers, maps and transports. *)
(***************************************************************************)
EXTENDS MapUpdater, FiniteSetTheorems, TLAPS

\* Requests, the maps they name, and the states of the threads.
Scheduling ==
    /\ OneThreadPerMap
    /\ pending = Cardinality(InFlight)
    /\ InFlight \cap todo = {}
    /\ InFlight \cup todo \subseteq maps
    /\ todo # {} => at = "schedule"
    /\ WorldAlone

Threads ==
    /\ \A w \in Worker :
         /\ worker[w] \in {"run", "ran"} => hand[w] # None
         /\ worker[w] \in {"pop", "asleep", "ended"} => hand[w] = None
         /\ worker[w] = "got" /\ hand[w] = None => shutdown
    /\ token <=> at \in {"cancel", "join", "ended"}
    /\ shutdown => token

\* Where the transports are, and which of them wait to be moved in this tick.
Ownership ==
    /\ at \in {"tick", "schedule", "wait", "asleep", "unload"} => Continent \subseteq maps
    /\ \A t \in Transport :
         \E m \in Continent : Places(t) = {m} /\ t \notin on[m] \cap mail[m]
    /\ \A w \in Worker :
         IF worker[w] = "run" THEN left[w] \subseteq on[hand[w]] ELSE left[w] = {}

ToMove(t) ==
    \/ \E m \in Due : t \in on[m] \cup mail[m]
    \/ \E w \in Worker : worker[w] = "run" /\ t \in left[w]

Advance ==
    \A t \in Transport : progress[t] = clock \/ ToMove(t)

Inductive == TypeOK /\ Scheduling /\ Threads /\ Ownership /\ Advance

-----------------------------------------------------------------------------
(* The queue, and the requests in the hands of the workers.                *)

LEMMA RangeAppend ==
    ASSUME NEW S, NEW q \in Seq(S), NEW m \in S
    PROVE  /\ Range(Append(q, m)) = Range(q) \cup {m}
           /\ IsInjective(q) /\ m \notin Range(q) => IsInjective(Append(q, m))
<1>1. /\ Len(q) \in Nat
      /\ DOMAIN Append(q, m) = 1..Len(q) + 1
      /\ DOMAIN q = 1..Len(q)
      /\ \A i \in 1..Len(q) : Append(q, m)[i] = q[i]
      /\ Append(q, m)[Len(q) + 1] = m
  OBVIOUS
<1>2. Range(Append(q, m)) = Range(q) \cup {m}
  BY <1>1 DEF Range
<1>3. ASSUME IsInjective(q), m \notin Range(q),
             NEW i \in 1..Len(q) + 1, NEW j \in 1..Len(q) + 1,
             Append(q, m)[i] = Append(q, m)[j]
      PROVE  i = j
  <2>1. \A k \in 1..Len(q) : q[k] \in Range(q)
    BY <1>1 DEF Range
  <2>2. CASE i \in 1..Len(q) /\ j \in 1..Len(q)
    BY <1>1, <1>3, <2>2 DEF IsInjective
  <2>3. CASE i = Len(q) + 1 \/ j = Len(q) + 1
    BY <1>1, <1>3, <2>1, <2>3
  <2> QED
    BY <1>1, <2>2, <2>3
<1> QED
  BY <1>1, <1>2, <1>3 DEF IsInjective

LEMMA RangeTail ==
    ASSUME NEW S, NEW q \in Seq(S), q # <<>>, IsInjective(q)
    PROVE  /\ Head(q) \in S
           /\ Range(q) = {Head(q)} \cup Range(Tail(q))
           /\ Head(q) \notin Range(Tail(q))
           /\ IsInjective(Tail(q))
<1>1. /\ Len(q) \in Nat /\ Len(q) > 0
      /\ Head(q) = q[1]
      /\ Tail(q) \in Seq(S)
      /\ DOMAIN Tail(q) = 1..Len(q) - 1
      /\ DOMAIN q = 1..Len(q)
      /\ \A i \in 1..Len(q) - 1 : Tail(q)[i] = q[i + 1]
  OBVIOUS
<1>2. \A i \in 1..Len(q) : i = 1 \/ (i - 1 \in 1..Len(q) - 1 /\ q[i] = Tail(q)[i - 1])
  BY <1>1
<1>3. Range(q) = {Head(q)} \cup Range(Tail(q))
  <2>1. ASSUME NEW i \in 1..Len(q)
        PROVE  q[i] \in {Head(q)} \cup Range(Tail(q))
    <3>1. CASE i = 1
      BY <1>1, <3>1
    <3>2. CASE i # 1
      <4>1. i - 1 \in DOMAIN Tail(q) /\ q[i] = Tail(q)[i - 1]
        BY <1>1, <1>2, <3>2
      <4> QED
        BY <4>1 DEF Range
    <3> QED
      BY <3>1, <3>2
  <2>2. \A x \in Range(Tail(q)) : x \in Range(q)
    BY <1>1 DEF Range
  <2>3. Head(q) \in Range(q)
    BY <1>1 DEF Range
  <2>4. Range(q) \subseteq {Head(q)} \cup Range(Tail(q))
    BY <1>1, <2>1 DEF Range
  <2> QED
    BY <2>2, <2>3, <2>4
<1>4. Head(q) \notin Range(Tail(q))
  BY <1>1 DEF Range, IsInjective
<1>5. IsInjective(Tail(q))
  <2>1. ASSUME NEW i \in 1..Len(q) - 1, NEW j \in 1..Len(q) - 1,
               Tail(q)[i] = Tail(q)[j]
        PROVE  i = j
    <3>1. i + 1 \in 1..Len(q) /\ j + 1 \in 1..Len(q) /\ q[i + 1] = q[j + 1]
      BY <1>1, <2>1
    <3>2. i + 1 = j + 1
      BY <1>1, <3>1 DEF IsInjective
    <3> QED
      BY <3>2
  <2> QED
    BY <1>1, <2>1 DEF IsInjective
<1> QED
  BY <1>1, <1>3, <1>4, <1>5

LEMMA HeldGrab ==
    ASSUME TypeOK, NEW w \in Worker, hand[w] = None, NEW m \in Map,
           hand' = [hand EXCEPT ![w] = m]
    PROVE  Held' = Held \cup {m} /\ Busy' = Busy \cup {w}
<1>1. m # None
  BY UpdaterAssumption
<1>2. Busy' = Busy \cup {w}
  BY <1>1 DEF Busy, TypeOK
<1>3. \A v \in Busy : hand'[v] = hand[v]
  BY DEF Busy, TypeOK
<1>4. hand'[w] = m
  BY DEF TypeOK
<1> QED
  BY <1>2, <1>3, <1>4 DEF Held

LEMMA HeldDrop ==
    ASSUME TypeOK, NEW w \in Worker, hand[w] # None,
           \A v \in Busy : hand[v] = hand[w] => v = w,
           hand' = [hand EXCEPT ![w] = None]
    PROVE  /\ Held' = Held \ {hand[w]} /\ Busy' = Busy \ {w}
           /\ hand[w] \in Held /\ hand[w] \in Map
<1>1. Busy' = Busy \ {w} /\ w \in Busy
  BY DEF Busy, TypeOK
<1>2. \A v \in Busy \ {w} : hand'[v] = hand[v] /\ hand[v] # hand[w]
  BY DEF Busy, TypeOK
<1>3. hand[w] \in Map
  BY DEF TypeOK
<1> QED
  BY <1>1, <1>2, <1>3 DEF Held

LEMMA FiniteFlight ==
    ASSUME TypeOK, InFlight \subseteq maps
    PROVE  IsFiniteSet(InFlight) /\ Cardinality(InFlight) \in Nat
<1>1. IsFiniteSet(InFlight)
  BY FS_Subset, UpdaterAssumption DEF TypeOK
<1> QED
  BY <1>1, FS_CardinalityType

LEMMA Counted ==
    ASSUME TypeOK, Scheduling
    PROVE  /\ pending = 0 <=> InFlight = {}
           /\ \A w \in Worker : hand[w] # None => hand[w] \in InFlight
<1>1. IsFiniteSet(InFlight)
  BY FiniteFlight DEF Scheduling
<1>2. pending = 0 <=> InFlight = {}
  BY <1>1, FS_EmptySet DEF Scheduling
<1> QED
  BY <1>2 DEF InFlight, Held, Busy

LEMMA FlightFrame ==
    ASSUME UNCHANGED <<queue, hand>>
    PROVE  InFlight' = InFlight /\ Held' = Held /\ Busy' = Busy
BY DEF InFlight, Held, Busy

\* What the steps that move requests make of them.
LEMMA FlightSchedule ==
    ASSUME TypeOK, Scheduling, NEW m \in Map, ScheduleUpdate(m)
    PROVE  /\ InFlight' = InFlight \cup {m} /\ m \notin InFlight /\ m \in maps
           /\ OneThreadPerMap'
<1>1. Held' = Held /\ Busy' = Busy
  BY DEF Held, Busy, ScheduleUpdate
<1>2. m \notin InFlight /\ m \in maps
  BY DEF ScheduleUpdate, Scheduling
<1>3. /\ Range(queue') = Range(queue) \cup {m}
      /\ IsInjective(queue')
  <2>1. IsInjective(queue) /\ m \notin Range(queue)
    BY <1>2 DEF Scheduling, OneThreadPerMap, InFlight
  <2>2. queue \in Seq(Map) /\ queue' = Append(queue, m)
    BY DEF ScheduleUpdate, TypeOK
  <2> QED
    BY <2>1, <2>2, RangeAppend
<1>4. Range(queue') \cap Held' = {}
  BY <1>1, <1>2, <1>3 DEF Scheduling, OneThreadPerMap, InFlight
<1>5. \A v, w \in Busy' : hand'[v] = hand'[w] => v = w
  BY <1>1 DEF Scheduling, OneThreadPerMap, ScheduleUpdate
<1> QED
  BY <1>1, <1>2, <1>3, <1>4, <1>5 DEF InFlight, OneThreadPerMap

LEMMA FlightPop ==
    ASSUME TypeOK, Scheduling, Threads, NEW w \in Worker, Pop(w)
    PROVE  InFlight' = InFlight /\ OneThreadPerMap'
<1>1. /\ queue \in Seq(Map) /\ queue # <<>>
      /\ queue' = Tail(queue)
      /\ hand' = [hand EXCEPT ![w] = Head(queue)]
      /\ hand[w] = None
      /\ IsInjective(queue)
  BY DEF Pop, Popped, TypeOK, Threads, Scheduling, OneThreadPerMap
<1>2. /\ Head(queue) \in Map
      /\ Range(queue) = {Head(queue)} \cup Range(queue')
      /\ Head(queue) \notin Range(queue')
      /\ IsInjective(queue')
  BY <1>1, RangeTail
<1>3. Held' = Held \cup {Head(queue)} /\ Busy' = Busy \cup {w}
  BY <1>1, <1>2, HeldGrab
<1>4. Range(queue') \cap Held' = {}
  BY <1>2, <1>3 DEF Scheduling, OneThreadPerMap
<1>5. \A u, v \in Busy' : hand'[u] = hand'[v] => u = v
  <2>1. hand'[w] = Head(queue) /\ \A v \in Busy \ {w} : hand'[v] = hand[v]
    BY <1>1 DEF TypeOK, Busy
  <2>2. \A v \in Busy : hand[v] # Head(queue)
    BY <1>2 DEF Scheduling, OneThreadPerMap, Held
  <2>3. \A u, v \in Busy : hand[u] = hand[v] => u = v
    BY DEF Scheduling, OneThreadPerMap
  <2> QED
    BY <1>3, <2>1, <2>2, <2>3
<1> QED
  BY <1>2, <1>3, <1>4, <1>5 DEF InFlight, OneThreadPerMap

LEMMA FlightFinish ==
    ASSUME TypeOK, Scheduling, Threads, NEW w \in Worker, UpdateFinished(w)
    PROVE  /\ InFlight' = InFlight \ {hand[w]} /\ hand[w] \in InFlight
           /\ OneThreadPerMap'
<1>1. /\ hand' = [hand EXCEPT ![w] = None]
      /\ queue' = queue
      /\ hand[w] # None
  BY DEF UpdateFinished, Threads
<1>2. \A v \in Busy : hand[v] = hand[w] => v = w
  BY <1>1 DEF Scheduling, OneThreadPerMap, Busy
<1>3. Held' = Held \ {hand[w]} /\ Busy' = Busy \ {w} /\ hand[w] \in Held
  BY <1>1, <1>2, HeldDrop
<1>4. \A v \in Busy' : hand'[v] = hand[v]
  BY <1>1, <1>3 DEF TypeOK, Busy
<1> QED
  BY <1>1, <1>3, <1>4 DEF InFlight, OneThreadPerMap, Scheduling

\* After the token is set no request is left.
LEMMA FlightEmpty ==
    ASSUME TypeOK, Scheduling, at \notin {"schedule", "wait", "asleep"}
    PROVE  /\ InFlight = {} /\ Range(queue) = {} /\ Busy = {}
           /\ \A w \in Worker : hand[w] = None
           /\ todo = {}
           /\ pending = 0
BY Counted DEF Scheduling, WorldAlone, InFlight, Held, Busy

LEMMA WokenType ==
    ASSUME TypeOK, NEW state \in Woken(worker)
    PROVE  /\ state \in [Worker -> WorkerStates]
           /\ \A w \in Worker : \/ state[w] = worker[w]
                                \/ worker[w] = "asleep" /\ state[w] = "pop"
BY DEF Woken, TypeOK, WorkerStates

-----------------------------------------------------------------------------
(* The initial states.                                                     *)

LEMMA InductiveInit == Init => Inductive
<1> SUFFICES ASSUME Init PROVE Inductive
  OBVIOUS
<1>1. /\ Range(queue) = {} /\ Busy = {} /\ Held = {} /\ InFlight = {}
      /\ IsInjective(queue)
  BY DEF Init, Range, Busy, Held, InFlight, IsInjective
<1>2. PICK home \in [Transport -> Continent] :
        on = [m \in Map |-> {t \in Transport : home[t] = m}]
  BY DEF Init
<1>3. TypeOK
  <2>1. queue \in Seq(Map) /\ queue = <<>>
    BY DEF Init
  <2>2. on \in [Map -> SUBSET Transport]
    BY <1>2
  <2>3. /\ worker \in [Worker -> WorkerStates]
        /\ hand \in [Worker -> Map \cup {None}]
        /\ left \in [Worker -> SUBSET Transport]
        /\ mail \in [Map -> SUBSET Transport]
        /\ progress \in [Transport -> Nat]
    BY DEF Init, WorkerStates
  <2> QED
    BY <2>1, <2>2, <2>3, UpdaterAssumption DEF Init, TypeOK, WorldStates
<1>4. Scheduling
  BY <1>1, FS_EmptySet DEF Init, Scheduling, OneThreadPerMap, WorldAlone
<1>5. Threads
  BY DEF Init, Threads
<1>6. Ownership
  <2>1. ASSUME NEW t \in Transport
        PROVE  \E m \in Continent : Places(t) = {m} /\ t \notin on[m] \cap mail[m]
    <3>1. home[t] \in Continent /\ home[t] \in Map
      BY UpdaterAssumption
    <3>2. \A m \in Map : mail[m] = {} /\ (t \in on[m] <=> m = home[t])
      BY <1>2 DEF Init
    <3>3. Places(t) = {home[t]}
      BY <3>1, <3>2 DEF Places
    <3> QED
      BY <3>1, <3>2, <3>3
  <2> QED
    BY <2>1 DEF Init, Ownership
<1>7. Advance
  BY DEF Init, Advance
<1> QED
  BY <1>3, <1>4, <1>5, <1>6, <1>7 DEF Inductive

-----------------------------------------------------------------------------
(* The steps.                                                              *)

LEMMA TypeStep ==
    ASSUME Inductive, [Next]_vars
    PROVE  TypeOK'
<1> USE DEF WorldStates, WorkerStates, worldVars, workerVars, transportVars
<1>1. TypeOK
  BY DEF Inductive
<1>2. ASSUME NEW m \in Map, CreateMap(m) \/ UnloadMap(m) \/ ScheduleUpdate(m)
      PROVE  TypeOK'
  <2>1. CASE CreateMap(m) \/ UnloadMap(m)
    BY <1>1, <2>1 DEF TypeOK, CreateMap, UnloadMap
  <2>2. CASE ScheduleUpdate(m)
    <3>1. worker' \in [Worker -> WorkerStates]
      BY <1>1, <2>2, WokenType DEF ScheduleUpdate
    <3> QED
      BY <1>1, <2>2, <3>1 DEF TypeOK, ScheduleUpdate, Requested
  <2> QED
    BY <1>2, <2>1, <2>2
<1>3. CASE StartUpdate \/ Scheduled \/ Wait \/ UpdateDone \/ UnloadAll
  BY <1>1, <1>3 DEF TypeOK, StartUpdate, Scheduled, Wait, UpdateDone, UnloadAll
<1>4. CASE Deactivate \/ Cancel \/ Join
  <2>1. CASE Deactivate \/ Join
    BY <1>1, <2>1 DEF TypeOK, Deactivate, SetToken, Join
  <2>2. CASE Cancel
    <3>1. queue' \in Seq(Map)
      BY <2>2 DEF Cancel
    <3>2. worker' \in [Worker -> WorkerStates]
      BY <1>1, <2>2 DEF TypeOK, Cancel, AllWoken
    <3> QED
      BY <1>1, <2>2, <3>1, <3>2 DEF TypeOK, Cancel
  <2> QED
    BY <1>4, <2>1, <2>2
<1>5. ASSUME NEW w \in Worker, WorkerStep(w) \/ SpuriousWakeUp(w)
      PROVE  TypeOK'
  <2>1. CASE FallAsleep(w) \/ PopNothing(w) \/ SpuriousWakeUp(w)
    BY <1>1, <2>1 DEF TypeOK, FallAsleep, PopNothing, SpuriousWakeUp
  <2>2. CASE Pop(w)
    <3>1. Head(queue) \in Map /\ Tail(queue) \in Seq(Map)
      BY <1>1, <2>2 DEF TypeOK, Pop
    <3> QED
      BY <1>1, <2>2, <3>1 DEF TypeOK, Pop, Popped
  <2>3. CASE EndWorker(w)
    BY <1>1, <2>3 DEF TypeOK, EndWorker
  <2>4. CASE StartMapUpdate(w)
    <3>1. hand[w] \in Map
      BY <1>1, <2>4 DEF TypeOK, StartMapUpdate
    <3> QED
      BY <1>1, <2>4, <3>1 DEF TypeOK, StartMapUpdate, Arrived
  <2>5. CASE EndMapUpdate(w)
    BY <1>1, <2>5 DEF TypeOK, EndMapUpdate
  <2>6. CASE UpdateFinished(w)
    <3>1. hand[w] \in InFlight /\ pending # 0
      BY <1>1, <2>6, Counted DEF Inductive, Threads, UpdateFinished
    <3>2. pending - 1 \in Nat
      BY <1>1, <3>1 DEF TypeOK
    <3> QED
      BY <1>1, <2>6, <3>2 DEF TypeOK, UpdateFinished, Notified
  <2>7. ASSUME NEW t \in Transport, UpdateTransport(w, t)
        PROVE  TypeOK'
    BY <1>1, <2>7 DEF TypeOK, UpdateTransport, Stepped
  <2>8. ASSUME NEW t \in Transport, NEW m \in Map, TeleportTransport(w, t, m)
        PROVE  TypeOK'
    BY <1>1, <2>8 DEF TypeOK, TeleportTransport, Stepped, Posted
  <2> QED
    BY <1>5, <2>1, <2>2, <2>3, <2>4, <2>5, <2>6, <2>7, <2>8 DEF WorkerStep
<1>6. CASE UNCHANGED vars
  BY <1>1, <1>6 DEF TypeOK, vars
<1> QED
  BY <1>2, <1>3, <1>4, <1>5, <1>6 DEF Next, WorldStep, Stopped

LEMMA SchedulingStep ==
    ASSUME Inductive, [Next]_vars
    PROVE  Scheduling'
<1> USE DEF worldVars, workerVars, transportVars
<1>1. TypeOK /\ Scheduling /\ Threads
  BY DEF Inductive
\* The steps that move no request.
<1>2. ASSUME UNCHANGED <<queue, hand, pending>>,
             InFlight \cap todo' = {},
             InFlight \cup todo' \subseteq maps',
             todo' # {} => at' = "schedule",
             at' \notin {"schedule", "wait", "asleep"} => InFlight = {}
      PROVE  Scheduling'
  <2>1. InFlight' = InFlight /\ Held' = Held /\ Busy' = Busy
    BY <1>2, FlightFrame
  <2> QED
    BY <1>1, <1>2, <2>1 DEF Scheduling, OneThreadPerMap, WorldAlone
<1>3. ASSUME NEW m \in Map, CreateMap(m) \/ UnloadMap(m)
      PROVE  Scheduling'
  <2>1. InFlight = {} /\ todo = {}
    BY <1>1, <1>3, FlightEmpty DEF CreateMap, UnloadMap
  <2> QED
    BY <1>2, <1>3, <2>1 DEF CreateMap, UnloadMap
<1>4. CASE StartUpdate \/ UpdateDone \/ UnloadAll \/ Deactivate \/ Join
  <2>1. InFlight = {} /\ todo = {}
    BY <1>1, <1>4, FlightEmpty DEF StartUpdate, UpdateDone, UnloadAll, Deactivate, Join
  <2> QED
    BY <1>2, <1>4, <2>1 DEF StartUpdate, UpdateDone, UnloadAll, Deactivate, Join
<1>5. CASE Scheduled
  BY <1>1, <1>2, <1>5 DEF Scheduled, Scheduling
<1>6. CASE Wait
  <2>1. pending \in Nat /\ (pending = 0 <=> InFlight = {})
    BY <1>1, Counted DEF TypeOK
  <2>2. todo = {}
    BY <1>1, <1>6 DEF Wait, Scheduling
  <2>3. /\ at' = "unload" => InFlight = {}
        /\ at' \in {"asleep", "unload"}
    BY <1>6, <2>1 DEF Wait, MustWait
  <2> QED
    BY <1>1, <1>2, <1>6, <2>2, <2>3 DEF Wait, Scheduling
<1>7. ASSUME NEW m \in Map, ScheduleUpdate(m)
      PROVE  Scheduling'
  <2>1. /\ InFlight' = InFlight \cup {m} /\ m \notin InFlight /\ m \in maps
        /\ OneThreadPerMap'
    BY <1>1, <1>7, FlightSchedule
  <2>2. pending' = Cardinality(InFlight')
    <3>1. IsFiniteSet(InFlight)
      BY <1>1, FiniteFlight DEF Scheduling
    <3> QED
      BY <1>1, <1>7, <2>1, <3>1, FS_AddElement DEF Scheduling, ScheduleUpdate, Requested
  <2> QED
    BY <1>1, <1>7, <2>1, <2>2 DEF Scheduling, WorldAlone, ScheduleUpdate
<1>8. CASE Cancel
  <2>1. /\ InFlight = {} /\ Range(queue) = {} /\ Busy = {} /\ todo = {}
        /\ pending = 0
    BY <1>1, <1>8, FlightEmpty DEF Cancel
  <2>2. /\ Range(queue') = {} /\ IsInjective(queue')
        /\ Busy' = {} /\ Held' = {}
    BY <1>8, <2>1 DEF Cancel, Range, IsInjective, Busy, Held
  <2>3. InFlight' = {}
    BY <2>2 DEF InFlight
  <2> QED
    BY <1>1, <1>8, <2>1, <2>2, <2>3, FS_EmptySet
    DEF Cancel, Scheduling, OneThreadPerMap, WorldAlone
<1>9. ASSUME NEW w \in Worker, WorkerStep(w) \/ SpuriousWakeUp(w)
      PROVE  Scheduling'
  <2>1. CASE \/ FallAsleep(w) \/ PopNothing(w) \/ SpuriousWakeUp(w)
             \/ StartMapUpdate(w) \/ EndMapUpdate(w)
             \/ \E t \in Transport :
                  \/ UpdateTransport(w, t)
                  \/ \E m \in Map : TeleportTransport(w, t, m)
    <3>1. UNCHANGED <<queue, hand, pending, maps, todo, at>>
      BY <2>1 DEF FallAsleep, PopNothing, SpuriousWakeUp, StartMapUpdate,
                  EndMapUpdate, UpdateTransport, TeleportTransport
    <3> QED
      BY <1>1, <1>2, <3>1 DEF Scheduling, WorldAlone
  <2>2. CASE Pop(w)
    <3>1. InFlight' = InFlight /\ OneThreadPerMap'
      BY <1>1, <2>2, FlightPop
    <3> QED
      BY <1>1, <2>2, <3>1 DEF Scheduling, WorldAlone, Pop
  <2>3. CASE EndWorker(w)
    <3>1. InFlight = {} /\ hand[w] = None
      BY <1>1, <2>3, FlightEmpty DEF EndWorker, Threads
    <3>2. UNCHANGED <<queue, hand, pending, maps, todo, at>>
      BY <1>1, <2>3, <3>1 DEF EndWorker, TypeOK
    <3> QED
      BY <1>1, <1>2, <3>1, <3>2 DEF Scheduling
  <2>4. CASE UpdateFinished(w)
    <3>1. /\ InFlight' = InFlight \ {hand[w]} /\ hand[w] \in InFlight
          /\ OneThreadPerMap'
      BY <1>1, <2>4, FlightFinish
    <3>2. pending' = Cardinality(InFlight')
      <4>1. IsFiniteSet(InFlight)
        BY <1>1, FiniteFlight DEF Scheduling
      <4> QED
        BY <1>1, <2>4, <3>1, <4>1, FS_RemoveElement DEF Scheduling, UpdateFinished
    <3>3. WorldAlone' /\ (todo' # {} => at' = "schedule")
      BY <1>1, <2>4, <3>1 DEF Scheduling, WorldAlone, UpdateFinished, Notified
    <3> QED
      BY <1>1, <2>4, <3>1, <3>2, <3>3 DEF Scheduling, UpdateFinished
  <2> QED
    BY <1>9, <2>1, <2>2, <2>3, <2>4 DEF WorkerStep
<1>10. CASE UNCHANGED vars
  BY <1>1, <1>2, <1>10 DEF vars, Scheduling, WorldAlone
<1> QED
  BY <1>3, <1>4, <1>5, <1>6, <1>7, <1>8, <1>9, <1>10 DEF Next, WorldStep, Stopped

LEMMA ThreadsStep ==
    ASSUME Inductive, [Next]_vars
    PROVE  Threads'
<1> USE DEF worldVars, workerVars, transportVars
<1>1. TypeOK /\ Scheduling /\ Threads
  BY DEF Inductive
<1>2. ASSUME UNCHANGED <<hand, token, shutdown>>,
             \A w \in Worker : \/ worker'[w] = worker[w]
                               \/ worker[w] = "asleep" /\ worker'[w] = "pop",
             token <=> at' \in {"cancel", "join", "ended"}
      PROVE  Threads'
  BY <1>1, <1>2 DEF Threads
<1>3. ASSUME NEW m \in Map, CreateMap(m) \/ UnloadMap(m) \/ ScheduleUpdate(m)
      PROVE  Threads'
  <2>1. CASE CreateMap(m) \/ UnloadMap(m)
    BY <1>1, <1>2, <2>1 DEF CreateMap, UnloadMap, Threads
  <2>2. CASE ScheduleUpdate(m)
    <3>1. \A w \in Worker : \/ worker'[w] = worker[w]
                            \/ worker[w] = "asleep" /\ worker'[w] = "pop"
      BY <1>1, <2>2, WokenType DEF ScheduleUpdate
    <3> QED
      BY <1>1, <1>2, <2>2, <3>1 DEF ScheduleUpdate, Threads
  <2> QED
    BY <1>3, <2>1, <2>2
<1>4. CASE StartUpdate \/ Scheduled \/ Wait \/ UpdateDone \/ UnloadAll \/ Join
  BY <1>1, <1>2, <1>4
  DEF StartUpdate, Scheduled, Wait, UpdateDone, UnloadAll, Join, Threads
<1>5. CASE Deactivate
  BY <1>1, <1>5 DEF Deactivate, SetToken, Threads
<1>6. CASE Cancel
  <2>1. \A w \in Worker : hand'[w] = None /\ hand[w] = None
    BY <1>1, <1>6, FlightEmpty DEF Cancel
  <2>2. \A w \in Worker : worker'[w] \in {"run", "ran"} => worker[w] \in {"run", "ran"}
    BY <1>1, <1>6 DEF Cancel, AllWoken
  <2> QED
    BY <1>1, <1>6, <2>1, <2>2 DEF Cancel, Threads
<1>7. ASSUME NEW w \in Worker, WorkerStep(w) \/ SpuriousWakeUp(w)
      PROVE  Threads'
  \* The steps of a worker leave the others as they are.
  <2>1. ASSUME UNCHANGED <<token, shutdown>>,
               at' = at \/ (at = "asleep" /\ at' = "wait"),
               \A v \in Worker \ {w} : worker'[v] = worker[v] /\ hand'[v] = hand[v],
               worker'[w] \in {"run", "ran"} => hand'[w] # None,
               worker'[w] \in {"pop", "asleep", "ended"} => hand'[w] = None,
               worker'[w] = "got" /\ hand'[w] = None => shutdown
        PROVE  Threads'
    BY <1>1, <2>1 DEF Threads
  <2>2. w \in DOMAIN worker /\ w \in DOMAIN hand
    BY <1>1 DEF TypeOK
  <2>3. CASE FallAsleep(w) \/ PopNothing(w) \/ SpuriousWakeUp(w)
    <3>1. hand[w] = None
      BY <1>1, <2>3 DEF FallAsleep, PopNothing, SpuriousWakeUp, Threads
    <3>2. UNCHANGED <<token, shutdown, at, hand>>
      BY <2>3 DEF FallAsleep, PopNothing, SpuriousWakeUp
    <3>3. \A v \in Worker \ {w} : worker'[v] = worker[v]
      BY <1>1, <2>3 DEF FallAsleep, PopNothing, SpuriousWakeUp, TypeOK
    <3>4. \/ worker'[w] \in {"asleep", "pop"}
          \/ worker'[w] = "got" /\ shutdown
      BY <2>2, <2>3 DEF FallAsleep, PopNothing, SpuriousWakeUp
    <3> QED
      BY <2>1, <3>1, <3>2, <3>3, <3>4
  <2>4. CASE Pop(w)
    <3>1. Head(queue) \in Map /\ Head(queue) # None
      BY <1>1, <2>4, UpdaterAssumption DEF Pop, TypeOK
    <3>2. /\ worker'[w] = "got" /\ hand'[w] = Head(queue)
          /\ \A v \in Worker \ {w} : worker'[v] = worker[v] /\ hand'[v] = hand[v]
      BY <2>2, <2>4 DEF Pop
    <3> QED
      BY <2>1, <2>4, <3>1, <3>2 DEF Pop
  <2>5. CASE EndWorker(w)
    BY <2>1, <2>2, <2>5 DEF EndWorker
  <2>6. CASE StartMapUpdate(w)
    BY <2>1, <2>2, <2>6 DEF StartMapUpdate
  <2>7. CASE EndMapUpdate(w)
    <3>1. hand[w] # None
      BY <1>1, <2>7 DEF EndMapUpdate, Threads
    <3> QED
      BY <2>1, <2>2, <2>7, <3>1 DEF EndMapUpdate
  <2>8. CASE UpdateFinished(w)
    BY <2>1, <2>2, <2>8 DEF UpdateFinished, Notified
  <2>9. ASSUME NEW t \in Transport,
               UpdateTransport(w, t) \/ \E m \in Map : TeleportTransport(w, t, m)
        PROVE  Threads'
    BY <1>1, <1>2, <2>9 DEF UpdateTransport, TeleportTransport, Threads
  <2> QED
    BY <1>7, <2>3, <2>4, <2>5, <2>6, <2>7, <2>8, <2>9 DEF WorkerStep
<1>8. CASE UNCHANGED vars
  BY <1>1, <1>2, <1>8 DEF vars, Threads
<1> QED
  BY <1>3, <1>4, <1>5, <1>6, <1>7, <1>8 DEF Next, WorldStep, Stopped

\* A transport that moves from one map's list to another's messager.
LEMMA PlacesFrame ==
    ASSUME TypeOK, NEW t \in Transport, NEW m \in Map,
           Places(t) = {m}, t \notin on[m] \cap mail[m]
    PROVE  \A n \in Map : t \in on[n] \cup mail[n] <=> n = m
BY DEF Places, TypeOK

LEMMA OwnershipStep ==
    ASSUME Inductive, [Next]_vars
    PROVE  Ownership'
<1> USE DEF worldVars, workerVars, transportVars
<1>1. TypeOK /\ Scheduling /\ Threads /\ Ownership /\ TypeOK'
  BY TypeStep DEF Inductive
<1> DEFINE Live == {"tick", "schedule", "wait", "asleep", "unload"}
<1> DEFINE Placed(t) ==
             \E m \in Continent : Places(t) = {m} /\ t \notin on[m] \cap mail[m]
<1> DEFINE Left(w) ==
             IF worker[w] = "run" THEN left[w] \subseteq on[hand[w]] ELSE left[w] = {}
\* The steps that move no transport and begin or end no map's update.
<1>2. ASSUME UNCHANGED <<on, mail, left>>,
             at' \in Live => Continent \subseteq maps',
             \A w \in Worker :
                (worker'[w] = "run" <=> worker[w] = "run")
                /\ (worker[w] = "run" => hand'[w] = hand[w])
      PROVE  Ownership'
  <2>1. \A t \in Transport : Placed(t)' <=> Placed(t)
    BY <1>2 DEF Places
  <2>2. \A w \in Worker : Left(w)' <=> Left(w)
    BY <1>2
  <2> QED
    BY <1>1, <1>2, <2>1, <2>2 DEF Ownership
<1>3. ASSUME NEW m \in Map, CreateMap(m) \/ UnloadMap(m)
      PROVE  Ownership'
  <2>1. /\ UNCHANGED <<on, mail, left, worker, hand>>
        /\ Continent \subseteq maps'
    BY <1>1, <1>3 DEF CreateMap, UnloadMap, Ownership
  <2> QED
    BY <1>2, <2>1
<1>4. ASSUME NEW m \in Map, ScheduleUpdate(m)
      PROVE  Ownership'
  <2>1. \A w \in Worker : worker'[w] = "run" <=> worker[w] = "run"
    BY <1>1, <1>4, WokenType DEF ScheduleUpdate
  <2>2. UNCHANGED <<on, mail, left, hand>> /\ Continent \subseteq maps'
    BY <1>1, <1>4 DEF ScheduleUpdate, Ownership
  <2> QED
    BY <1>2, <2>1, <2>2
<1>5. CASE StartUpdate \/ Scheduled \/ Wait \/ UpdateDone
  <2>1. /\ UNCHANGED <<on, mail, left, worker, hand>>
        /\ Continent \subseteq maps'
    BY <1>1, <1>5 DEF StartUpdate, Scheduled, Wait, UpdateDone, Ownership
  <2> QED
    BY <1>2, <2>1
<1>6. CASE UnloadAll \/ Deactivate \/ Join
  <2>1. /\ UNCHANGED <<on, mail, left, worker, hand>>
        /\ at' \notin Live
    BY <1>6 DEF UnloadAll, Deactivate, Join
  <2> QED
    BY <1>2, <2>1
<1>7. CASE Cancel
  <2>1. \A w \in Worker : worker'[w] = "run" <=> worker[w] = "run"
    BY <1>1, <1>7 DEF Cancel, AllWoken
  <2> QED
    BY <1>2, <1>7, <2>1 DEF Cancel
<1>8. ASSUME NEW w \in Worker, WorkerStep(w) \/ SpuriousWakeUp(w)
      PROVE  Ownership'
  <2>1. /\ DOMAIN worker = Worker /\ DOMAIN hand = Worker /\ DOMAIN left = Worker
        /\ DOMAIN on = Map /\ DOMAIN mail = Map
    BY <1>1 DEF TypeOK
  <2>2. CASE \/ FallAsleep(w) \/ PopNothing(w) \/ SpuriousWakeUp(w) \/ Pop(w)
             \/ EndWorker(w) \/ UpdateFinished(w)
    <3>1. \A v \in Worker :
             /\ worker'[v] = "run" <=> worker[v] = "run"
             /\ worker[v] = "run" => hand'[v] = hand[v]
      BY <2>1, <2>2
      DEF FallAsleep, PopNothing, SpuriousWakeUp, Pop, EndWorker, UpdateFinished
    <3>2. /\ UNCHANGED <<on, mail, left, maps>>
          /\ at' \in Live => at \in Live
      BY <2>2 DEF FallAsleep, PopNothing, SpuriousWakeUp, Pop, EndWorker,
                  UpdateFinished, Notified
    <3> QED
      BY <1>1, <1>2, <3>1, <3>2 DEF Ownership
  <2>3. CASE StartMapUpdate(w)
    <3>1. /\ hand[w] \in Map /\ hand' = hand
          /\ on' = [on EXCEPT ![hand[w]] = @ \cup mail[hand[w]]]
          /\ mail' = [mail EXCEPT ![hand[w]] = {}]
          /\ left' = [left EXCEPT ![w] = on[hand[w]] \cup mail[hand[w]]]
          /\ worker' = [worker EXCEPT ![w] = "run"]
          /\ UNCHANGED <<at, maps>>
      BY <1>1, <2>3 DEF StartMapUpdate, Arrived, TypeOK
    <3>2. ASSUME NEW t \in Transport
          PROVE  Placed(t)'
      <4>1. PICK m \in Continent : Places(t) = {m} /\ t \notin on[m] \cap mail[m]
        BY <1>1 DEF Ownership
      <4>2. m \in Map
        BY UpdaterAssumption
      <4>3. \A n \in Map : t \in on[n] \cup mail[n] <=> n = m
        BY <1>1, <4>1, <4>2, PlacesFrame
      <4>4. \A n \in Map : t \in on'[n] \cup mail'[n] <=> n = m
        BY <2>1, <3>1, <4>3
      <4>5. t \notin on'[m] \cap mail'[m]
        BY <2>1, <3>1, <4>1, <4>2
      <4>6. Places(t)' = {m}
        BY <4>2, <4>4 DEF Places
      <4> QED
        BY <4>5, <4>6
    <3>3. ASSUME NEW v \in Worker
          PROVE  Left(v)'
      <4>1. CASE v = w
        BY <2>1, <3>1, <4>1
      <4>2. CASE v # w /\ worker[v] # "run"
        BY <1>1, <2>1, <3>1, <4>2 DEF Ownership
      <4>3. CASE v # w /\ worker[v] = "run"
        <5>1. hand[v] \in Map /\ left[v] \subseteq on[hand[v]]
          BY <1>1, <4>3 DEF Ownership, Threads, TypeOK
        <5>2. on[hand[v]] \subseteq on'[hand[v]]
          BY <2>1, <3>1, <5>1
        <5> QED
          BY <2>1, <3>1, <4>3, <5>1, <5>2
      <4> QED
        BY <4>1, <4>2, <4>3
    <3> QED
      BY <1>1, <3>1, <3>2, <3>3 DEF Ownership
  <2>4. CASE EndMapUpdate(w)
    <3>1. ASSUME NEW v \in Worker
          PROVE  Left(v)'
      BY <1>1, <2>1, <2>4 DEF EndMapUpdate, Ownership
    <3>2. \A t \in Transport : Placed(t)' <=> Placed(t)
      BY <2>4 DEF EndMapUpdate, Places
    <3> QED
      BY <1>1, <2>4, <3>1, <3>2 DEF EndMapUpdate, Ownership
  <2>5. ASSUME NEW t \in Transport, UpdateTransport(w, t)
        PROVE  Ownership'
    <3>1. ASSUME NEW v \in Worker
          PROVE  Left(v)'
      BY <1>1, <2>1, <2>5 DEF UpdateTransport, Stepped, Ownership
    <3>2. \A u \in Transport : Placed(u)' <=> Placed(u)
      BY <2>5 DEF UpdateTransport, Places
    <3> QED
      BY <1>1, <2>5, <3>1, <3>2 DEF UpdateTransport, Ownership
  <2>6. ASSUME NEW t \in Transport, NEW m \in Map, TeleportTransport(w, t, m)
        PROVE  Ownership'
    <3>1. /\ worker[w] = "run" /\ t \in left[w] /\ m # hand[w] /\ m \in Continent
          /\ left' = [left EXCEPT ![w] = @ \ {t}]
          /\ on' = [on EXCEPT ![hand[w]] = @ \ {t}]
          /\ mail' = [mail EXCEPT ![m] = @ \cup {t}]
          /\ UNCHANGED <<worker, hand, at, maps>>
      BY <2>6 DEF TeleportTransport, Stepped, Posted
    <3>2. hand[w] \in Map /\ t \in on[hand[w]]
      BY <1>1, <3>1 DEF Ownership, Threads, TypeOK
    <3>3. \A n \in Map : t \in on[n] \cup mail[n] <=> n = hand[w]
      <4>1. PICK n \in Continent : Places(t) = {n} /\ t \notin on[n] \cap mail[n]
        BY <1>1 DEF Ownership
      <4> QED
        BY <1>1, <3>2, <4>1, PlacesFrame, UpdaterAssumption
    <3>4. t \notin mail[hand[w]]
      BY <1>1, <3>2, <3>3 DEF Ownership, Places
    <3>5. ASSUME NEW u \in Transport
          PROVE  Placed(u)'
      <4>1. CASE u = t
        <5>1. \A n \in Map : u \in on'[n] \cup mail'[n] <=> n = m
          BY <2>1, <3>1, <3>2, <3>3, <3>4, <4>1
        <5>2. u \notin on'[m]
          BY <2>1, <3>1, <3>2, <3>3, <4>1
        <5>3. Places(u)' = {m}
          BY <5>1 DEF Places
        <5> QED
          BY <3>1, <5>2, <5>3
      <4>2. CASE u # t
        <5>1. \A n \in Map : /\ u \in on'[n] <=> u \in on[n]
                             /\ u \in mail'[n] <=> u \in mail[n]
          BY <2>1, <3>1, <3>2, <4>2
        <5>2. Places(u)' = Places(u)
          BY <5>1 DEF Places
        <5> QED
          BY <1>1, <5>1, <5>2, UpdaterAssumption DEF Ownership
      <4> QED
        BY <4>1, <4>2
    <3>6. ASSUME NEW v \in Worker
          PROVE  Left(v)'
      <4>1. CASE worker[v] # "run"
        BY <1>1, <2>1, <3>1, <4>1 DEF Ownership
      <4>2. CASE worker[v] = "run" /\ v = w
        BY <1>1, <2>1, <3>1, <3>2, <4>2 DEF Ownership
      <4>3. CASE worker[v] = "run" /\ v # w
        <5>1. v \in Busy /\ w \in Busy
          BY <1>1, <3>1, <4>3 DEF Busy, Threads
        <5>2. hand[v] # hand[w]
          BY <1>1, <4>3, <5>1 DEF Scheduling, OneThreadPerMap
        <5>3. hand[v] \in Map /\ left[v] \subseteq on[hand[v]]
          BY <1>1, <4>3 DEF Ownership, Threads, TypeOK
        <5>4. on'[hand[v]] = on[hand[v]] /\ left'[v] = left[v]
          BY <2>1, <3>1, <4>3, <5>2, <5>3
        <5> QED
          BY <3>1, <4>3, <5>3, <5>4
      <4> QED
        BY <4>1, <4>2, <4>3
    <3> QED
      BY <1>1, <3>1, <3>5, <3>6 DEF Ownership
  <2> QED
    BY <1>8, <2>2, <2>3, <2>4, <2>5, <2>6 DEF WorkerStep
<1>9. CASE UNCHANGED vars
  BY <1>1, <1>2, <1>9 DEF vars, Ownership
<1> QED
  BY <1>3, <1>4, <1>5, <1>6, <1>7, <1>8, <1>9 DEF Next, WorldStep, Stopped

\* What a step does to the maps that are due and to those that are updated.
LEMMA DueFrame ==
    ASSUME UNCHANGED <<todo, queue>>,
           \A w \in Worker :
              /\ worker'[w] = "got" /\ hand'[w] # None
                    <=> worker[w] = "got" /\ hand[w] # None
              /\ worker'[w] = "run" /\ hand'[w] # None
                    <=> worker[w] = "run" /\ hand[w] # None
              /\ worker[w] \in {"got", "run"} /\ hand[w] # None => hand'[w] = hand[w]
    PROVE  Due' = Due /\ Running' = Running
<1>1. {v \in Busy : worker[v] = "got"}' = {v \in Busy : worker[v] = "got"}
  BY DEF Busy
<1>2. {v \in Busy : worker[v] = "run"}' = {v \in Busy : worker[v] = "run"}
  BY DEF Busy
<1>3. \A w \in {v \in Busy : worker[v] \in {"got", "run"}} : hand'[w] = hand[w]
  BY DEF Busy
<1> QED
  BY <1>1, <1>2, <1>3 DEF Due, Running

\* Each step of the world thread and of the workers is one of MapTick, or none.
LEMMA TickStep ==
    ASSUME Inductive, [Next]_vars
    PROVE  [Tick!TickNext]_(Tick!tickVars)
<1> USE DEF worldVars, workerVars, transportVars
<1>1. TypeOK /\ Scheduling /\ Threads /\ TypeOK'
  BY TypeStep DEF Inductive
<1>2. /\ DOMAIN worker = Worker /\ DOMAIN hand = Worker
      /\ Due \subseteq Map /\ Running \subseteq Map
  <2>1. \A w \in Busy : hand[w] \in Map
    BY <1>1 DEF Busy, TypeOK
  <2>2. Range(queue) \subseteq Map
    BY <1>1 DEF TypeOK, Range
  <2> QED
    BY <1>1, <2>1, <2>2 DEF TypeOK, Due, Running
<1>3. ASSUME UNCHANGED <<maps, Due, Running>>
      PROVE  [Tick!TickNext]_(Tick!tickVars)
  BY <1>3 DEF Tick!tickVars
\* Outside of the schedule and the wait nothing is due.
<1>4. ASSUME at \notin {"schedule", "wait", "asleep"}
      PROVE  Due = {} /\ Running = {} /\ Busy = {} /\ todo = {} /\ Range(queue) = {}
  BY <1>1, <1>4, FlightEmpty DEF Due, Running
<1>5. CASE \/ \E m \in Map : CreateMap(m) \/ UnloadMap(m)
           \/ UnloadAll
  <2>1. UNCHANGED <<todo, queue, hand, worker>>
    BY <1>5 DEF CreateMap, UnloadMap, UnloadAll
  <2>2. Due' = Due /\ Running' = Running
    BY <2>1, DueFrame
  <2>3. Due = {} /\ Running = {}
    BY <1>4, <1>5 DEF CreateMap, UnloadMap, UnloadAll
  <2>4. maps' \in SUBSET Map
    BY <1>1 DEF TypeOK
  <2> QED
    BY <2>2, <2>3, <2>4 DEF Tick!TickNext, Tick!ChangeMaps, Tick!Quiet
<1>6. CASE StartUpdate
  <2>1. /\ Due = {} /\ Running = {} /\ Busy = {} /\ Range(queue) = {}
        /\ UNCHANGED <<queue, hand, worker, maps>> /\ todo' = maps
    BY <1>4, <1>6 DEF StartUpdate
  <2>2. Busy' = {} /\ Range(queue)' = {}
    BY <2>1 DEF Busy
  <2>3. Due' = maps /\ Running' = {}
    BY <2>1, <2>2 DEF Due, Running
  <2> QED
    BY <2>1, <2>3 DEF Tick!TickNext, Tick!BeginTick, Tick!Quiet
<1>7. CASE Scheduled \/ Wait \/ UpdateDone \/ Deactivate \/ Join
  <2>1. UNCHANGED <<todo, queue, hand, worker, maps>>
    BY <1>7 DEF Scheduled, Wait, UpdateDone, Deactivate, Join
  <2> QED
    BY <1>3, <2>1, DueFrame
<1>8. CASE Cancel
  <2>1. Busy = {} /\ todo = {} /\ Due = {} /\ Running = {}
    BY <1>4, <1>8 DEF Cancel
  <2>2. /\ Busy' = {} /\ Range(queue)' = {} /\ todo' = {}
        /\ UNCHANGED maps
    BY <1>8, <2>1 DEF Cancel, Busy, Range
  <2>3. Due' = {} /\ Running' = {}
    BY <2>2 DEF Due, Running
  <2> QED
    BY <1>3, <2>1, <2>2, <2>3
<1>9. ASSUME NEW m \in Map, ScheduleUpdate(m)
      PROVE  UNCHANGED <<maps, Due, Running>>
  <2>1. /\ \A w \in Worker : /\ worker'[w] = "got" <=> worker[w] = "got"
                             /\ worker'[w] = "run" <=> worker[w] = "run"
        /\ UNCHANGED <<maps, hand>>
    BY <1>1, <1>9, WokenType DEF ScheduleUpdate
  <2>2. Range(queue') = Range(queue) \cup {m} /\ m \in todo /\ todo' = todo \ {m}
    BY <1>1, <1>9, RangeAppend DEF ScheduleUpdate, TypeOK
  <2>3. /\ {v \in Busy : worker[v] = "got"}' = {v \in Busy : worker[v] = "got"}
        /\ {v \in Busy : worker[v] = "run"}' = {v \in Busy : worker[v] = "run"}
    BY <2>1 DEF Busy
  <2>4. {hand[w] : w \in {v \in Busy : worker[v] = "got"}}'
          = {hand[w] : w \in {v \in Busy : worker[v] = "got"}}
    BY <2>1, <2>3
  <2> QED
    BY <2>1, <2>2, <2>3, <2>4 DEF Due, Running
<1>10. ASSUME NEW w \in Worker, WorkerStep(w) \/ SpuriousWakeUp(w)
       PROVE  [Tick!TickNext]_(Tick!tickVars)
  <2>1. CASE \/ FallAsleep(w) \/ PopNothing(w) \/ SpuriousWakeUp(w) \/ UpdateFinished(w)
             \/ \E t \in Transport :
                  \/ UpdateTransport(w, t)
                  \/ \E m \in Map : TeleportTransport(w, t, m)
    <3>1. UNCHANGED <<todo, queue, maps>>
      BY <2>1 DEF FallAsleep, PopNothing, SpuriousWakeUp, UpdateFinished,
                  UpdateTransport, TeleportTransport
    <3>2. \A v \in Worker :
              /\ worker'[v] = "got" /\ hand'[v] # None
                    <=> worker[v] = "got" /\ hand[v] # None
              /\ worker'[v] = "run" /\ hand'[v] # None
                    <=> worker[v] = "run" /\ hand[v] # None
              /\ worker[v] \in {"got", "run"} /\ hand[v] # None => hand'[v] = hand[v]
      <4>1. CASE FallAsleep(w) \/ PopNothing(w) \/ SpuriousWakeUp(w)
        <5>1. hand[w] = None /\ worker[w] \in {"pop", "asleep"}
          BY <1>1, <4>1 DEF FallAsleep, PopNothing, SpuriousWakeUp, Threads
        <5>2. hand' = hand /\ \A v \in Worker \ {w} : worker'[v] = worker[v]
          BY <1>1, <4>1 DEF FallAsleep, PopNothing, SpuriousWakeUp, TypeOK
        <5> QED
          BY <5>1, <5>2
      <4>2. CASE UpdateFinished(w)
        BY <1>2, <4>2 DEF UpdateFinished
      <4>3. CASE \E t \in Transport :
                  \/ UpdateTransport(w, t)
                  \/ \E m \in Map : TeleportTransport(w, t, m)
        BY <4>3 DEF UpdateTransport, TeleportTransport
      <4> QED
        BY <2>1, <4>1, <4>2, <4>3
    <3> QED
      BY <1>3, <3>1, <3>2, DueFrame
  <2>2. CASE EndWorker(w)
    <3>1. hand[w] = None /\ worker[w] = "got"
      BY <1>1, <2>2, FlightEmpty DEF EndWorker, Threads
    <3>2. /\ UNCHANGED <<todo, queue, maps, hand>>
          /\ \A v \in Worker \ {w} : worker'[v] = worker[v]
          /\ worker'[w] = "ended"
      BY <1>1, <1>2, <2>2, <3>1 DEF EndWorker, TypeOK
    <3> QED
      BY <1>3, <3>1, <3>2, DueFrame
  <2>3. CASE Pop(w)
    <3>1. /\ Range(queue) = {Head(queue)} \cup Range(queue')
          /\ Head(queue) \in Map /\ Head(queue) # None
      <4>1. queue \in Seq(Map) /\ queue # <<>> /\ IsInjective(queue) /\ queue' = Tail(queue)
        BY <1>1, <2>3 DEF Pop, Popped, TypeOK, Scheduling, OneThreadPerMap
      <4> QED
        BY <4>1, RangeTail, UpdaterAssumption
    <3>2. /\ hand'[w] = Head(queue) /\ hand[w] = None
          /\ worker'[w] = "got"
          /\ \A v \in Worker \ {w} : worker'[v] = worker[v] /\ hand'[v] = hand[v]
          /\ UNCHANGED <<todo, maps>>
      BY <1>1, <1>2, <2>3 DEF Pop, Threads
    <3>3. /\ {v \in Busy : worker[v] = "got"}' = {v \in Busy : worker[v] = "got"} \cup {w}
          /\ {v \in Busy : worker[v] = "run"}' = {v \in Busy : worker[v] = "run"}
          /\ w \notin Busy
      BY <3>1, <3>2 DEF Busy
    <3>4. \A v \in Busy : hand'[v] = hand[v]
      BY <3>2, <3>3 DEF Busy
    <3>5. Running' = Running
      BY <3>3, <3>4 DEF Running
    <3>6. {hand[v] : v \in {u \in Busy : worker[u] = "got"}}'
            = {hand[v] : v \in {u \in Busy : worker[u] = "got"}} \cup {Head(queue)}
      BY <3>2, <3>3, <3>4
    <3>7. Due' = Due
      BY <3>1, <3>2, <3>6 DEF Due
    <3> QED
      BY <1>3, <3>2, <3>5, <3>7
  <2>4. CASE StartMapUpdate(w)
    <3>1. /\ hand[w] \in Map /\ worker[w] = "got" /\ worker'[w] = "run" /\ hand[w] # None
          /\ \A v \in Worker \ {w} : worker'[v] = worker[v]
          /\ UNCHANGED <<todo, maps, hand, queue>>
      BY <1>1, <1>2, <2>4 DEF StartMapUpdate, TypeOK
    <3>2. w \in Busy /\ Busy' = Busy
      BY <3>1 DEF Busy
    <3>3. \A v \in Busy : hand[v] = hand[w] => v = w
      BY <1>1, <3>2 DEF Scheduling, OneThreadPerMap
    <3>4. hand[w] \notin todo \cup Range(queue)
      BY <1>1, <3>2 DEF Scheduling, OneThreadPerMap, InFlight, Held
    <3>5. /\ {v \in Busy : worker[v] = "got"}' = {v \in Busy : worker[v] = "got"} \ {w}
          /\ {v \in Busy : worker[v] = "run"}' = {v \in Busy : worker[v] = "run"} \cup {w}
          /\ w \in {v \in Busy : worker[v] = "got"}
      BY <3>1, <3>2 DEF Busy
    <3>6. Running' = Running \cup {hand[w]}
      BY <3>1, <3>5 DEF Running
    <3>7. {hand[v] : v \in {u \in Busy : worker[u] = "got"}}'
            = {hand[v] : v \in {u \in Busy : worker[u] = "got"}} \ {hand[w]}
      BY <3>1, <3>3, <3>5
    <3>8. Due' = Due \ {hand[w]} /\ hand[w] \in Due
      BY <3>1, <3>4, <3>5, <3>7 DEF Due
    <3> QED
      BY <3>1, <3>6, <3>8 DEF Tick!TickNext, Tick!StartMap
  <2>5. CASE EndMapUpdate(w)
    <3>1. /\ worker[w] = "run" /\ worker'[w] = "ran" /\ hand[w] # None
          /\ \A v \in Worker \ {w} : worker'[v] = worker[v]
          /\ UNCHANGED <<todo, maps, hand, queue>>
      BY <1>1, <1>2, <2>5 DEF EndMapUpdate, Threads
    <3>2. w \in Busy /\ Busy' = Busy /\ hand[w] \in Map
      BY <1>1, <3>1 DEF Busy, TypeOK
    <3>3. \A v \in Busy : hand[v] = hand[w] => v = w
      BY <1>1, <3>2 DEF Scheduling, OneThreadPerMap
    <3>4. /\ {v \in Busy : worker[v] = "got"}' = {v \in Busy : worker[v] = "got"}
          /\ {v \in Busy : worker[v] = "run"}' = {v \in Busy : worker[v] = "run"} \ {w}
          /\ w \in {v \in Busy : worker[v] = "run"}
      BY <3>1, <3>2 DEF Busy
    <3>5. Running' = Running \ {hand[w]} /\ hand[w] \in Running
      BY <3>1, <3>3, <3>4 DEF Running
    <3>6. {hand[v] : v \in {u \in Busy : worker[u] = "got"}}'
            = {hand[v] : v \in {u \in Busy : worker[u] = "got"}}
      BY <3>1, <3>4
    <3>7. Due' = Due
      BY <3>1, <3>6 DEF Due
    <3> QED
      BY <3>1, <3>2, <3>5, <3>7 DEF Tick!TickNext, Tick!FinishMap
  <2> QED
    BY <1>10, <2>1, <2>2, <2>3, <2>4, <2>5 DEF WorkerStep
<1>11. CASE UNCHANGED vars
  <2>1. UNCHANGED <<todo, queue, hand, worker, maps>>
    BY <1>11 DEF vars
  <2> QED
    BY <1>3, <2>1, DueFrame
<1> QED
  BY <1>3, <1>5, <1>6, <1>7, <1>8, <1>9, <1>10, <1>11 DEF Next, WorldStep, Stopped

LEMMA AdvanceStep ==
    ASSUME Inductive, [Next]_vars
    PROVE  Advance'
<1> USE DEF worldVars, workerVars, transportVars
<1>1. TypeOK /\ Scheduling /\ Threads /\ Ownership /\ Advance /\ TypeOK'
  BY TypeStep DEF Inductive
<1>2. /\ DOMAIN worker = Worker /\ DOMAIN hand = Worker /\ DOMAIN left = Worker
      /\ DOMAIN on = Map /\ DOMAIN mail = Map /\ DOMAIN progress = Transport
      /\ Due \subseteq Map
  <2>1. \A w \in Busy : hand[w] \in Map
    BY <1>1 DEF Busy, TypeOK
  <2>2. Range(queue) \subseteq Map
    BY <1>1 DEF TypeOK, Range
  <2> QED
    BY <1>1, <2>1, <2>2 DEF TypeOK, Due
\* The steps that leave the transports to their maps.
<1>3. ASSUME UNCHANGED <<on, mail, left, progress, clock, Due>>,
             \A w \in Worker : worker[w] = "run" => worker'[w] = "run" \/ left[w] = {}
      PROVE  Advance'
  <2>1. ASSUME NEW t \in Transport, ToMove(t)
        PROVE  ToMove(t)'
    BY <1>3, <2>1 DEF ToMove
  <2> QED
    BY <1>1, <1>3, <2>1 DEF Advance
<1>4. ASSUME at \notin {"schedule", "wait", "asleep"}
      PROVE  Due = {} /\ (\A w \in Worker : worker[w] # "run")
  BY <1>1, <1>4, FlightEmpty DEF Due, Threads
<1>5. ASSUME at \notin {"schedule", "wait", "asleep"},
             UNCHANGED <<progress, clock>>
      PROVE  Advance'
  <2>1. \A t \in Transport : ~ToMove(t)
    BY <1>4, <1>5 DEF ToMove
  <2> QED
    BY <1>1, <1>5, <2>1 DEF Advance
<1>6. CASE \/ \E m \in Map : CreateMap(m) \/ UnloadMap(m)
           \/ UnloadAll \/ UpdateDone \/ Deactivate \/ Cancel \/ Join
  BY <1>5, <1>6
  DEF CreateMap, UnloadMap, UnloadAll, UpdateDone, Deactivate, Cancel, Join
<1>7. CASE StartUpdate
  <2>1. /\ at = "tick" /\ todo' = maps
        /\ UNCHANGED <<on, mail>>
    BY <1>7 DEF StartUpdate
  <2>2. ASSUME NEW t \in Transport
        PROVE  ToMove(t)'
    <3>1. PICK m \in Continent : Places(t) = {m}
      BY <1>1 DEF Ownership
    <3>2. t \in on[m] \cup mail[m]
      BY <3>1 DEF Places
    <3>3. m \in Due'
      BY <1>1, <2>1, <3>1 DEF Ownership, Due
    <3> QED
      BY <2>1, <3>2, <3>3 DEF ToMove
  <2> QED
    BY <2>2 DEF Advance
<1>8. CASE Scheduled \/ Wait
  <2>1. UNCHANGED <<todo, queue, hand, worker, on, mail, left, progress, clock>>
    BY <1>8 DEF Scheduled, Wait
  <2> QED
    BY <1>3, <2>1, DueFrame
<1>9. ASSUME NEW m \in Map, ScheduleUpdate(m)
      PROVE  Advance'
  <2>1. /\ \A w \in Worker : /\ worker'[w] = "got" <=> worker[w] = "got"
                             /\ worker'[w] = "run" <=> worker[w] = "run"
        /\ UNCHANGED <<hand, on, mail, left, progress, clock>>
    BY <1>1, <1>9, WokenType DEF ScheduleUpdate
  <2>2. Range(queue') = Range(queue) \cup {m} /\ m \in todo /\ todo' = todo \ {m}
    BY <1>1, <1>9, RangeAppend DEF ScheduleUpdate, TypeOK
  <2>3. {v \in Busy : worker[v] = "got"}' = {v \in Busy : worker[v] = "got"}
    BY <2>1 DEF Busy
  <2>4. Due' = Due
    BY <2>1, <2>2, <2>3 DEF Due
  <2> QED
    BY <1>3, <2>1, <2>4
<1>10. ASSUME NEW w \in Worker, WorkerStep(w) \/ SpuriousWakeUp(w)
       PROVE  Advance'
  <2>1. CASE FallAsleep(w) \/ PopNothing(w) \/ SpuriousWakeUp(w)
    <3>1. hand[w] = None /\ worker[w] \in {"pop", "asleep"}
      BY <1>1, <2>1 DEF FallAsleep, PopNothing, SpuriousWakeUp, Threads
    <3>2. \A v \in Worker \ {w} : worker'[v] = worker[v]
      BY <1>1, <2>1 DEF FallAsleep, PopNothing, SpuriousWakeUp, TypeOK
    <3>3. UNCHANGED <<todo, queue, hand, on, mail, left, progress, clock>>
      BY <2>1 DEF FallAsleep, PopNothing, SpuriousWakeUp
    <3>4. Due' = Due
      BY <3>1, <3>2, <3>3, DueFrame
    <3> QED
      BY <1>3, <3>1, <3>2, <3>3, <3>4
  <2>2. CASE Pop(w)
    <3>1. UNCHANGED <<on, mail, left, progress, clock>>
      BY <2>2 DEF Pop
    <3>2. \A v \in Worker : worker[v] = "run" => worker'[v] = "run"
      BY <1>2, <2>2 DEF Pop
    <3>3. Due \subseteq Due'
      <4>1. Range(queue) = {Head(queue)} \cup Range(queue') /\ Head(queue) # None
        <5>1. /\ queue \in Seq(Map) /\ queue # <<>> /\ IsInjective(queue)
              /\ queue' = Tail(queue)
          BY <1>1, <2>2 DEF Pop, Popped, TypeOK, Scheduling, OneThreadPerMap
        <5> QED
          BY <5>1, RangeTail, UpdaterAssumption
      <4>2. /\ hand'[w] = Head(queue) /\ hand[w] = None
            /\ worker'[w] = "got"
            /\ \A v \in Worker \ {w} : worker'[v] = worker[v] /\ hand'[v] = hand[v]
            /\ todo' = todo
        BY <1>1, <1>2, <2>2 DEF Pop, Threads
      <4>3. /\ w \in Busy' /\ w \notin Busy
            /\ \A v \in Busy : worker[v] = "got" =>
                  v \in Busy' /\ worker'[v] = "got" /\ hand'[v] = hand[v]
        BY <4>1, <4>2 DEF Busy
      <4>4. \A v \in Busy : worker[v] = "got" => hand[v] \in Due'
        BY <4>3 DEF Due
      <4>5. Head(queue) \in Due'
        BY <4>2, <4>3 DEF Due
      <4> QED
        BY <4>1, <4>2, <4>4, <4>5 DEF Due
    <3>4. ASSUME NEW t \in Transport, ToMove(t)
          PROVE  ToMove(t)'
      BY <3>1, <3>2, <3>3, <3>4 DEF ToMove
    <3> QED
      BY <1>1, <3>1, <3>4 DEF Advance
  <2>3. CASE EndWorker(w)
    BY <1>1, <1>5, <2>3 DEF EndWorker, Threads
  <2>4. CASE StartMapUpdate(w)
    <3>1. /\ hand[w] \in Map /\ worker[w] = "got" /\ worker'[w] = "run"
          /\ \A v \in Worker \ {w} : worker'[v] = worker[v] /\ left'[v] = left[v]
          /\ UNCHANGED <<todo, hand, queue, progress, clock>>
          /\ left'[w] = on[hand[w]] \cup mail[hand[w]]
          /\ \A m \in Map \ {hand[w]} : on'[m] = on[m] /\ mail'[m] = mail[m]
      BY <1>1, <1>2, <2>4 DEF StartMapUpdate, Arrived, TypeOK
    <3>2. Busy' = Busy
      BY <3>1 DEF Busy
    <3>3. Due \ {hand[w]} \subseteq Due'
      <4>1. \A v \in Busy : worker[v] = "got" /\ hand[v] # hand[w] => hand[v] \in Due'
        BY <3>1, <3>2 DEF Due, Busy
      <4> QED
        BY <3>1, <4>1 DEF Due
    <3>4. ASSUME NEW t \in Transport, ToMove(t)
          PROVE  ToMove(t)'
      <4>1. CASE t \in on[hand[w]] \cup mail[hand[w]]
        BY <3>1, <4>1 DEF ToMove
      <4>2. CASE \E m \in Due \ {hand[w]} : t \in on[m] \cup mail[m]
        <5>1. PICK m \in Due \ {hand[w]} : t \in on[m] \cup mail[m]
          BY <4>2
        <5>2. m \in Due' /\ on'[m] = on[m] /\ mail'[m] = mail[m]
          BY <1>2, <3>1, <3>3, <5>1
        <5> QED
          BY <5>1, <5>2 DEF ToMove
      <4>3. CASE \E v \in Worker : worker[v] = "run" /\ t \in left[v]
        BY <3>1, <4>3 DEF ToMove
      <4> QED
        BY <3>4, <4>1, <4>2, <4>3 DEF ToMove
    <3> QED
      BY <1>1, <3>1, <3>4 DEF Advance
  <2>5. CASE EndMapUpdate(w)
    <3>1. /\ worker[w] = "run" /\ left[w] = {}
          /\ \A v \in Worker \ {w} : worker'[v] = worker[v]
          /\ worker'[w] = "ran"
          /\ UNCHANGED <<todo, queue, hand, on, mail, left, progress, clock>>
      BY <1>2, <2>5 DEF EndMapUpdate
    <3>2. Due' = Due
      <4>1. {v \in Busy : worker[v] = "got"}' = {v \in Busy : worker[v] = "got"}
        BY <3>1 DEF Busy
      <4> QED
        BY <3>1, <4>1 DEF Due
    <3> QED
      BY <1>3, <3>1, <3>2
  <2>6. CASE UpdateFinished(w)
    <3>1. /\ worker[w] = "ran" /\ worker'[w] = "pop"
          /\ \A v \in Worker \ {w} : worker'[v] = worker[v] /\ hand'[v] = hand[v]
          /\ UNCHANGED <<todo, queue, on, mail, left, progress, clock>>
      BY <1>2, <2>6 DEF UpdateFinished
    <3>2. Due' = Due
      BY <3>1, DueFrame
    <3> QED
      BY <1>3, <3>1, <3>2
  <2>7. ASSUME NEW t \in Transport,
               UpdateTransport(w, t) \/ \E m \in Map : TeleportTransport(w, t, m)
        PROVE  Advance'
    <3>1. UNCHANGED <<todo, queue, hand, worker, clock>>
      BY <2>7 DEF UpdateTransport, TeleportTransport
    <3>2. Due' = Due
      BY <3>1, DueFrame
    <3>3. progress'[t] = clock
      BY <1>2, <2>7 DEF UpdateTransport, TeleportTransport
    <3>4. ASSUME NEW u \in Transport, u # t
          PROVE  /\ progress'[u] = progress[u]
                 /\ \A v \in Worker : u \in left'[v] <=> u \in left[v]
                 /\ \A n \in Map : u \in on'[n] \cup mail'[n] <=> u \in on[n] \cup mail[n]
      <4>1. CASE UpdateTransport(w, t)
        BY <1>2, <3>4, <4>1 DEF UpdateTransport, Stepped
      <4>2. CASE \E m \in Map : TeleportTransport(w, t, m)
        BY <1>2, <3>4, <4>2 DEF TeleportTransport, Stepped, Posted
      <4> QED
        BY <2>7, <4>1, <4>2
    <3>5. ASSUME NEW u \in Transport, u # t, ToMove(u)
          PROVE  ToMove(u)'
      BY <1>2, <3>1, <3>2, <3>4, <3>5 DEF ToMove
    <3> QED
      BY <1>1, <3>1, <3>3, <3>4, <3>5 DEF Advance
  <2> QED
    BY <1>10, <2>1, <2>2, <2>3, <2>4, <2>5, <2>6, <2>7 DEF WorkerStep
<1>11. CASE UNCHANGED vars
  <2>1. UNCHANGED <<todo, queue, hand, worker, on, mail, left, progress, clock>>
    BY <1>11 DEF vars
  <2> QED
    BY <1>3, <2>1, DueFrame
<1> QED
  BY <1>6, <1>7, <1>8, <1>9, <1>10, <1>11 DEF Next, WorldStep, Stopped

\* Only a step that finds the queue empty puts a worker to sleep, and a request
\* wakes one if all sleep.
LEMMA WakeupStep ==
    ASSUME Inductive, NoLostWakeup, [Next]_vars
    PROVE  NoLostWakeup'
<1> USE DEF worldVars, workerVars, transportVars
<1>1. TypeOK /\ Scheduling /\ DOMAIN worker = Worker
  BY DEF Inductive, TypeOK
\* The steps that add no request, nor put anyone to sleep.
<1>2. ASSUME queue' # <<>> => queue # <<>>,
             \A w \in Worker : worker'[w] = "asleep" => worker[w] = "asleep",
             at' = "asleep" => at = "asleep" /\ pending' = pending
      PROVE  NoLostWakeup'
  BY <1>2 DEF NoLostWakeup
<1>3. CASE \/ \E m \in Map : CreateMap(m) \/ UnloadMap(m)
           \/ StartUpdate \/ Scheduled \/ UpdateDone \/ UnloadAll \/ Deactivate \/ Join
  BY <1>2, <1>3
  DEF CreateMap, UnloadMap, StartUpdate, Scheduled, UpdateDone, UnloadAll,
      Deactivate, Join
<1>4. CASE Cancel
  BY <1>4 DEF Cancel, NoLostWakeup
<1>5. CASE Wait
  <2>1. at' = "asleep" => pending' > 0
    BY <1>5 DEF Wait, MustWait
  <2>2. UNCHANGED <<queue, worker>>
    BY <1>5 DEF Wait
  <2> QED
    BY <2>1, <2>2 DEF NoLostWakeup
<1>6. ASSUME NEW m \in Map, ScheduleUpdate(m)
      PROVE  NoLostWakeup'
  <2>1. at' # "asleep"
    BY <1>6 DEF ScheduleUpdate
  <2>2. \E w \in Worker : worker'[w] # "asleep"
    <3>1. worker' \in Woken(worker)
      BY <1>6 DEF ScheduleUpdate
    <3>2. CASE \A w \in Worker : worker[w] # "asleep"
      BY <3>1, <3>2, UpdaterAssumption DEF Woken
    <3>3. CASE \E w \in Worker : worker[w] = "asleep"
      BY <1>1, <3>1, <3>3 DEF Woken
    <3> QED
      BY <3>2, <3>3
  <2> QED
    BY <2>1, <2>2 DEF NoLostWakeup
<1>7. ASSUME NEW w \in Worker, WorkerStep(w) \/ SpuriousWakeUp(w)
      PROVE  NoLostWakeup'
  <2>1. CASE FallAsleep(w)
    BY <2>1 DEF FallAsleep, NoLostWakeup
  <2>2. CASE \/ Pop(w) \/ PopNothing(w) \/ SpuriousWakeUp(w) \/ EndWorker(w)
             \/ StartMapUpdate(w) \/ EndMapUpdate(w)
    <3>1. \A v \in Worker : worker'[v] = "asleep" => worker[v] = "asleep"
      BY <1>1, <2>2 DEF Pop, PopNothing, SpuriousWakeUp, EndWorker,
                        StartMapUpdate, EndMapUpdate
    <3>2. /\ queue' # <<>> => queue # <<>>
          /\ UNCHANGED <<at, pending>>
      BY <2>2 DEF Pop, PopNothing, SpuriousWakeUp, EndWorker,
                  StartMapUpdate, EndMapUpdate
    <3> QED
      BY <1>2, <3>1, <3>2
  <2>3. CASE UpdateFinished(w)
    BY <1>1, <1>2, <2>3 DEF UpdateFinished, Notified
  <2>4. CASE \E t \in Transport :
               \/ UpdateTransport(w, t)
               \/ \E m \in Map : TeleportTransport(w, t, m)
    BY <1>2, <2>4 DEF UpdateTransport, TeleportTransport
  <2> QED
    BY <1>7, <2>1, <2>2, <2>3, <2>4 DEF WorkerStep
<1>8. CASE UNCHANGED vars
  BY <1>2, <1>8 DEF vars
<1> QED
  BY <1>3, <1>4, <1>5, <1>6, <1>7, <1>8 DEF Next, WorldStep, Stopped

-----------------------------------------------------------------------------
(* The theorems.                                                           *)

\* The inductive invariant holds always.
THEOREM InductiveInvariant == Spec => []Inductive
<1>1. Inductive /\ [Next]_vars => Inductive'
  BY TypeStep, SchedulingStep, ThreadsStep, OwnershipStep, AdvanceStep DEF Inductive
<1> QED
  BY <1>1, InductiveInit, PTL DEF Spec

\* The variables of the updater keep their types; in particular
\* pending_requests never wraps below zero in update_finished.
THEOREM TypeCorrect == Spec => []TypeOK
<1>1. Inductive => TypeOK
  BY DEF Inductive
<1> QED
  BY <1>1, InductiveInvariant, PTL

\* No map is requested twice or updated by two workers at a time, so that
\* Map::Update needs no lock of its own.
THEOREM OneThread == Spec => []OneThreadPerMap
<1>1. Inductive => OneThreadPerMap
  BY DEF Inductive, Scheduling
<1> QED
  BY <1>1, InductiveInvariant, PTL

\* When MapUpdater::wait returns no worker has, or will pop, a map: the world
\* thread may create and unload maps, and run every other handler, without locks.
THEOREM WorldIsAlone == Spec => []WorldAlone
<1>1. Inductive => WorldAlone
  BY DEF Inductive, Scheduling
<1> QED
  BY <1>1, InductiveInvariant, PTL

\* A request never names a map that MapManager has deleted.
THEOREM RequestsAreValid == Spec => []RequestsValid
<1>1. Inductive => RequestsValid
  BY DEF Inductive, Scheduling, RequestsValid
<1> QED
  BY <1>1, InductiveInvariant, PTL

\* A worker that has popped nothing finds the token set and ends: it never
\* calls execute on a null request.
THEOREM NoNullRequestIsRun == Spec => []NoNullRequest
<1>1. Inductive => NoNullRequest
  BY DEF Inductive, Threads, NoNullRequest
<1> QED
  BY <1>1, InductiveInvariant, PTL

\* Neither a request nor the end of the last update is slept through: with
\* requests in the queue some worker is awake, and the world thread sleeps in
\* wait() only while a request is open.
THEOREM NoWakeupIsLost == Spec => []NoLostWakeup
<1>1. Init => NoLostWakeup
  BY DEF Init, NoLostWakeup
<1>2. Inductive /\ NoLostWakeup /\ [Next]_vars => NoLostWakeup'
  BY WakeupStep
<1> QED
  BY <1>1, <1>2, InductiveInvariant, PTL DEF Spec

\* A transport that changes maps is never lost and never on two of them.
THEOREM TransportIsOwned == Spec => []TransportOwned
<1>1. Inductive => TransportOwned
  <2> SUFFICES ASSUME Inductive, NEW t \in Transport
               PROVE  /\ \E m \in Map : Places(t) = {m}
                      /\ \A m \in Map : t \notin on[m] \cap mail[m]
    BY DEF TransportOwned
  <2>1. PICK m \in Continent : Places(t) = {m} /\ t \notin on[m] \cap mail[m]
    BY DEF Inductive, Ownership
  <2>2. m \in Map
    BY UpdaterAssumption
  <2>3. \A n \in Map : t \in on[n] \cup mail[n] <=> n = m
    BY <2>1, <2>2, PlacesFrame DEF Inductive
  <2> QED
    BY <2>1, <2>2, <2>3
<1> QED
  BY <1>1, InductiveInvariant, PTL

\* A worker moves only transports of the map that it holds, so that no two
\* threads move the same transport.
THEOREM TransportIsExclusive == Spec => []TransportExclusive
<1>1. Inductive => TransportExclusive
  BY DEF Inductive, Ownership, Threads, TransportExclusive
<1> QED
  BY <1>1, InductiveInvariant, PTL

\* At the end of the wait every transport has been moved to the tick's clock,
\* in whatever order the workers have taken the maps it has crossed.
THEOREM AllAreAdvanced == Spec => []AllAdvanced
<1>1. Inductive => AllAdvanced
  <2> SUFFICES ASSUME Inductive, at = "unload", NEW t \in Transport
               PROVE  progress[t] = clock
    BY DEF AllAdvanced
  <2>1. /\ Range(queue) = {} /\ Busy = {} /\ todo = {}
        /\ \A w \in Worker : hand[w] = None
    BY FlightEmpty DEF Inductive
  <2>2. ~ToMove(t)
    BY <2>1 DEF ToMove, Due, Inductive, Threads
  <2> QED
    BY <2>2 DEF Inductive, Advance
<1> QED
  BY <1>1, InductiveInvariant, PTL

\* The updater implements MapTick: with any number of workers every map is
\* updated once in a tick, and the set of maps changes only between updates.
THEOREM MapTickIsImplemented == Spec => ImplementsMapTick
<1>1. Init => Tick!TickInit
  <2> SUFFICES ASSUME Init PROVE Tick!TickInit
    OBVIOUS
  <2>1. Range(queue) = {} /\ Busy = {} /\ todo = {} /\ maps \in SUBSET Map
    BY UpdaterAssumption DEF Init, Range, Busy
  <2>2. Due = {} /\ Running = {}
    BY <2>1 DEF Due, Running
  <2> QED
    BY <2>1, <2>2 DEF Tick!TickInit, Tick!Quiet
<1>2. Inductive /\ [Next]_vars => [Tick!TickNext]_(Tick!tickVars)
  BY TickStep
<1> QED
  BY <1>1, <1>2, InductiveInvariant, PTL DEF Spec, ImplementsMapTick, Tick!TickSpec

=============================================================================
