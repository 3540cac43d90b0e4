------------------------------- MODULE MapTick --------------------------------
(***************************************************************************)
(* What MapManager::Update promises: in every tick each map is updated     *)
(* once, by one thread, and maps come and go only while none is updated.   *)
(***************************************************************************)
CONSTANT Map

VARIABLES
    alive,      \* the maps that exist
    due,        \* those that this tick has still to update
    running     \* those that a thread is updating

tickVars == <<alive, due, running>>

Quiet == due = {} /\ running = {}

TickInit == alive \in SUBSET Map /\ Quiet

BeginTick ==
    /\ Quiet
    /\ due' = alive
    /\ UNCHANGED <<alive, running>>

StartMap(m) ==
    /\ m \in due
    /\ due' = due \ {m}
    /\ running' = running \cup {m}
    /\ UNCHANGED alive

FinishMap(m) ==
    /\ m \in running
    /\ running' = running \ {m}
    /\ UNCHANGED <<alive, due>>

ChangeMaps ==
    /\ Quiet
    /\ alive' \in SUBSET Map
    /\ UNCHANGED <<due, running>>

TickNext ==
    \/ BeginTick
    \/ \E m \in Map : StartMap(m) \/ FinishMap(m)
    \/ ChangeMaps

TickSpec == TickInit /\ [][TickNext]_tickVars

=============================================================================
