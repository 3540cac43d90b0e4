--------------------------------- MODULE Trade --------------------------------
(***************************************************************************)
(* Trading between two players (TradeHandler.cpp, TradeData).  Each player *)
(* has a pointer m_trade to a TradeData that names its partner; the two    *)
(* are made and deleted together.                                          *)
(*                                                                         *)
(* The packets of trade run in the world thread, in World::UpdateSessions; *)
(* each is one step.  The movement packets run afterwards in Map::Update,  *)
(* where every map has a thread of its own, and end a trade of players who *)
(* are too far apart: there TradeCancel is taken one access at a time.     *)
(*                                                                         *)
(* Left out: the slot that is not traded and spells cast on it, stacks of  *)
(* items that merge, and what keeps a player from starting a trade at all  *)
(* (death, stun, taxi, faction).                                           *)
(***************************************************************************)
EXTENDS Goods, Integers, FiniteSets

CONSTANTS
    Map,
    Spot,                   \* positions on a map: integers
    TradeDistance,          \* TRADE_DISTANCE
    InteractionDistance,    \* INTERACTION_DISTANCE
    Slots,                  \* TRADE_SLOT_TRADED_COUNT
    Bag0, Gold0,            \* what the players have at first
    MaxTrades,              \* bound: trades that are started
    MaxEvents               \* bound: teleports, logouts, crashes, changes of goods

Nobody == "nobody"
ASSUME TradeAssumption ==
    /\ Nobody \notin Player
    /\ Spot \subseteq Int
    /\ {TradeDistance, InteractionDistance, Slots} \subseteq Nat
    /\ {MaxTrades, MaxEvents} \subseteq Nat
    /\ [bag |-> Bag0, gold |-> Gold0] \in Holdings
    /\ OneOwner([bag |-> Bag0])

VARIABLES
    phase,      \* "sessions": World::UpdateSessions, "maps": MapManager::Update
    trade,      \* m_trade of each player, and what it points to
    thread,     \* the TradeCancel under way on the thread of each map
    place,      \* where each player is
    goods,      \* inventory and money
    locked,     \* items for which CanBeTraded is false
    saved,      \* character_inventory and characters.money
    misused,    \* a TradeData was used or deleted again after its deletion
    did         \* history: how often each bounded step was taken

vars == <<phase, trade, thread, place, goods, locked, saved, misused, did>>

Travelling == [state |-> "travelling"]  \* removed from one map, not yet on the next
Offline == [state |-> "offline"]
Places == [map : Map, spot : Spot]

\* A TradeData and the pointer to it: m_trader, m_accepted, m_money, m_items.
Trades == [with : Player, deleted : BOOLEAN, accepted : BOOLEAN,
           money : 0..MaxGold, items : SUBSET Item]
NoTrade == [with |-> Nobody]
NewTrade(q) == [with |-> q, deleted |-> FALSE, accepted |-> FALSE,
                money |-> 0, items |-> {}]

Idle == [at |-> "idle"]
Cancels == [at : {"check", "read", "deleteOwn", "clearOwn", "deleteOther", "clearOther"},
            who : Player, trader : Player]

TypeOK ==
    /\ phase \in {"sessions", "maps"}
    /\ trade \in [Player -> Trades \cup {NoTrade}]
    /\ thread \in [Map -> Cancels \cup {Idle}]
    /\ place \in [Player -> Places \cup {Travelling, Offline}]
    /\ goods \in Holdings
    /\ locked \subseteq Item
    /\ saved \in [row : [Item -> Player \cup {Nobody}], gold : [Player -> 0..MaxGold]]
    /\ misused \in BOOLEAN
    /\ did \in [trades : 0..MaxTrades, events : 0..MaxEvents]

Holder(bag, i) ==
    IF \E p \in Player : i \in bag[p] THEN CHOOSE p \in Player : i \in bag[p]
    ELSE Nobody

Init ==
    /\ phase = "sessions"
    /\ trade = [p \in Player |-> NoTrade]
    /\ thread = [m \in Map |-> Idle]
    /\ place \in [Player -> Places \cup {Offline}]
    /\ goods = [bag |-> Bag0, gold |-> Gold0]
    /\ locked = {}
    /\ saved = [row |-> [i \in Item |-> Holder(Bag0, i)], gold |-> Gold0]
    /\ misused = FALSE
    /\ did = [trades |-> 0, events |-> 0]

-----------------------------------------------------------------------------
(* A definition whose name ends in a remark after "__" is a defect that the *)
(* properties are tried against; no action uses it.                         *)

InWorld(p) == place[p] \in Places
Trading(p) == trade[p] # NoTrade
Partner(p) == trade[p].with

\* p can send packets: it is in the world and its session is updated.
Ready(p) == phase = "sessions" /\ InWorld(p) /\ ~misused

Tally(c, bound) == did[c] < bound /\ did' = [did EXCEPT ![c] = @ + 1]

\* A player at k is within distance d of p.
IsWithinDist(k, p, d) ==
    /\ k \in Places /\ InWorld(p)
    /\ k.map = place[p].map
    /\ k.spot - place[p].spot \in -d..d
IsWithinDistInMap(p, q, d) == IsWithinDist(place[p], q, d)

\* The TradeData of the players S are read or written.
Touch(S) == misused' = \E p \in S : Trading(p) /\ trade[p].deleted

\* What SetItem and SetMoney do when p has changed its offer.
Unaccepted__Own(t, p) == [t EXCEPT ![p].accepted = FALSE]
Unaccepted(t, p) ==
    [t EXCEPT ![p].accepted = FALSE, ![t[p].with].accepted = FALSE]

\* TradeCancel in one step.
Cancelled__Dangling(t, p) ==
    IF t[p] = NoTrade THEN t
    ELSE [t EXCEPT ![p] = NoTrade, ![t[p].with].deleted = TRUE]
Cancelled(t, p) ==
    IF t[p] = NoTrade THEN t ELSE [t EXCEPT ![p] = NoTrade, ![t[p].with] = NoTrade]

\* _SaveInventory and SaveGoldToDB of the players S, in one transaction: the
\* rows of what they hold now, and of what they have destroyed.
SavedWith(S, h) ==
    [row |-> [i \in Item |->
                LET p == Holder(h.bag, i) IN
                IF p \in S THEN p
                ELSE IF p = Nobody /\ saved.row[i] \in S THEN Nobody
                ELSE saved.row[i]],
     gold |-> [p \in Player |-> IF p \in S THEN h.gold[p] ELSE saved.gold[p]]]

-----------------------------------------------------------------------------
(* The packets of trade, in the world thread.                              *)

InitiateTrade__Busy(p, q) ==
    /\ Ready(p) /\ ~Trading(p)
    /\ InWorld(q) /\ p # q
    /\ IsWithinDistInMap(q, p, TradeDistance)
    /\ Tally("trades", MaxTrades)
    /\ trade' = [trade EXCEPT ![p] = NewTrade(q), ![q] = NewTrade(p)]
    /\ UNCHANGED <<phase, thread, place, goods, locked, saved, misused>>
InitiateTrade(p, q) ==
    /\ Ready(p) /\ ~Trading(p)
    /\ InWorld(q) /\ p # q /\ ~Trading(q)
    /\ IsWithinDistInMap(q, p, TradeDistance)
    /\ Tally("trades", MaxTrades)
    /\ trade' = [trade EXCEPT ![p] = NewTrade(q), ![q] = NewTrade(p)]
    /\ UNCHANGED <<phase, thread, place, goods, locked, saved, misused>>

\* A step in which a player who trades changes only the two TradeData.
Edits(p, new) ==
    /\ trade' = new
    /\ Touch({p, Partner(p)})
    /\ UNCHANGED <<phase, thread, place, goods, locked, saved, did>>

SetTradeGold(p) ==
    /\ Ready(p) /\ Trading(p)
    /\ \E n \in 0..MaxGold :
          /\ n # trade[p].money /\ n <= goods.gold[p]
          /\ Edits(p, Unaccepted([trade EXCEPT ![p].money = n], p))

\* Into an empty slot, or in the place of another item.
SetTradeItem(p) ==
    /\ Ready(p) /\ Trading(p)
    /\ \E i \in goods.bag[p] \ (locked \cup trade[p].items) :
       \E out \in SUBSET trade[p].items :
          LET items == (trade[p].items \ out) \cup {i} IN
          /\ Cardinality(out) <= 1 /\ Cardinality(items) <= Slots
          /\ Edits(p, Unaccepted([trade EXCEPT ![p].items = items], p))

ClearTradeItem(p) ==
    /\ Ready(p) /\ Trading(p)
    /\ \E i \in trade[p].items :
          Edits(p, Unaccepted([trade EXCEPT ![p].items = @ \ {i}], p))

UnacceptTrade(p) ==
    /\ Ready(p) /\ Trading(p)
    /\ Edits(p, [trade EXCEPT ![p].accepted = FALSE])

\* Also IgnoreTrade, BusyTrade and the start of a taxi flight.
CancelTrade(p) ==
    /\ Ready(p) /\ Trading(p)
    /\ Edits(p, Cancelled(trade, p))

\* GetItem finds only what its player still has.
Given(p) == trade[p].items \cap goods.bag[p]

\* CanStoreItems, for which what p gives is no longer there.
Fits(p, in) == Cardinality((goods.bag[p] \ Given(p)) \cup in) <= Room

Purse__Uncapped(g, out, in) == g - out + in
\* ModifyMoney(-out), then ModifyMoney(in).
Purse(g, out, in) ==
    LET rest == IF g > out THEN g - out ELSE 0 IN
    IF rest < MaxGold - in THEN rest + in ELSE MaxGold

Swapped(p, q) ==
    [bag |-> [goods.bag EXCEPT ![p] = (@ \ Given(p)) \cup Given(q),
                               ![q] = (@ \ Given(q)) \cup Given(p)],
     gold |-> [goods.gold EXCEPT ![p] = Purse(@, trade[p].money, trade[q].money),
                                 ![q] = Purse(@, trade[q].money, trade[p].money)]]

\* What keeps an accept by p from completing the trade, in the order in which
\* the code asks; "" if nothing does.
Obstacle__Unpaid(p, q) ==
    IF ~IsWithinDistInMap(p, q, TradeDistance) THEN "distance"
    ELSE IF (Given(p) \cup Given(q)) \cap locked # {} THEN "items"
    ELSE IF ~trade[q].accepted THEN "waiting"
    ELSE IF ~(Fits(p, Given(q)) /\ Fits(q, Given(p))) THEN "room"
    ELSE ""
Obstacle(p, q) ==
    IF ~IsWithinDistInMap(p, q, TradeDistance) THEN "distance"
    ELSE IF trade[p].money > goods.gold[p] THEN "my money"
    ELSE IF trade[q].money > goods.gold[q] THEN "his money"
    ELSE IF (Given(p) \cup Given(q)) \cap locked # {} THEN "items"
    ELSE IF ~trade[q].accepted THEN "waiting"
    ELSE IF ~(Fits(p, Given(q)) /\ Fits(q, Given(p))) THEN "room"
    ELSE ""

\* The accept is noted, or taken back at once: by p, by the partner, by both.
NoteAccept(p, q) ==
    LET why == Obstacle(p, q)
        mine == why \in {"his money", "items", "waiting"}
        his == trade[q].accepted /\ why \notin {"his money", "room"}
    IN /\ why # ""
       /\ Edits(p, [trade EXCEPT ![p].accepted = mine, ![q].accepted = his])

CompleteTrade__SaveOne(p, q) ==
    /\ Obstacle(p, q) = ""
    /\ goods' = Swapped(p, q)
    /\ saved' = SavedWith({p}, Swapped(p, q))
    /\ trade' = [trade EXCEPT ![p] = NoTrade, ![q] = NoTrade]
    /\ Touch({p, q})
    /\ UNCHANGED <<phase, thread, place, locked, did>>
CompleteTrade(p, q) ==
    /\ Obstacle(p, q) = ""
    /\ goods' = Swapped(p, q)
    /\ saved' = SavedWith({p, q}, Swapped(p, q))
    /\ trade' = [trade EXCEPT ![p] = NoTrade, ![q] = NoTrade]
    /\ Touch({p, q})
    /\ UNCHANGED <<phase, thread, place, locked, did>>

AcceptTrade(p) ==
    LET q == Partner(p) IN
    /\ Ready(p) /\ Trading(p) /\ Trading(q)
    /\ NoteAccept(p, q) \/ CompleteTrade(p, q)

-----------------------------------------------------------------------------
(* What else the world thread does with a player.                          *)

\* A far teleport ends no trade.  It may also start on the map's own thread.
Depart(p) ==
    /\ InWorld(p) /\ ~misused
    /\ phase = "maps" => thread[place[p].map] = Idle
    /\ Tally("events", MaxEvents)
    /\ place' = [place EXCEPT ![p] = Travelling]
    /\ UNCHANGED <<phase, trade, thread, goods, locked, saved, misused>>

\* HandleMoveWorldportAckOpcode, or a login with what the database has.
Arrive(p) ==
    /\ phase = "sessions" /\ ~InWorld(p) /\ ~misused
    /\ \E l \in Places : place' = [place EXCEPT ![p] = l]
    /\ UNCHANGED <<phase, trade, thread, goods, locked, saved, misused, did>>

\* LogoutPlayer: SaveToDB, then CleanupsBeforeDelete.
Logout(p) ==
    /\ Ready(p)
    /\ Tally("events", MaxEvents)
    /\ saved' = SavedWith({p}, goods)
    /\ trade' = Cancelled(trade, p)
    /\ Touch({p} \cup (IF Trading(p) THEN {Partner(p)} ELSE {}))
    /\ place' = [place EXCEPT ![p] = Offline]
    /\ UNCHANGED <<phase, thread, goods, locked>>

\* Items and gold come and go outside trade: an item is destroyed or expires,
\* or becomes one that can be traded no longer (soulbound, being looted).
Change(p) ==
    /\ InWorld(p) /\ ~misused
    /\ phase = "maps" => thread[place[p].map] = Idle
    /\ Tally("events", MaxEvents)
    /\ \/ \E i \in goods.bag[p] :
            /\ goods' = [goods EXCEPT !.bag[p] = @ \ {i}]
            /\ UNCHANGED locked
       \/ \E n \in 1..MaxGold :
            /\ \/ goods' = [goods EXCEPT !.gold[p] = Purse(@, n, 0)]
               \/ goods' = [goods EXCEPT !.gold[p] = Purse(@, 0, n)]
            /\ UNCHANGED locked
       \/ \E i \in goods.bag[p] :
            /\ locked' = IF i \in locked THEN locked \ {i} ELSE locked \cup {i}
            /\ UNCHANGED goods
    /\ UNCHANGED <<phase, trade, thread, place, saved, misused>>

\* The periodic SaveToDB.
SavePlayer(p) ==
    /\ InWorld(p) /\ ~misused
    /\ phase = "maps" => thread[place[p].map] = Idle
    /\ saved' = SavedWith({p}, goods)
    /\ UNCHANGED <<phase, trade, thread, place, goods, locked, misused, did>>

-----------------------------------------------------------------------------
(* The threads of the maps.                                                *)

BeginMaps ==
    /\ phase = "sessions" /\ ~misused
    /\ phase' = "maps"
    /\ UNCHANGED <<trade, thread, place, goods, locked, saved, misused, did>>

EndMaps ==
    /\ phase = "maps" /\ ~misused
    /\ \A m \in Map : thread[m] = Idle
    /\ phase' = "sessions"
    /\ UNCHANGED <<trade, thread, place, goods, locked, saved, misused, did>>

\* SetPosition, which asks GetTrader at its end.
SetPosition(p) ==
    /\ phase = "maps" /\ InWorld(p) /\ ~misused
    /\ thread[place[p].map] = Idle
    /\ \E s \in Spot :
          LET k == [place[p] EXCEPT !.spot = s] IN
          /\ k # place[p]
          /\ place' = [place EXCEPT ![p] = k]
          /\ IF Trading(p) /\ ~IsWithinDist(k, Partner(p), InteractionDistance)
             THEN thread' = [thread EXCEPT ![k.map] =
                                [at |-> "check", who |-> p, trader |-> Partner(p)]]
             ELSE UNCHANGED thread
    /\ Touch({p})
    /\ UNCHANGED <<phase, trade, goods, locked, saved, did>>

\* One access of the TradeCancel on map m, from state at to state next.
Access(m, at, next) ==
    /\ phase = "maps" /\ ~misused
    /\ thread[m].at = at
    /\ thread' = [thread EXCEPT ![m] = IF next = "idle" THEN Idle
                                       ELSE [@ EXCEPT !.at = next]]
    /\ UNCHANGED <<phase, place, goods, locked, saved, did>>

CheckTrade(m) ==
    /\ IF thread[m] # Idle /\ Trading(thread[m].who)
       THEN Access(m, "check", "read")
       ELSE Access(m, "check", "idle")
    /\ UNCHANGED <<trade, misused>>

\* m_trade->GetTrader(), of a pointer that may be null by now.
ReadTrader(m) ==
    /\ Access(m, "read", "deleteOwn")
    /\ misused' = (~Trading(thread[m].who) \/ trade[thread[m].who].deleted)
    /\ UNCHANGED trade

Delete(p) ==
    /\ trade' = IF Trading(p) THEN [trade EXCEPT ![p].deleted = TRUE] ELSE trade
    /\ Touch({p})

Clear(p) == trade' = [trade EXCEPT ![p] = NoTrade] /\ UNCHANGED misused

MapCancel(m) ==
    \/ CheckTrade(m)
    \/ ReadTrader(m)
    \/ Access(m, "deleteOwn", "clearOwn") /\ Delete(thread[m].who)
    \/ Access(m, "clearOwn", "deleteOther") /\ Clear(thread[m].who)
    \/ Access(m, "deleteOther", "clearOther") /\ Delete(thread[m].trader)
    \/ Access(m, "clearOther", "idle") /\ Clear(thread[m].trader)

-----------------------------------------------------------------------------
(* The process dies, and everybody logs in again from the database.  Each  *)
(* save is one transaction of an asynchronous queue that is executed in    *)
(* order: a crash that loses the last of them is one that came earlier.    *)

Crash ==
    /\ ~misused /\ Tally("events", MaxEvents)
    /\ phase' = "sessions"
    /\ trade' = [p \in Player |-> NoTrade]
    /\ thread' = [m \in Map |-> Idle]
    /\ place' = [p \in Player |-> Offline]
    /\ goods' = [bag |-> [p \in Player |-> {i \in Item : saved.row[i] = p}],
                 gold |-> saved.gold]
    /\ locked' \in SUBSET locked
    /\ UNCHANGED <<saved, misused>>

Next ==
    \/ \E p, q \in Player : InitiateTrade(p, q)
    \/ \E p \in Player :
          \/ SetTradeGold(p) \/ SetTradeItem(p) \/ ClearTradeItem(p)
          \/ AcceptTrade(p) \/ UnacceptTrade(p) \/ CancelTrade(p)
          \/ Depart(p) \/ Arrive(p) \/ Logout(p) \/ Change(p) \/ SavePlayer(p)
          \/ SetPosition(p)
    \/ BeginMaps \/ EndMaps
    \/ \E m \in Map : MapCancel(m)
    \/ Crash

Spec == Init /\ [][Next]_vars

-----------------------------------------------------------------------------
(* Properties.                                                             *)

\* While the sessions are updated a trade is mutual: both sides are there, and
\* neither is left with a partner that trades with somebody else, has ended the
\* trade or has logged out (its Player object is deleted).
MutualTrade ==
    phase = "sessions" /\ ~misused =>
        \A p \in Player : Trading(p) =>
            /\ ~trade[p].deleted
            /\ Partner(p) # p /\ Partner(p) \in Player
            /\ Trading(Partner(p)) /\ Partner(Partner(p)) = p
            /\ place[p] # Offline

\* A TradeData is used after its deletion, or deleted twice, only where a map
\* cancels the trade of a player whose partner has left for another map: the
\* world thread never does it, nor the threads of the maps while the two who
\* trade stay on one map.
OnlyAcrossMaps ==
    misused => \E m \in Map :
        /\ thread[m] # Idle
        /\ InWorld(thread[m].trader) => place[thread[m].trader].map # m

\* A TradeData is never used after its deletion.
NotUsedAfterDelete == ~misused

\* What trading promises (Barter).  A player stands by the deal that both
\* TradeData show for as long as its own is accepted.
Deal(p) ==
    LET q == Partner(p) IN
    IF Trading(p) /\ ~trade[p].deleted /\ trade[p].accepted /\ Trading(q)
    THEN [with |-> q, give |-> trade[p].items, pay |-> trade[p].money,
          take |-> trade[q].items, get |-> trade[q].money]
    ELSE [with |-> {}]
Ledger == [bag |-> [p \in Player |-> {i \in Item : saved.row[i] = p}],
           gold |-> saved.gold]

Promise == INSTANCE Barter WITH pledge <- [p \in Player |-> Deal(p)], ledger <- Ledger
ImplementsBarter == Promise!BarterSpec

=============================================================================
