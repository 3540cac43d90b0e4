----------------------------- MODULE Trade_proofs ----------------------------
(***************************************************************************)
(* Theorems about Trade, for any players, items, maps and bounds.          *)
(***************************************************************************)
EXTENDS Trade, TLAPS

-----------------------------------------------------------------------------
(* Types.                                                                  *)

LEMMA PlacesApart ==
    /\ \A k \in Places : k.map \in Map /\ k.spot \in Spot
    /\ Travelling \notin Places /\ Offline \notin Places /\ Travelling # Offline
BY DEF Places, Travelling, Offline

LEMMA TradeFields ==
    ASSUME NEW t \in Trades
    PROVE  /\ t.with \in Player /\ t.deleted \in BOOLEAN /\ t.accepted \in BOOLEAN
           /\ t.money \in 0..MaxGold /\ t.items \in SUBSET Item
           /\ t # NoTrade
BY TradeAssumption DEF Trades, NoTrade

\* What a step may write into a TradeData.
LEMMA TradeEdited ==
    ASSUME NEW t \in Trades
    PROVE  /\ \A b \in BOOLEAN : LET u == [t EXCEPT !.accepted = b] IN
                  u \in Trades /\ u.with = t.with /\ u.deleted = t.deleted
           /\ \A n \in 0..MaxGold : LET u == [t EXCEPT !.money = n] IN
                  u \in Trades /\ u.with = t.with /\ u.deleted = t.deleted
           /\ \A S \in SUBSET Item : LET u == [t EXCEPT !.items = S] IN
                  u \in Trades /\ u.with = t.with /\ u.deleted = t.deleted
           /\ LET u == [t EXCEPT !.deleted = TRUE] IN
                  u \in Trades /\ u.with = t.with /\ u.deleted
BY DEF Trades

LEMMA NewTradeType ==
    ASSUME NEW q \in Player
    PROVE  NewTrade(q) \in Trades /\ NewTrade(q).with = q /\ ~NewTrade(q).deleted
                                 /\ ~NewTrade(q).accepted
BY GoodsAssumption DEF NewTrade, Trades

LEMMA TradingType ==
    ASSUME TypeOK, NEW p \in Player, Trading(p)
    PROVE  trade[p] \in Trades /\ Partner(p) \in Player
BY TradeFields DEF TypeOK, Trading, Partner

LEMMA CancelFields ==
    ASSUME NEW c \in Cancels
    PROVE  /\ c.who \in Player /\ c.trader \in Player /\ c # Idle
           /\ c.at \in {"check", "read", "deleteOwn", "clearOwn", "deleteOther", "clearOther"}
BY DEF Cancels, Idle

LEMMA CancelGoesOn ==
    ASSUME NEW c \in Cancels,
           NEW a \in {"check", "read", "deleteOwn", "clearOwn", "deleteOther", "clearOther"},
           NEW d, d = [c EXCEPT !.at = a]
    PROVE  d \in Cancels /\ d # Idle /\ d.at = a /\ d.who = c.who /\ d.trader = c.trader
BY DEF Cancels, Idle

LEMMA PurseType ==
    ASSUME NEW g \in 0..MaxGold, NEW out \in 0..MaxGold, NEW in \in 0..MaxGold
    PROVE  Purse(g, out, in) \in 0..MaxGold
BY GoodsAssumption DEF Purse

LEMMA HolderType ==
    ASSUME NEW bag, NEW i
    PROVE  /\ Holder(bag, i) \in Player \cup {Nobody}
           /\ Holder(bag, i) # Nobody => i \in bag[Holder(bag, i)]
           /\ Holder(bag, i) = Nobody => \A p \in Player : i \notin bag[p]
BY TradeAssumption DEF Holder

LEMMA SavedType ==
    ASSUME TypeOK, NEW S \in SUBSET Player, NEW h \in Holdings
    PROVE  SavedWith(S, h) \in [row : [Item -> Player \cup {Nobody}], gold : [Player -> 0..MaxGold]]
<1>1. \A i \in Item : Holder(h.bag, i) \in Player \cup {Nobody}
  BY HolderType
<1>2. /\ saved.row \in [Item -> Player \cup {Nobody}] /\ saved.gold \in [Player -> 0..MaxGold]
      /\ h.gold \in [Player -> 0..MaxGold]
  BY DEF TypeOK, Holdings
<1> QED
  BY <1>1, <1>2 DEF SavedWith

LEMMA TypeInit == Init => TypeOK
<1> SUFFICES ASSUME Init PROVE TypeOK
  OBVIOUS
<1>1. goods \in Holdings
  BY TradeAssumption DEF Init
<1>2. saved \in [row : [Item -> Player \cup {Nobody}], gold : [Player -> 0..MaxGold]]
  BY HolderType, TradeAssumption DEF Init, Holdings
<1>3. did \in [trades : 0..MaxTrades, events : 0..MaxEvents]
  BY TradeAssumption DEF Init
<1> QED
  BY <1>1, <1>2, <1>3 DEF Init, TypeOK

-----------------------------------------------------------------------------
(* The invariant of a trade that the thread of a map may be ending.        *)

Busy(m) == thread[m] # Idle
Who(m) == thread[m].who
Trader(m) == thread[m].trader
Parties(m) == {Who(m), Trader(m)}

\* The two sides of a trade agree.
Whole(p) ==
    /\ ~trade[p].deleted
    /\ Partner(p) # p
    /\ Trading(Partner(p)) /\ Partner(Partner(p)) = p
    /\ place[p] # Offline

\* The thread of map m is inside TradeCancel of a player of that map.
CancelOnMap(m) ==
    /\ InWorld(Who(m)) /\ place[Who(m)].map = m
    /\ Who(m) # Trader(m)
    /\ Trading(Who(m)) => Partner(Who(m)) = Trader(m)
    /\ Trading(Trader(m)) => Partner(Trader(m)) = Who(m)
    /\ IF thread[m].at \in {"deleteOther", "clearOther"} THEN ~Trading(Who(m))
       ELSE ~Trading(Who(m)) => ~Trading(Trader(m))

\* While the other player is on the same map nobody else touches the two.
Undisturbed(m) ==
    /\ thread[m].at \in {"check", "read", "deleteOwn"} =>
           /\ Trading(Who(m)) /\ ~trade[Who(m)].deleted
           /\ Trading(Trader(m)) /\ ~trade[Trader(m)].deleted
    /\ thread[m].at \in {"clearOwn", "deleteOther"} =>
           Trading(Trader(m)) /\ ~trade[Trader(m)].deleted

\* Two threads cancel different trades, or the same one from its two sides.
Crossed(m, n) == Who(m) = Trader(n) /\ Trader(m) = Who(n)

Cancelling ==
    /\ phase = "sessions" => \A m \in Map : ~Busy(m)
    /\ \A m \in Map : Busy(m) => CancelOnMap(m)
    /\ \A m \in Map :
          Busy(m) /\ InWorld(Trader(m)) /\ place[Trader(m)].map = m => Undisturbed(m)
    /\ \A m, n \in Map :
          m # n /\ Busy(m) /\ Busy(n) => Crossed(m, n) \/ Parties(m) \cap Parties(n) = {}
    /\ \A p \in Player :
          Trading(p) /\ (\A m \in Map : Busy(m) => p \notin Parties(m)) => Whole(p)

CancelInv == OnlyAcrossMaps /\ (~misused => Cancelling)

\* While the sessions are updated every trade is whole.
LEMMA InSessions ==
    ASSUME TypeOK, CancelInv, phase = "sessions", ~misused
    PROVE  /\ \A m \in Map : thread[m] = Idle
           /\ \A p \in Player : Trading(p) =>
                 /\ trade[p] \in Trades /\ Partner(p) \in Player
                 /\ trade[Partner(p)] \in Trades
                 /\ Whole(p)
<1>1. \A m \in Map : ~Busy(m)
  BY DEF CancelInv, Cancelling
<1>2. \A p \in Player : Trading(p) => Whole(p)
  BY <1>1 DEF CancelInv, Cancelling
<1>3. \A p \in Player : Trading(p) => trade[p] \in Trades /\ Partner(p) \in Player
  BY TradingType
<1>4. \A p \in Player : Trading(p) => trade[Partner(p)] \in Trades
  BY <1>2, <1>3 DEF Whole
<1> QED
  BY <1>1, <1>2, <1>3, <1>4 DEF Busy

LEMMA Frozen ==
    ASSUME misused, Next
    PROVE  FALSE
<1>1. \A p, q \in Player : ~InitiateTrade(p, q)
  BY DEF InitiateTrade, Ready
<1>2. \A p \in Player : /\ ~SetTradeGold(p) /\ ~SetTradeItem(p) /\ ~ClearTradeItem(p)
                        /\ ~AcceptTrade(p) /\ ~UnacceptTrade(p) /\ ~CancelTrade(p)
                        /\ ~Logout(p)
  BY DEF SetTradeGold, SetTradeItem, ClearTradeItem, AcceptTrade, UnacceptTrade, CancelTrade,
         Logout, Ready
<1>3. \A p \in Player : ~Depart(p) /\ ~Arrive(p) /\ ~Change(p) /\ ~SavePlayer(p) /\ ~SetPosition(p)
  BY DEF Depart, Arrive, Change, SavePlayer, SetPosition
<1>4. \A m \in Map : ~MapCancel(m)
  BY DEF MapCancel, CheckTrade, ReadTrader, Access
<1>5. ~BeginMaps /\ ~EndMaps /\ ~Crash
  BY DEF BeginMaps, EndMaps, Crash
<1> QED
  BY <1>1, <1>2, <1>3, <1>4, <1>5 DEF Next

\* The changes of the two TradeData that leave the trade as it is.
SameTrades(new) ==
    /\ new \in [Player -> Trades \cup {NoTrade}]
    /\ \A p \in Player :
          /\ new[p] = NoTrade <=> trade[p] = NoTrade
          /\ new[p].with = trade[p].with
          /\ trade[p] # NoTrade => new[p].deleted = trade[p].deleted

LEMMA UnacceptedSame ==
    ASSUME TypeOK, CancelInv, phase = "sessions", ~misused, NEW p \in Player, Trading(p),
           NEW t, SameTrades(t)
    PROVE  SameTrades(Unaccepted(t, p))
<1> DEFINE q == t[p].with
           own == [t[p] EXCEPT !.accepted = FALSE]
           his == [t[q] EXCEPT !.accepted = FALSE]
<1>1. q \in Player /\ q # p /\ t[p] \in Trades /\ t[q] \in Trades
  BY InSessions DEF SameTrades, Whole, Partner, Trading
<1>2. /\ own \in Trades /\ own.with = t[p].with /\ own.deleted = t[p].deleted
      /\ his \in Trades /\ his.with = t[q].with /\ his.deleted = t[q].deleted
  BY <1>1, TradeEdited
<1>3. own # NoTrade /\ his # NoTrade /\ t[p] # NoTrade /\ t[q] # NoTrade
  BY <1>1, <1>2, TradeFields
<1>4. Unaccepted(t, p) = [t EXCEPT ![p] = own, ![q] = his]
  BY <1>1 DEF Unaccepted, SameTrades
<1> HIDE DEF own, his, q
<1> QED
  BY <1>1, <1>2, <1>3, <1>4 DEF SameTrades

LEMMA EditSame ==
    ASSUME TypeOK, NEW p \in Player, Trading(p), NEW u \in Trades,
           u.with = trade[p].with, u.deleted = trade[p].deleted
    PROVE  SameTrades([trade EXCEPT ![p] = u])
<1>1. u # NoTrade /\ trade[p] # NoTrade
  BY TradeFields DEF Trading
<1> QED
  BY <1>1 DEF SameTrades, TypeOK

-----------------------------------------------------------------------------
(* The packets of trade.                                                   *)

\* A step of the sessions after which every trade is whole.
LEMMA SessionStep ==
    ASSUME phase' = "sessions", ~misused', \A m \in Map : thread'[m] = Idle,
           \A p \in Player : Trading(p)' => Whole(p)'
    PROVE  CancelInv'
<1>1. Cancelling'
  BY DEF Cancelling, Busy
<1>2. OnlyAcrossMaps'
  BY DEF OnlyAcrossMaps
<1> QED
  BY <1>1, <1>2 DEF CancelInv

\* An accept that does not complete the trade.
LEMMA NoteSame ==
    ASSUME TypeOK, CancelInv, phase = "sessions", ~misused, NEW p \in Player, Trading(p),
           NEW mine \in BOOLEAN, NEW his \in BOOLEAN
    PROVE  SameTrades([trade EXCEPT ![p].accepted = mine, ![Partner(p)].accepted = his])
<1> DEFINE q == Partner(p)
           one == [trade[p] EXCEPT !.accepted = mine]
           two == [trade[q] EXCEPT !.accepted = his]
<1>1. q \in Player /\ q # p /\ trade[p] \in Trades /\ trade[q] \in Trades
  BY InSessions DEF Whole
<1>2. /\ one \in Trades /\ one.with = trade[p].with /\ one.deleted = trade[p].deleted
      /\ two \in Trades /\ two.with = trade[q].with /\ two.deleted = trade[q].deleted
  BY <1>1, TradeEdited
<1>3. one # NoTrade /\ two # NoTrade /\ trade[p] # NoTrade /\ trade[q] # NoTrade
  BY <1>1, <1>2, TradeFields
<1>4. [trade EXCEPT ![p].accepted = mine, ![q].accepted = his] = [trade EXCEPT ![p] = one, ![q] = two]
  BY <1>1 DEF TypeOK
<1> HIDE DEF one, two, q
<1>5. SameTrades([trade EXCEPT ![p] = one, ![q] = two])
  BY <1>1, <1>2, <1>3 DEF SameTrades, TypeOK
<1> QED
  BY <1>4, <1>5 DEF q

LEMMA EditsKeep ==
    ASSUME TypeOK, CancelInv, phase = "sessions", ~misused, NEW p \in Player, Trading(p),
           NEW new, SameTrades(new), Edits(p, new)
    PROVE  TypeOK' /\ CancelInv'
<1>1. trade' = new /\ UNCHANGED <<phase, thread, place, goods, locked, saved, did>>
  BY DEF Edits
<1>2. misused' = FALSE
  <2>1. \A r \in {p, Partner(p)} : ~(Trading(r) /\ trade[r].deleted)
    BY InSessions DEF Whole
  <2>2. misused' = \E r \in {p, Partner(p)} : Trading(r) /\ trade[r].deleted
    BY Zenon DEF Edits, Touch
  <2> QED
    BY <2>1, <2>2
<1>3. TypeOK'
  BY <1>1, <1>2 DEF TypeOK, SameTrades
<1>4. ASSUME NEW r \in Player, Trading(r)' PROVE Whole(r)'
  <2>1. \A s \in Player : /\ Trading(s)' <=> Trading(s)
                          /\ Partner(s)' = Partner(s)
                          /\ Trading(s) => trade'[s].deleted = trade[s].deleted
    BY <1>1 DEF SameTrades, Trading, Partner
  <2>2. Trading(r) /\ Whole(r) /\ Partner(r) \in Player
    BY <1>4, <2>1, InSessions
  <2> QED
    BY <1>1, <2>1, <2>2 DEF Whole
<1>5. \A m \in Map : thread'[m] = Idle
  BY <1>1, InSessions
<1> QED
  BY <1>1, <1>2, <1>3, <1>4, <1>5, SessionStep

LEMMA OffersKept ==
    ASSUME TypeOK, CancelInv, ~misused, NEW p \in Player,
           SetTradeGold(p) \/ SetTradeItem(p) \/ ClearTradeItem(p) \/ UnacceptTrade(p)
    PROVE  TypeOK' /\ CancelInv'
<1>0. phase = "sessions" /\ Trading(p) /\ trade[p] \in Trades /\ trade \in [Player -> Trades \cup {NoTrade}]
  BY TradingType DEF SetTradeGold, SetTradeItem, ClearTradeItem, UnacceptTrade, Ready, TypeOK
<1>1. CASE SetTradeGold(p)
  <2>1. PICK n \in 0..MaxGold : Edits(p, Unaccepted([trade EXCEPT ![p].money = n], p))
    BY <1>1 DEF SetTradeGold
  <2> DEFINE u == [trade[p] EXCEPT !.money = n]
  <2>2. u \in Trades /\ u.with = trade[p].with /\ u.deleted = trade[p].deleted
    BY <1>0, TradeEdited
  <2>3. [trade EXCEPT ![p].money = n] = [trade EXCEPT ![p] = u]
    BY <1>0
  <2> HIDE DEF u
  <2>4. SameTrades([trade EXCEPT ![p] = u])
    BY <1>0, <2>2, EditSame
  <2> QED
    BY <1>0, <2>1, <2>3, <2>4, UnacceptedSame, EditsKeep
<1>2. CASE SetTradeItem(p)
  <2>1. PICK i \in Item, out \in SUBSET trade[p].items :
            Edits(p, Unaccepted([trade EXCEPT ![p].items = (trade[p].items \ out) \cup {i}], p))
    <3>1. goods.bag[p] \subseteq Item
      BY DEF TypeOK, Holdings
    <3> QED
      BY <1>2, <3>1 DEF SetTradeItem
  <2> DEFINE S == (trade[p].items \ out) \cup {i}
             u == [trade[p] EXCEPT !.items = S]
  <2>2. S \in SUBSET Item
    BY <1>0, TradeFields
  <2> HIDE DEF S
  <2>3. u \in Trades /\ u.with = trade[p].with /\ u.deleted = trade[p].deleted
    BY <1>0, <2>2, TradeEdited
  <2>4. [trade EXCEPT ![p].items = S] = [trade EXCEPT ![p] = u]
    BY <1>0
  <2> HIDE DEF u
  <2>5. SameTrades([trade EXCEPT ![p] = u])
    BY <1>0, <2>3, EditSame
  <2>6. Edits(p, Unaccepted([trade EXCEPT ![p].items = S], p))
    BY <2>1 DEF S
  <2> QED
    BY <1>0, <2>4, <2>5, <2>6, UnacceptedSame, EditsKeep
<1>3. CASE ClearTradeItem(p)
  <2>1. PICK i : Edits(p, Unaccepted([trade EXCEPT ![p].items = @ \ {i}], p))
    BY <1>3 DEF ClearTradeItem
  <2> DEFINE S == trade[p].items \ {i}
             u == [trade[p] EXCEPT !.items = S]
  <2>2. S \in SUBSET Item
    BY <1>0, TradeFields
  <2> HIDE DEF S
  <2>3. u \in Trades /\ u.with = trade[p].with /\ u.deleted = trade[p].deleted
    BY <1>0, <2>2, TradeEdited
  <2>4. [trade EXCEPT ![p].items = @ \ {i}] = [trade EXCEPT ![p] = u]
    BY <1>0 DEF S
  <2> HIDE DEF u
  <2>5. SameTrades([trade EXCEPT ![p] = u])
    BY <1>0, <2>3, EditSame
  <2> QED
    BY <1>0, <2>1, <2>4, <2>5, UnacceptedSame, EditsKeep
<1>4. CASE UnacceptTrade(p)
  <2> DEFINE u == [trade[p] EXCEPT !.accepted = FALSE]
  <2>1. Edits(p, [trade EXCEPT ![p].accepted = FALSE])
    BY <1>4 DEF UnacceptTrade
  <2>2. u \in Trades /\ u.with = trade[p].with /\ u.deleted = trade[p].deleted
    BY <1>0, TradeEdited
  <2>3. [trade EXCEPT ![p].accepted = FALSE] = [trade EXCEPT ![p] = u]
    BY <1>0
  <2> HIDE DEF u
  <2>4. SameTrades([trade EXCEPT ![p] = u])
    BY <1>0, <2>2, EditSame
  <2> QED
    BY <1>0, <2>1, <2>3, <2>4, EditsKeep
<1> QED
  BY <1>1, <1>2, <1>3, <1>4

LEMMA InitiateKept ==
    ASSUME TypeOK, CancelInv, ~misused, NEW p \in Player, NEW q \in Player, InitiateTrade(p, q)
    PROVE  TypeOK' /\ CancelInv'
<1>1. /\ phase = "sessions" /\ ~Trading(p) /\ ~Trading(q) /\ p # q
      /\ InWorld(p) /\ InWorld(q)
      /\ trade' = [trade EXCEPT ![p] = NewTrade(q), ![q] = NewTrade(p)]
      /\ UNCHANGED <<phase, thread, place, goods, locked, saved, misused>>
      /\ Tally("trades", MaxTrades)
  BY DEF InitiateTrade, Ready
<1>2. did' \in [trades : 0..MaxTrades, events : 0..MaxEvents]
  BY <1>1, TradeAssumption DEF Tally, TypeOK
<1>3. TypeOK'
  BY <1>1, <1>2, NewTradeType DEF TypeOK
<1>4. \A r \in Player : Trading(r) => Whole(r)
  BY <1>1, InSessions
<1>5. /\ trade'[p] = NewTrade(q) /\ trade'[q] = NewTrade(p)
      /\ \A r \in Player : r \notin {p, q} => trade'[r] = trade[r]
  BY <1>1 DEF TypeOK
<1>6. ASSUME NEW r \in Player, Trading(r)' PROVE Whole(r)'
  <2>1. CASE r \in {p, q}
    <3>1. NewTrade(p) # NoTrade /\ NewTrade(q) # NoTrade
      BY NewTradeType, TradeFields
    <3>2. place[p] # Offline /\ place[q] # Offline
      BY <1>1, PlacesApart DEF InWorld
    <3> QED
      BY <1>1, <1>5, <2>1, <3>1, <3>2, NewTradeType DEF Whole, Trading, Partner
  <2>2. CASE r \notin {p, q}
    <3>1. Trading(r) /\ Whole(r) /\ Partner(r) \in Player
      BY <1>4, <1>5, <1>6, <2>2, TradingType DEF Trading
    <3>2. Partner(r) \notin {p, q}
      BY <1>1, <3>1 DEF Whole
    <3> QED
      BY <1>1, <1>5, <2>2, <3>1, <3>2 DEF Whole, Trading, Partner
  <2> QED
    BY <2>1, <2>2
<1>7. \A m \in Map : thread'[m] = Idle
  BY <1>1, InSessions
<1> QED
  BY <1>1, <1>3, <1>6, <1>7, SessionStep

\* The trade of p is over; p itself may leave.
LEMMA PairGone ==
    ASSUME TypeOK, CancelInv, phase = "sessions", ~misused, NEW p \in Player, Trading(p),
           trade' = [trade EXCEPT ![p] = NoTrade, ![Partner(p)] = NoTrade],
           \A r \in Player : r # p => place'[r] = place[r]
    PROVE  \A r \in Player : Trading(r)' => Whole(r)'
<1> DEFINE q == Partner(p)
<1>1. q \in Player /\ Whole(p)
  BY InSessions
<1> HIDE DEF q
<1>2. trade'[p] = NoTrade /\ trade'[q] = NoTrade /\ \A r \in Player : r \notin {p, q} => trade'[r] = trade[r]
  BY <1>1 DEF TypeOK, q
<1>3. ASSUME NEW r \in Player, Trading(r)' PROVE Whole(r)'
  <2>1. r \notin {p, q}
    BY <1>2, <1>3 DEF Trading
  <2>2. Trading(r) /\ Whole(r) /\ Partner(r) \in Player
    BY <1>2, <1>3, <2>1, InSessions DEF Trading
  <2>3. Partner(r) \notin {p, q}
    BY <1>1, <2>1, <2>2 DEF Whole, q
  <2> QED
    BY <1>2, <2>1, <2>2, <2>3 DEF Whole, Trading, Partner
<1> QED
  BY <1>3

LEMMA GivenTypes ==
    ASSUME TypeOK, NEW p \in Player, NEW q \in Player, trade[p] \in Trades, trade[q] \in Trades
    PROVE  Swapped(p, q) \in Holdings
<1>1. /\ goods.bag \in [Player -> SUBSET Item] /\ goods.gold \in [Player -> 0..MaxGold]
      /\ trade[p].money \in 0..MaxGold /\ trade[q].money \in 0..MaxGold
  BY TradeFields DEF TypeOK, Holdings
<1>2. Given(p) \subseteq Item /\ Given(q) \subseteq Item
  BY <1>1 DEF Given
<1>3. [goods.bag EXCEPT ![p] = (@ \ Given(p)) \cup Given(q),
                        ![q] = (@ \ Given(q)) \cup Given(p)] \in [Player -> SUBSET Item]
  BY <1>1, <1>2
<1>4. [goods.gold EXCEPT ![p] = Purse(@, trade[p].money, trade[q].money),
                         ![q] = Purse(@, trade[q].money, trade[p].money)] \in [Player -> 0..MaxGold]
  <2> DEFINE one == [goods.gold EXCEPT ![p] = Purse(goods.gold[p], trade[p].money, trade[q].money)]
  <2>1. one \in [Player -> 0..MaxGold]
    BY <1>1, PurseType
  <2>2. [one EXCEPT ![q] = Purse(one[q], trade[q].money, trade[p].money)] \in [Player -> 0..MaxGold]
    BY <1>1, <2>1, PurseType
  <2>3. [goods.gold EXCEPT ![p] = Purse(@, trade[p].money, trade[q].money),
                         ![q] = Purse(@, trade[q].money, trade[p].money)]
          = [one EXCEPT ![q] = Purse(one[q], trade[q].money, trade[p].money)]
    BY <1>1
  <2> QED
    BY <2>2, <2>3
<1> QED
  BY <1>3, <1>4 DEF Swapped, Holdings

LEMMA AcceptKept ==
    ASSUME TypeOK, CancelInv, ~misused, NEW p \in Player, AcceptTrade(p)
    PROVE  TypeOK' /\ CancelInv'
<1> DEFINE q == Partner(p)
<1>0. /\ phase = "sessions" /\ Trading(p) /\ Trading(q)
      /\ NoteAccept(p, q) \/ CompleteTrade(p, q)
  BY DEF AcceptTrade, Ready
<1>1. q \in Player /\ trade[p] \in Trades /\ trade[q] \in Trades /\ Whole(p) /\ Whole(q)
  BY <1>0, InSessions
<1>2. CASE NoteAccept(p, q)
  <2>1. PICK mine \in BOOLEAN, his \in BOOLEAN :
            Edits(p, [trade EXCEPT ![p].accepted = mine, ![q].accepted = his])
    <3>1. (Obstacle(p, q) \in {"his money", "items", "waiting"}) \in BOOLEAN
      OBVIOUS
    <3>2. (trade[q].accepted /\ Obstacle(p, q) \notin {"his money", "room"}) \in BOOLEAN
      BY <1>1, TradeFields
    <3> QED
      BY <1>2, <3>1, <3>2 DEF NoteAccept
  <2>2. SameTrades([trade EXCEPT ![p].accepted = mine, ![q].accepted = his])
    BY <1>0, NoteSame
  <2> QED
    BY <1>0, <2>1, <2>2, EditsKeep
<1>3. CASE CompleteTrade(p, q)
  <2>1. /\ goods' = Swapped(p, q) /\ saved' = SavedWith({p, q}, Swapped(p, q))
        /\ trade' = [trade EXCEPT ![p] = NoTrade, ![q] = NoTrade]
        /\ UNCHANGED <<phase, thread, place, locked, did>>
    BY <1>3 DEF CompleteTrade
  <2>2. misused' = FALSE
    <3>1. \A r \in {p, q} : ~(Trading(r) /\ trade[r].deleted)
      BY <1>1 DEF Whole
    <3>2. misused' = \E r \in {p, q} : Trading(r) /\ trade[r].deleted
      BY <1>3, Zenon DEF CompleteTrade, Touch
    <3> QED
      BY <3>1, <3>2
  <2>3. goods' \in Holdings /\ saved' \in [row : [Item -> Player \cup {Nobody}], gold : [Player -> 0..MaxGold]]
    BY <1>1, <2>1, GivenTypes, SavedType
  <2>4. TypeOK'
    BY <2>1, <2>2, <2>3 DEF TypeOK
  <2>5. \A r \in Player : Trading(r)' => Whole(r)'
    BY <1>0, <2>1, PairGone
  <2>6. \A m \in Map : thread'[m] = Idle
    BY <1>0, <2>1, InSessions
  <2> QED
    BY <1>0, <2>1, <2>2, <2>4, <2>5, <2>6, SessionStep
<1> QED
  BY <1>0, <1>2, <1>3

LEMMA CancelKept ==
    ASSUME TypeOK, CancelInv, ~misused, NEW p \in Player, CancelTrade(p)
    PROVE  TypeOK' /\ CancelInv'
<1>1. phase = "sessions" /\ Trading(p) /\ Edits(p, Cancelled(trade, p))
  BY DEF CancelTrade, Ready
<1>2. /\ trade' = [trade EXCEPT ![p] = NoTrade, ![Partner(p)] = NoTrade]
      /\ UNCHANGED <<phase, thread, place, goods, locked, saved, did>>
  BY <1>1 DEF Edits, Cancelled, Trading, Partner
<1>3. misused' = FALSE
  <2>1. \A r \in {p, Partner(p)} : ~(Trading(r) /\ trade[r].deleted)
    BY <1>1, InSessions DEF Whole
  <2>2. misused' = \E r \in {p, Partner(p)} : Trading(r) /\ trade[r].deleted
    BY <1>1, Zenon DEF Edits, Touch
  <2> QED
    BY <2>1, <2>2
<1>4. TypeOK'
  BY <1>2, <1>3 DEF TypeOK
<1>5. \A r \in Player : Trading(r)' => Whole(r)'
  BY <1>1, <1>2, PairGone
<1>6. \A m \in Map : thread'[m] = Idle
  BY <1>1, <1>2, InSessions
<1> QED
  BY <1>1, <1>2, <1>3, <1>4, <1>5, <1>6, SessionStep

LEMMA EventType ==
    ASSUME TypeOK, Tally("events", MaxEvents)
    PROVE  did' \in [trades : 0..MaxTrades, events : 0..MaxEvents]
BY TradeAssumption DEF Tally, TypeOK

LEMMA LogoutKept ==
    ASSUME TypeOK, CancelInv, ~misused, NEW p \in Player, Logout(p)
    PROVE  TypeOK' /\ CancelInv'
<1>1. /\ phase = "sessions" /\ Tally("events", MaxEvents)
      /\ saved' = SavedWith({p}, goods) /\ trade' = Cancelled(trade, p)
      /\ place' = [place EXCEPT ![p] = Offline]
      /\ UNCHANGED <<phase, thread, goods, locked>>
  BY DEF Logout, Ready
<1>2. misused' = FALSE
  <2> DEFINE S == {p} \cup (IF Trading(p) THEN {Partner(p)} ELSE {})
  <2>1. \A r \in S : ~(Trading(r) /\ trade[r].deleted)
    BY <1>1, InSessions DEF Whole
  <2>2. misused' = \E r \in S : Trading(r) /\ trade[r].deleted
    BY Zenon DEF Logout, Touch
  <2> QED
    BY <2>1, <2>2
<1>3. \A r \in Player : r # p => place'[r] = place[r]
  BY <1>1 DEF TypeOK
<1>4. saved' \in [row : [Item -> Player \cup {Nobody}], gold : [Player -> 0..MaxGold]]
  BY <1>1, SavedType DEF TypeOK
<1>5. did' \in [trades : 0..MaxTrades, events : 0..MaxEvents]
  BY <1>1, EventType
<1>6. /\ place' \in [Player -> Places \cup {Travelling, Offline}]
      /\ phase' \in {"sessions", "maps"} /\ goods' \in Holdings /\ locked' \subseteq Item
      /\ thread' \in [Map -> Cancels \cup {Idle}]
  BY <1>1 DEF TypeOK
<1>7. \A m \in Map : thread'[m] = Idle
  BY <1>1, InSessions
<1>8. CASE Trading(p)
  <2>1. trade' = [trade EXCEPT ![p] = NoTrade, ![Partner(p)] = NoTrade]
    BY <1>1, <1>8 DEF Cancelled, Trading, Partner
  <2>2. trade' \in [Player -> Trades \cup {NoTrade}]
    BY <2>1 DEF TypeOK
  <2>3. TypeOK'
    BY <1>2, <1>4, <1>5, <1>6, <2>2 DEF TypeOK
  <2>4. \A r \in Player : Trading(r)' => Whole(r)'
    BY <1>1, <1>3, <1>8, <2>1, PairGone
  <2> QED
    BY <1>1, <1>2, <1>7, <2>3, <2>4, SessionStep
<1>9. CASE ~Trading(p)
  <2>1. trade' = trade
    BY <1>1, <1>9 DEF Cancelled, Trading
  <2>2. TypeOK'
    BY <1>2, <1>4, <1>5, <1>6, <2>1 DEF TypeOK
  <2>3. ASSUME NEW r \in Player, Trading(r)' PROVE Whole(r)'
    <3>1. Trading(r) /\ r # p /\ Whole(r)
      BY <1>1, <1>9, <2>1, <2>3, InSessions DEF Trading
    <3> QED
      BY <1>3, <2>1, <3>1 DEF Whole, Trading, Partner
  <2> QED
    BY <1>1, <1>2, <1>7, <2>2, <2>3, SessionStep
<1> QED
  BY <1>8, <1>9

-----------------------------------------------------------------------------
(* The threads of the maps.                                                *)

\* A thread that cancels has its player on its map, and both players known.
LEMMA BusyTypes ==
    ASSUME TypeOK, NEW m \in Map, Busy(m)
    PROVE  /\ thread[m] \in Cancels /\ Who(m) \in Player /\ Trader(m) \in Player
           /\ thread[m].at \in {"check", "read", "deleteOwn", "clearOwn", "deleteOther", "clearOther"}
<1>1. thread[m] \in Cancels
  BY DEF TypeOK, Busy
<1> QED
  BY <1>1, CancelFields DEF Who, Trader

LEMMA DepartKept ==
    ASSUME TypeOK, CancelInv, ~misused, NEW p \in Player, Depart(p)
    PROVE  TypeOK' /\ CancelInv'
<1>1. /\ InWorld(p) /\ place' = [place EXCEPT ![p] = Travelling]
      /\ UNCHANGED <<phase, trade, thread, goods, locked, saved, misused>>
      /\ Tally("events", MaxEvents)
      /\ phase = "maps" => thread[place[p].map] = Idle
  BY DEF Depart
<1>2. did' \in [trades : 0..MaxTrades, events : 0..MaxEvents]
  BY <1>1, EventType
<1>3. TypeOK'
  BY <1>1, <1>2 DEF TypeOK
<1>4. place'[p] = Travelling /\ \A r \in Player : r # p => place'[r] = place[r]
  BY <1>1 DEF TypeOK
<1>5. \A r \in Player : Whole(r) => Whole(r)'
  BY <1>1, <1>4, PlacesApart DEF Whole, Trading, Partner
<1>6. ~InWorld(p)'
  BY <1>4, PlacesApart DEF InWorld
<1>7. ASSUME NEW m \in Map, Busy(m) PROVE Who(m) # p
  <2>1. phase = "maps"
    BY <1>7 DEF CancelInv, Cancelling, TypeOK
  <2>2. place[Who(m)].map = m
    BY <1>7 DEF CancelInv, Cancelling, CancelOnMap
  <2> QED
    BY <1>1, <1>7, <2>1, <2>2 DEF Busy
<1>8. \A m \in Map : /\ Busy(m)' <=> Busy(m)
                     /\ Who(m)' = Who(m) /\ Trader(m)' = Trader(m) /\ Parties(m)' = Parties(m)
                     /\ Undisturbed(m) => Undisturbed(m)'
  BY <1>1 DEF Busy, Who, Trader, Parties, Undisturbed, Trading
<1>9. ASSUME NEW m \in Map, Busy(m) PROVE CancelOnMap(m)'
  <2>1. CancelOnMap(m) /\ place'[Who(m)] = place[Who(m)]
    BY <1>4, <1>7, <1>9, BusyTypes DEF CancelInv, Cancelling
  <2> QED
    BY <1>1, <2>1 DEF CancelOnMap, Who, Trader, Trading, Partner, InWorld
<1>10. ASSUME NEW m \in Map, Busy(m), InWorld(Trader(m))', place'[Trader(m)].map = m
       PROVE  Undisturbed(m)'
  <2>1. Trader(m) # p /\ Trader(m) \in Player
    BY <1>6, <1>8, <1>10, BusyTypes
  <2>2. InWorld(Trader(m)) /\ place[Trader(m)].map = m
    BY <1>4, <1>8, <1>10, <2>1 DEF InWorld
  <2> QED
    BY <1>8, <1>10, <2>2 DEF CancelInv, Cancelling
<1>11. \A m, n \in Map : m # n /\ Busy(m)' /\ Busy(n)' =>
           Crossed(m, n)' \/ Parties(m)' \cap Parties(n)' = {}
  BY <1>8 DEF CancelInv, Cancelling, Crossed
<1>12. \A r \in Player :
           Trading(r)' /\ (\A m \in Map : Busy(m)' => r \notin Parties(m)') => Whole(r)'
  BY <1>1, <1>5, <1>8 DEF CancelInv, Cancelling, Trading
<1>13. Cancelling'
  BY <1>1, <1>8, <1>9, <1>10, <1>11, <1>12 DEF CancelInv, Cancelling
<1> QED
  BY <1>1, <1>3, <1>13 DEF CancelInv, OnlyAcrossMaps

\* What happens on the thread of map m to the trade it cancels.
LEMMA CancelStep ==
    ASSUME TypeOK, CancelInv, ~misused, phase = "maps", phase' = "maps", place' = place,
           NEW m \in Map, Busy(m), NEW w, NEW q, w = Who(m), q = Trader(m),
           NEW new, thread' = [thread EXCEPT ![m] = new],
           new # Idle => /\ new.who = w /\ new.trader = q
                         /\ CancelOnMap(m)'
                         /\ InWorld(q) /\ place[q].map = m => Undisturbed(m)',
           new = Idle => ~Trading(w)' /\ ~Trading(q)',
           \A r \in Player \ {w, q} : trade'[r] = trade[r],
           \A r \in Player : Trading(r)' => Trading(r) /\ Partner(r)' = Partner(r),
           Trading(q) => Trading(q)' \/ ~Trading(w)'
    PROVE  Cancelling'
<1>1. w \in Player /\ q \in Player /\ CancelOnMap(m) /\ Parties(m) = {w, q}
  BY BusyTypes DEF CancelInv, Cancelling, Parties
<1>2. thread'[m] = new /\ \A n \in Map : n # m => thread'[n] = thread[n]
  BY DEF TypeOK
<1>3. \A n \in Map : n # m => /\ Busy(n)' <=> Busy(n)
                              /\ Who(n)' = Who(n) /\ Trader(n)' = Trader(n)
                              /\ Parties(n)' = Parties(n)
  BY <1>2 DEF Busy, Who, Trader, Parties
<1>4. /\ Busy(m)' <=> new # Idle
      /\ new # Idle => Who(m)' = w /\ Trader(m)' = q /\ Parties(m)' = {w, q}
  BY <1>2 DEF Busy, Who, Trader, Parties
<1>5. \A n \in Map : n # m /\ Busy(n) =>
          \/ Who(n) = q /\ Trader(n) = w
          \/ {w, q} \cap Parties(n) = {}
  BY <1>1 DEF CancelInv, Cancelling, Crossed
<1>6. ASSUME NEW n \in Map, n # m, Busy(n) PROVE CancelOnMap(n)'
  <2>0. PICK a \in Player, b \in Player : a = Who(n) /\ b = Trader(n)
    BY <1>6, BusyTypes
  <2>1. Who(n)' = a /\ Trader(n)' = b /\ thread'[n] = thread[n]
    BY <1>2, <1>3, <1>6, <2>0
  <2>2. /\ InWorld(a) /\ place[a].map = n /\ a # b
        /\ Trading(a) => Partner(a) = b
        /\ Trading(b) => Partner(b) = a
        /\ IF thread[n].at \in {"deleteOther", "clearOther"} THEN ~Trading(a)
           ELSE ~Trading(a) => ~Trading(b)
    BY <1>6, <2>0 DEF CancelInv, Cancelling, CancelOnMap
  <2>3. IF thread[n].at \in {"deleteOther", "clearOther"} THEN ~Trading(a)'
        ELSE ~Trading(a)' => ~Trading(b)'
    <3>1. CASE a = q /\ b = w
      BY <2>2, <3>1
    <3>2. CASE {w, q} \cap {a, b} = {}
      <4>1. trade'[a] = trade[a] /\ trade'[b] = trade[b]
        BY <3>2
      <4> QED
        BY <2>2, <4>1 DEF Trading
    <3> QED
      BY <1>5, <1>6, <2>0, <3>1, <3>2 DEF Parties
  <2>4. InWorld(a)' /\ place'[a].map = n
    BY <2>2 DEF InWorld
  <2> QED
    BY <2>1, <2>2, <2>3, <2>4 DEF CancelOnMap
<1>7. ASSUME NEW n \in Map, n # m, Busy(n), InWorld(Trader(n)), place[Trader(n)].map = n
      PROVE  Undisturbed(n)'
  <2>1. Undisturbed(n) /\ Who(n) \in Player /\ Trader(n) \in Player
    BY <1>7, BusyTypes DEF CancelInv, Cancelling
  <2>2. Trader(n) # w
    BY <1>1, <1>7 DEF CancelOnMap
  <2>3. trade'[Who(n)] = trade[Who(n)] /\ trade'[Trader(n)] = trade[Trader(n)]
    BY <1>5, <1>7, <2>1, <2>2 DEF Parties
  <2>4. thread'[n] = thread[n] /\ Who(n)' = Who(n) /\ Trader(n)' = Trader(n)
    BY <1>2, <1>3, <1>7
  <2> QED
    BY <2>1, <2>3, <2>4 DEF Undisturbed, Trading
<1>8. \A n, k \in Map : n # k /\ Busy(n)' /\ Busy(k)' =>
          Crossed(n, k)' \/ Parties(n)' \cap Parties(k)' = {}
  <2> SUFFICES ASSUME NEW n \in Map, NEW k \in Map, n # k, Busy(n)', Busy(k)'
               PROVE  Crossed(n, k)' \/ Parties(n)' \cap Parties(k)' = {}
    OBVIOUS
  <2>1. Busy(n) /\ Busy(k)
    BY <1>3
  <2>2. /\ Who(n)' = Who(n) /\ Trader(n)' = Trader(n) /\ Parties(n)' = Parties(n)
        /\ Who(k)' = Who(k) /\ Trader(k)' = Trader(k) /\ Parties(k)' = Parties(k)
    BY <1>1, <1>3, <1>4
  <2> QED
    BY <2>1, <2>2 DEF CancelInv, Cancelling, Crossed
<1>9. ASSUME NEW r \in Player, Trading(r)', \A n \in Map : Busy(n)' => r \notin Parties(n)'
      PROVE  Whole(r)'
  <2>1. r \notin {w, q}
    BY <1>4, <1>9
  <2>2. \A n \in Map : Busy(n) => r \notin Parties(n)
    BY <1>1, <1>3, <1>9, <2>1
  <2>3. Trading(r) /\ Whole(r) /\ Partner(r) \in Player
    BY <1>9, <2>2, TradingType DEF CancelInv, Cancelling
  <2>4. Partner(r) \notin {w, q}
    BY <1>1, <2>1, <2>3 DEF CancelOnMap, Whole
  <2>5. trade'[r] = trade[r] /\ trade'[Partner(r)] = trade[Partner(r)]
    BY <1>1, <2>1, <2>3, <2>4
  <2> QED
    BY <2>3, <2>5 DEF Whole, Trading, Partner
<1>10. \A n \in Map : Busy(n)' => CancelOnMap(n)'
  BY <1>3, <1>4, <1>6
<1>11. \A n \in Map : Busy(n)' /\ InWorld(Trader(n))' /\ place'[Trader(n)'].map = n => Undisturbed(n)'
  <2> SUFFICES ASSUME NEW n \in Map, Busy(n)', InWorld(Trader(n))', place'[Trader(n)'].map = n
               PROVE  Undisturbed(n)'
    OBVIOUS
  <2>1. CASE n = m
    <3>1. Trader(m)' = q /\ new # Idle
      BY <1>4, <2>1
    <3>2. InWorld(q) /\ place[q].map = m
      BY <2>1, <3>1 DEF InWorld
    <3> QED
      BY <2>1, <3>1, <3>2
  <2>2. CASE n # m
    <3>1. Trader(n)' = Trader(n) /\ Busy(n)
      BY <1>3, <2>2
    <3>2. InWorld(Trader(n)) /\ place[Trader(n)].map = n
      BY <3>1 DEF InWorld
    <3> QED
      BY <1>7, <2>2, <3>1, <3>2
  <2> QED
    BY <2>1, <2>2
<1> QED
  BY <1>8, <1>9, <1>10, <1>11, Zenon DEF Cancelling

LEMMA CheckKept ==
    ASSUME TypeOK, CancelInv, ~misused, NEW m \in Map, CheckTrade(m)
    PROVE  TypeOK' /\ CancelInv'
<1> DEFINE w == Who(m)
           q == Trader(m)
<1>0. /\ phase = "maps" /\ Busy(m) /\ thread[m].at = "check"
      /\ UNCHANGED <<phase, place, goods, locked, saved, did, trade, misused>>
      /\ thread' = [thread EXCEPT ![m] = IF Trading(w) THEN [thread[m] EXCEPT !.at = "read"] ELSE Idle]
  BY DEF CheckTrade, Access, Busy, Idle, Who
<1>1. PICK a \in Player, b \in Player : a = w /\ b = q
  BY <1>0, BusyTypes
<1>2. thread[m] \in Cancels /\ CancelOnMap(m)
  BY <1>0, BusyTypes DEF CancelInv, Cancelling
<1>3. InWorld(b) /\ place[b].map = m => Undisturbed(m)
  BY <1>0, <1>1 DEF CancelInv, Cancelling
<1>4. TypeOK'
  <2>1. [thread[m] EXCEPT !.at = "read"] \in Cancels
    BY <1>2, CancelGoesOn
  <2>2. thread' \in [Map -> Cancels \cup {Idle}]
    BY <1>0, <2>1 DEF TypeOK
  <2> QED
    BY <1>0, <2>2 DEF TypeOK
<1>5. \A r \in Player : /\ trade'[r] = trade[r] /\ (Trading(r)' <=> Trading(r))
                        /\ Partner(r)' = Partner(r)
  BY <1>0 DEF Trading, Partner
<1>6. CASE Trading(a)
  <2>0. PICK new : new = [thread[m] EXCEPT !.at = "read"]
    OBVIOUS
  <2>1. new # Idle /\ new.who = a /\ new.trader = b /\ new.at = "read"
    BY <1>1, <1>2, <2>0, CancelGoesOn DEF Who, Trader
  <2>2. thread' = [thread EXCEPT ![m] = new]
    BY <1>0, <1>1, <1>6, <2>0
  <2>3. Who(m)' = a /\ Trader(m)' = b /\ thread'[m].at = "read"
    BY <2>1, <2>2 DEF TypeOK, Who, Trader
  <2>4. CancelOnMap(m)'
    BY <1>0, <1>1, <1>2, <1>5, <1>6, <2>3 DEF CancelOnMap, InWorld
  <2>5. InWorld(b) /\ place[b].map = m => Undisturbed(m)'
    BY <1>0, <1>1, <1>3, <1>5, <2>3 DEF Undisturbed
  <2>6. phase = "maps" /\ phase' = "maps" /\ place' = place /\ Busy(m)
    BY <1>0
  <2>7. /\ \A r \in Player \ {a, b} : trade'[r] = trade[r]
        /\ \A r \in Player : Trading(r)' => Trading(r) /\ Partner(r)' = Partner(r)
        /\ Trading(b) => Trading(b)' \/ ~Trading(a)'
    BY <1>5
  <2>8. Cancelling'
    <3>1. new # Idle => /\ new.who = a /\ new.trader = b
                        /\ CancelOnMap(m)'
                        /\ InWorld(b) /\ place[b].map = m => Undisturbed(m)'
      BY <2>1, <2>4, <2>5
    <3>2. new = Idle => ~Trading(a)' /\ ~Trading(b)'
      BY <2>1
    <3> QED
      BY <1>1, <2>2, <2>6, <2>7, <3>1, <3>2, CancelStep
  <2> QED
    BY <1>0, <1>4, <2>8 DEF CancelInv, OnlyAcrossMaps
<1>7. CASE ~Trading(a)
  <2>1. thread' = [thread EXCEPT ![m] = Idle]
    BY <1>0, <1>1, <1>7
  <2>2. ~Trading(b)
    BY <1>0, <1>1, <1>2, <1>7 DEF CancelOnMap
  <2>3. Cancelling'
    BY <1>0, <1>1, <1>5, <1>7, <2>1, <2>2, CancelStep
  <2> QED
    BY <1>0, <1>4, <2>3 DEF CancelInv, OnlyAcrossMaps
<1> QED
  BY <1>6, <1>7

\* The accesses after the first, none of which ends the others' trades.
LEMMA AccessKept ==
    ASSUME TypeOK, CancelInv, ~misused, NEW m \in Map,
           NEW at \in {"read", "deleteOwn", "clearOwn", "deleteOther", "clearOther"},
           NEW next \in {"deleteOwn", "clearOwn", "deleteOther", "clearOther"},
           at \in {"deleteOther", "clearOther"} => next \in {"deleteOther", "clearOther"},
           Access(m, at, next), misused' \in BOOLEAN,
           misused' => ~(InWorld(Trader(m)) /\ place[Trader(m)].map = m),
           NEW w, NEW q, w = Who(m), q = Trader(m),
           trade' \in [Player -> Trades \cup {NoTrade}],
           \A r \in Player \ {w, q} : trade'[r] = trade[r],
           \A r \in Player : Trading(r)' => Trading(r) /\ Partner(r)' = Partner(r),
           Trading(q)' <=> Trading(q),
           next \in {"deleteOther", "clearOther"} => ~Trading(w)',
           next \notin {"deleteOther", "clearOther"} => (Trading(w)' <=> Trading(w)),
           InWorld(q) /\ place[q].map = m =>
               /\ next = "deleteOwn" => /\ Trading(w)' /\ ~trade'[w].deleted
                                        /\ Trading(q)' /\ ~trade'[q].deleted
               /\ next \in {"clearOwn", "deleteOther"} => Trading(q)' /\ ~trade'[q].deleted
    PROVE  TypeOK' /\ CancelInv'
<1>0. PICK new : new = [thread[m] EXCEPT !.at = next]
  OBVIOUS
<1>1. /\ phase = "maps" /\ thread[m].at = at /\ thread' = [thread EXCEPT ![m] = new]
      /\ UNCHANGED <<phase, place, goods, locked, saved, did>>
  BY <1>0 DEF Access
<1>2. Busy(m)
  BY <1>1 DEF Busy, Idle
<1>3. thread[m] \in Cancels /\ CancelOnMap(m) /\ w \in Player /\ q \in Player
  BY <1>2, BusyTypes DEF CancelInv, Cancelling
<1>4. new \in Cancels /\ new # Idle /\ new.who = w /\ new.trader = q /\ new.at = next
  BY <1>0, <1>3, CancelGoesOn DEF Who, Trader
<1>5. TypeOK'
  BY <1>1, <1>4 DEF TypeOK
<1>6. thread'[m] = new /\ Who(m)' = w /\ Trader(m)' = q /\ thread'[m].at = next
  BY <1>1, <1>4 DEF TypeOK, Who, Trader
<1>7. CancelOnMap(m)'
  <2>1. /\ InWorld(w) /\ place[w].map = m /\ w # q
        /\ Trading(w) => Partner(w) = q
        /\ Trading(q) => Partner(q) = w
        /\ at \notin {"deleteOther", "clearOther"} => (~Trading(w) => ~Trading(q))
        /\ at \in {"deleteOther", "clearOther"} => ~Trading(w)
    BY <1>1, <1>3 DEF CancelOnMap
  <2>2. /\ InWorld(w)' /\ place'[w].map = m
        /\ Trading(w)' => Partner(w)' = q
        /\ Trading(q)' => Partner(q)' = w
    BY <1>1, <1>3, <2>1 DEF InWorld
  <2>3. IF next \in {"deleteOther", "clearOther"} THEN ~Trading(w)'
        ELSE ~Trading(w)' => ~Trading(q)'
    <3>1. CASE next \in {"deleteOther", "clearOther"}
      BY <3>1
    <3>2. CASE next \notin {"deleteOther", "clearOther"}
      <4>1. ~Trading(w) => ~Trading(q) \/ at \in {"deleteOther", "clearOther"}
        BY <2>1
      <4> QED
        BY <2>1, <3>2, <4>1
    <3> QED
      BY <3>1, <3>2
  <2> QED
    BY <1>6, <2>1, <2>2, <2>3 DEF CancelOnMap
<1>8. InWorld(q) /\ place[q].map = m => Undisturbed(m)'
  BY <1>6 DEF Undisturbed
<1>9. Cancelling'
  BY <1>1, <1>2, <1>3, <1>4, <1>7, <1>8, CancelStep
<1>10. OnlyAcrossMaps'
  <2>1. thread'[m] # Idle /\ thread'[m].trader = q
    BY <1>4, <1>6
  <2>2. misused' => (place'[q] \in Places => place'[q].map # m)
    BY <1>1 DEF InWorld
  <2> QED
    BY <2>1, <2>2 DEF OnlyAcrossMaps, InWorld
<1> QED
  BY <1>5, <1>9, <1>10 DEF CancelInv

LEMMA DeleteEffect ==
    ASSUME TypeOK, NEW x \in Player, Delete(x)
    PROVE  /\ trade' \in [Player -> Trades \cup {NoTrade}]
           /\ \A r \in Player : r # x => trade'[r] = trade[r]
           /\ \A r \in Player : (Trading(r)' <=> Trading(r)) /\ Partner(r)' = Partner(r)
           /\ misused' \in BOOLEAN
           /\ misused' => Trading(x) /\ trade[x].deleted
<1>1. (misused' \in BOOLEAN) /\ (misused' => Trading(x) /\ trade[x].deleted)
  <2>1. misused' = \E r \in {x} : Trading(r) /\ trade[r].deleted
    BY Zenon DEF Delete, Touch
  <2> QED
    BY <2>1
<1>2. CASE Trading(x)
  <2>0. PICK u : u = [trade[x] EXCEPT !.deleted = TRUE]
    OBVIOUS
  <2>1. u \in Trades /\ u.with = trade[x].with /\ u # NoTrade
    BY <1>2, <2>0, TradingType, TradeEdited, TradeFields
  <2>2. trade' = [trade EXCEPT ![x] = u]
    BY <1>2, <2>0 DEF Delete
  <2> QED
    BY <1>1, <1>2, <2>1, <2>2 DEF TypeOK, Trading, Partner
<1>3. CASE ~Trading(x)
  <2>1. trade' = trade
    BY <1>3 DEF Delete
  <2> QED
    BY <1>1, <2>1 DEF TypeOK, Trading, Partner
<1> QED
  BY <1>2, <1>3

LEMMA ClearEffect ==
    ASSUME TypeOK, NEW x \in Player, Clear(x)
    PROVE  /\ trade' \in [Player -> Trades \cup {NoTrade}] /\ ~Trading(x)'
           /\ \A r \in Player : r # x => trade'[r] = trade[r]
           /\ \A r \in Player : Trading(r)' => Trading(r) /\ Partner(r)' = Partner(r)
           /\ misused' = misused
BY DEF Clear, TypeOK, Trading, Partner

LEMMA MapCancelKept ==
    ASSUME TypeOK, CancelInv, ~misused, NEW m \in Map, MapCancel(m)
    PROVE  TypeOK' /\ CancelInv'
<1>0. CASE CheckTrade(m)
  BY <1>0, CheckKept
<1>1. ASSUME NEW at, NEW next,
             at \in {"read", "deleteOwn", "clearOwn", "deleteOther", "clearOther"},
             Access(m, at, next)
      PROVE  /\ phase = "maps" /\ thread[m].at = at /\ Busy(m)
             /\ Who(m) \in Player /\ Trader(m) \in Player /\ Who(m) # Trader(m)
             /\ CancelOnMap(m)
             /\ InWorld(Trader(m)) /\ place[Trader(m)].map = m => Undisturbed(m)
  <2>1. phase = "maps" /\ thread[m].at = at /\ Busy(m)
    BY <1>1 DEF Access, Busy, Idle
  <2> QED
    BY <2>1, BusyTypes DEF CancelInv, Cancelling, CancelOnMap
<1>2. CASE ReadTrader(m)
  <2>1. Access(m, "read", "deleteOwn") /\ UNCHANGED trade
    BY <1>2 DEF ReadTrader
  <2>2. PICK w \in Player, q \in Player :
            /\ w = Who(m) /\ q = Trader(m) /\ thread[m].at = "read"
            /\ InWorld(q) /\ place[q].map = m => Undisturbed(m)
    BY <1>1, <2>1
  <2>3. misused' = (~Trading(w) \/ trade[w].deleted)
    BY <1>2, <2>2 DEF ReadTrader, Who
  <2>4. trade[w].deleted \in BOOLEAN \/ ~Trading(w)
    BY TradingType, TradeFields
  <2>5. misused' \in BOOLEAN
    BY <2>3, <2>4
  <2>6. InWorld(q) /\ place[q].map = m =>
            Trading(w) /\ ~trade[w].deleted /\ Trading(q) /\ ~trade[q].deleted
    BY <2>2 DEF Undisturbed
  <2>7. misused' => ~(InWorld(Trader(m)) /\ place[Trader(m)].map = m)
    BY <2>2, <2>3, <2>6
  <2>8. \A r \in Player : (Trading(r)' <=> Trading(r)) /\ Partner(r)' = Partner(r)
    BY <2>1 DEF Trading, Partner
  <2>9. trade' = trade /\ trade' \in [Player -> Trades \cup {NoTrade}]
    BY <2>1 DEF TypeOK
  <2> QED
    BY <2>1, <2>2, <2>5, <2>6, <2>7, <2>8, <2>9, AccessKept
<1>3. CASE Access(m, "deleteOwn", "clearOwn") /\ Delete(thread[m].who)
  <2>1. PICK w \in Player, q \in Player :
            /\ w = Who(m) /\ q = Trader(m) /\ thread[m].at = "deleteOwn" /\ w # q
            /\ InWorld(q) /\ place[q].map = m => Undisturbed(m)
    BY <1>1, <1>3
  <2>2. Delete(w)
    BY <1>3, <2>1 DEF Who
  <2>3. InWorld(q) /\ place[q].map = m =>
            Trading(w) /\ ~trade[w].deleted /\ Trading(q) /\ ~trade[q].deleted
    BY <2>1 DEF Undisturbed
  <2>4. /\ \A r \in Player : r # w => trade'[r] = trade[r]
        /\ \A r \in Player : (Trading(r)' <=> Trading(r)) /\ Partner(r)' = Partner(r)
        /\ trade' \in [Player -> Trades \cup {NoTrade}]
    BY <2>2, DeleteEffect
  <2>5. (misused' \in BOOLEAN) /\ (misused' => ~(InWorld(Trader(m)) /\ place[Trader(m)].map = m))
    BY <2>1, <2>2, <2>3, DeleteEffect
  <2> QED
    BY <1>3, <2>1, <2>3, <2>4, <2>5, AccessKept
<1>4. CASE Access(m, "clearOwn", "deleteOther") /\ Clear(thread[m].who)
  <2>1. PICK w \in Player, q \in Player :
            /\ w = Who(m) /\ q = Trader(m) /\ thread[m].at = "clearOwn" /\ w # q
            /\ InWorld(q) /\ place[q].map = m => Undisturbed(m)
    BY <1>1, <1>4
  <2>2. Clear(w)
    BY <1>4, <2>1 DEF Who
  <2>3. InWorld(q) /\ place[q].map = m => Trading(q) /\ ~trade[q].deleted
    BY <2>1 DEF Undisturbed
  <2>4. /\ \A r \in Player : r # w => trade'[r] = trade[r]
        /\ \A r \in Player : Trading(r)' => Trading(r) /\ Partner(r)' = Partner(r)
        /\ trade' \in [Player -> Trades \cup {NoTrade}] /\ ~Trading(w)'
        /\ misused' = misused
    BY <2>2, ClearEffect
  <2>5. misused' = FALSE
    BY <2>4 DEF TypeOK
  <2>6. Trading(q)' <=> Trading(q)
    BY <2>1, <2>4 DEF Trading
  <2>7. \A r \in Player \ {w, q} : trade'[r] = trade[r]
    BY <2>4
  <2>8. InWorld(q) /\ place[q].map = m => Trading(q)' /\ ~trade'[q].deleted
    BY <2>1, <2>3, <2>4, <2>6
  <2>9. Access(m, "clearOwn", "deleteOther")
    BY <1>4
  <2>10. (misused' \in BOOLEAN) /\ ~misused'
    BY <2>5
  <2> QED
    BY <2>1, <2>4, <2>6, <2>7, <2>8, <2>9, <2>10, AccessKept
<1>5. CASE Access(m, "deleteOther", "clearOther") /\ Delete(thread[m].trader)
  <2>1. PICK w \in Player, q \in Player :
            /\ w = Who(m) /\ q = Trader(m) /\ thread[m].at = "deleteOther" /\ w # q
            /\ ~Trading(w)
            /\ InWorld(q) /\ place[q].map = m => Undisturbed(m)
    BY <1>1, <1>5 DEF CancelOnMap
  <2>2. Delete(q)
    BY <1>5, <2>1 DEF Trader
  <2>3. InWorld(q) /\ place[q].map = m => Trading(q) /\ ~trade[q].deleted
    BY <2>1 DEF Undisturbed
  <2>4. /\ \A r \in Player : r # q => trade'[r] = trade[r]
        /\ \A r \in Player : (Trading(r)' <=> Trading(r)) /\ Partner(r)' = Partner(r)
        /\ trade' \in [Player -> Trades \cup {NoTrade}]
    BY <2>2, DeleteEffect
  <2>5. (misused' \in BOOLEAN) /\ (misused' => ~(InWorld(Trader(m)) /\ place[Trader(m)].map = m))
    BY <2>1, <2>2, <2>3, DeleteEffect
  <2>6. ~Trading(w)'
    BY <2>1, <2>4
  <2> QED
    BY <1>5, <2>1, <2>4, <2>5, <2>6, AccessKept
<1>6. CASE Access(m, "clearOther", "idle") /\ Clear(thread[m].trader)
  <2>1. PICK w \in Player, q \in Player :
            /\ w = Who(m) /\ q = Trader(m) /\ thread[m].at = "clearOther" /\ w # q
            /\ ~Trading(w) /\ phase = "maps" /\ Busy(m)
    BY <1>1, <1>6 DEF CancelOnMap
  <2>2. /\ thread' = [thread EXCEPT ![m] = Idle]
        /\ UNCHANGED <<phase, place, goods, locked, saved, did>>
    BY <1>6 DEF Access
  <2>3. Clear(q)
    BY <1>6, <2>1 DEF Trader
  <2>4. /\ \A r \in Player : r # q => trade'[r] = trade[r]
        /\ \A r \in Player : Trading(r)' => Trading(r) /\ Partner(r)' = Partner(r)
        /\ trade' \in [Player -> Trades \cup {NoTrade}] /\ ~Trading(q)'
        /\ misused' = misused
    BY <2>3, ClearEffect
  <2>5. ~Trading(w)'
    BY <2>1, <2>4
  <2>6. Cancelling'
    <3>1. phase' = "maps" /\ place' = place
      BY <2>1, <2>2
    <3>2. /\ \A r \in Player \ {w, q} : trade'[r] = trade[r]
          /\ Trading(q) => Trading(q)' \/ ~Trading(w)'
      BY <2>4, <2>5
    <3> QED
      BY <2>1, <2>2, <2>4, <2>5, <3>1, <3>2, CancelStep
  <2>7. TypeOK'
    BY <2>2, <2>4 DEF TypeOK
  <2> QED
    BY <2>4, <2>6, <2>7 DEF CancelInv, OnlyAcrossMaps
<1> QED
  BY <1>0, <1>2, <1>3, <1>4, <1>5, <1>6 DEF MapCancel

\* A player moves on its map, perhaps away from its partner.
LEMMA MoveKept ==
    ASSUME TypeOK, CancelInv, ~misused, NEW p \in Player, SetPosition(p)
    PROVE  TypeOK' /\ CancelInv'
<1>0. PICK k :
          /\ \E s \in Spot : k = [place[p] EXCEPT !.spot = s]
          /\ place' = [place EXCEPT ![p] = k]
          /\ IF Trading(p) /\ ~IsWithinDist(k, Partner(p), InteractionDistance)
             THEN thread' = [thread EXCEPT ![k.map] =
                                [at |-> "check", who |-> p, trader |-> Partner(p)]]
             ELSE UNCHANGED thread
  BY DEF SetPosition
<1>1. PICK m \in Map : m = place[p].map
  BY PlacesApart DEF SetPosition, InWorld
<1>2. /\ phase = "maps" /\ InWorld(p) /\ thread[m] = Idle
      /\ UNCHANGED <<phase, trade, goods, locked, saved, did>>
  BY <1>1 DEF SetPosition
<1>3. k \in Places /\ k.map = m
  BY <1>0, <1>1, <1>2 DEF InWorld, Places
<1>4. place'[p] = k /\ \A r \in Player : r # p => place'[r] = place[r]
  BY <1>0 DEF TypeOK
<1>5. \A r \in Player : /\ InWorld(r)' <=> InWorld(r)
                        /\ InWorld(r) => place'[r].map = place[r].map
                        /\ place[r] # Offline => place'[r] # Offline
  BY <1>1, <1>2, <1>3, <1>4, PlacesApart DEF InWorld
<1>6. \A r \in Player : /\ Trading(r)' <=> Trading(r)
                        /\ Partner(r)' = Partner(r) /\ trade'[r] = trade[r]
                        /\ Whole(r) => Whole(r)'
  BY <1>2, <1>5 DEF Trading, Partner, Whole
<1>7. (misused' \in BOOLEAN) /\ (misused' <=> Trading(p) /\ trade[p].deleted)
  <2>1. misused' = \E r \in {p} : Trading(r) /\ trade[r].deleted
    BY Zenon DEF SetPosition, Touch
  <2> QED
    BY <2>1
<1>8. \A n \in Map : Busy(n) => /\ CancelOnMap(n) /\ Who(n) # p /\ n # m
                                /\ Who(n) \in Player /\ Trader(n) \in Player
  BY <1>1, <1>2, BusyTypes DEF CancelInv, Cancelling, CancelOnMap, Busy
<1>9. \/ UNCHANGED thread
      \/ Trading(p) /\ thread' = [thread EXCEPT ![m] =
                                    [at |-> "check", who |-> p, trader |-> Partner(p)]]
  BY <1>0, <1>3
<1>10. \A n \in Map : n # m => thread'[n] = thread[n]
  BY <1>9 DEF TypeOK
<1>11. TypeOK'
  <2>1. thread' \in [Map -> Cancels \cup {Idle}]
    BY <1>9, TradingType DEF TypeOK, Cancels
  <2>2. place' \in [Player -> Places \cup {Travelling, Offline}]
    BY <1>0, <1>3 DEF TypeOK
  <2> QED
    BY <1>2, <1>7, <2>1, <2>2 DEF TypeOK
<1>12. OnlyAcrossMaps'
  <2> SUFFICES ASSUME misused'
               PROVE  \E n \in Map :
                          /\ thread'[n] # Idle
                          /\ place'[thread'[n].trader] \in Places => place'[thread'[n].trader].map # n
    BY DEF OnlyAcrossMaps, InWorld
  <2>1. Trading(p) /\ ~Whole(p)
    BY <1>7 DEF Whole
  <2>2. PICK n \in Map : Busy(n) /\ p \in Parties(n)
    BY <2>1 DEF CancelInv, Cancelling
  <2>3. Trader(n) = p /\ n # m
    BY <1>8, <2>2 DEF Parties
  <2>4. thread'[n] # Idle /\ thread'[n].trader = p
    BY <1>10, <2>2, <2>3 DEF Busy, Trader
  <2> QED
    BY <1>3, <1>4, <2>3, <2>4
<1>13. \A n \in Map : n # m => /\ Busy(n)' <=> Busy(n)
                               /\ Who(n)' = Who(n) /\ Trader(n)' = Trader(n)
                               /\ Parties(n)' = Parties(n)
  BY <1>10 DEF Busy, Who, Trader, Parties
<1>14. ASSUME NEW n \in Map, n # m, Busy(n) PROVE CancelOnMap(n)'
  <2>1. PICK a \in Player, b \in Player : a = Who(n) /\ b = Trader(n)
    BY <1>8, <1>14
  <2>2. Who(n)' = a /\ Trader(n)' = b /\ thread'[n] = thread[n]
    BY <1>10, <1>13, <1>14, <2>1
  <2>3. CancelOnMap(n)
    BY <1>8, <1>14
  <2> QED
    BY <1>5, <1>6, <2>1, <2>2, <2>3 DEF CancelOnMap
<1>15. ASSUME NEW n \in Map, n # m, Busy(n), InWorld(Trader(n))', place'[Trader(n)'].map = n
       PROVE  Undisturbed(n)'
  <2>1. PICK a \in Player, b \in Player : a = Who(n) /\ b = Trader(n)
    BY <1>8, <1>15
  <2>2. Who(n)' = a /\ Trader(n)' = b /\ thread'[n] = thread[n]
    BY <1>10, <1>13, <1>15, <2>1
  <2>3. InWorld(b) /\ place[b].map = n
    BY <1>5, <1>15, <2>2
  <2>4. Undisturbed(n)
    BY <1>15, <2>1, <2>3 DEF CancelInv, Cancelling
  <2> QED
    BY <1>6, <2>1, <2>2, <2>4 DEF Undisturbed
<1>16. CASE UNCHANGED thread
  <2>1. /\ \A n \in Map : /\ Busy(n)' <=> Busy(n)
                          /\ Who(n)' = Who(n) /\ Trader(n)' = Trader(n)
                          /\ Parties(n)' = Parties(n)
        /\ ~Busy(m)
    BY <1>2, <1>16 DEF Busy, Who, Trader, Parties
  <2>2. \A n, l \in Map : n # l /\ Busy(n)' /\ Busy(l)' =>
            Crossed(n, l)' \/ Parties(n)' \cap Parties(l)' = {}
    BY <2>1 DEF CancelInv, Cancelling, Crossed
  <2>3. \A r \in Player :
            Trading(r)' /\ (\A n \in Map : Busy(n)' => r \notin Parties(n)') => Whole(r)'
    BY <1>6, <2>1 DEF CancelInv, Cancelling
  <2>4. ~misused => Cancelling'
    BY <1>2, <1>14, <1>15, <2>1, <2>2, <2>3 DEF Cancelling
  <2> QED
    BY <1>11, <1>12, <2>4 DEF CancelInv
<1>17. CASE Trading(p) /\ thread' = [thread EXCEPT ![m] =
                                       [at |-> "check", who |-> p, trader |-> Partner(p)]]
  <2>0. PICK q \in Player : q = Partner(p)
    BY <1>17, TradingType
  <2>1. thread'[m] = [at |-> "check", who |-> p, trader |-> q]
    BY <1>17, <2>0 DEF TypeOK
  <2>2. Busy(m)' /\ Who(m)' = p /\ Trader(m)' = q /\ Parties(m)' = {p, q} /\ thread'[m].at = "check"
    BY <2>1 DEF Busy, Who, Trader, Parties, Idle
  <2> SUFFICES ASSUME ~misused' PROVE Cancelling'
    BY <1>11, <1>12 DEF CancelInv
  <2>3. ~trade[p].deleted
    BY <1>7, <1>17
  <2>4. ASSUME NEW n \in Map, Busy(n)
        PROVE  (Who(n) = q /\ Trader(n) = p) \/ {p, q} \cap Parties(n) = {}
    <3>1. CASE p \in Parties(n)
      <4>1. Trader(n) = p /\ Who(n) = q
        BY <1>8, <1>17, <2>0, <2>4, <3>1 DEF Parties, CancelOnMap
      <4> QED
        BY <4>1
    <3>2. CASE q \in Parties(n) /\ p \notin Parties(n)
      <4>1. Who(n) \in Player /\ Trader(n) \in Player /\ CancelOnMap(n)
        BY <1>8, <2>4
      <4>2. \A l \in Map : Busy(l) => p \notin Parties(l)
        <5> SUFFICES ASSUME NEW l \in Map, Busy(l), p \in Parties(l) PROVE FALSE
          OBVIOUS
        <5>1. Trader(l) = p /\ Who(l) = q /\ l # n
          BY <1>8, <1>17, <2>0, <3>2 DEF Parties, CancelOnMap
        <5>2. Crossed(n, l) \/ Parties(n) \cap Parties(l) = {}
          BY <2>4, <5>1 DEF CancelInv, Cancelling
        <5> QED
          BY <3>2, <5>1, <5>2 DEF Crossed, Parties
      <4>3. Trading(q) /\ Partner(q) = p
        BY <1>17, <2>0, <4>2 DEF CancelInv, Cancelling, Whole
      <4> QED
        BY <3>2, <4>1, <4>3 DEF CancelOnMap, Parties
    <3> QED
      BY <3>1, <3>2
  <2>5. \A r \in Player :
            Trading(r)' /\ (\A l \in Map : Busy(l)' => r \notin Parties(l)') => Whole(r)'
    <3> SUFFICES ASSUME NEW r \in Player, Trading(r)', \A l \in Map : Busy(l)' => r \notin Parties(l)'
                 PROVE  Whole(r)'
      OBVIOUS
    <3>1. \A l \in Map : Busy(l) => r \notin Parties(l)
      BY <1>8, <1>13
    <3> QED
      BY <1>6, <3>1 DEF CancelInv, Cancelling
  <2>6. \A l, n1 \in Map : l # n1 /\ Busy(l)' /\ Busy(n1)' =>
            Crossed(l, n1)' \/ Parties(l)' \cap Parties(n1)' = {}
    <3> SUFFICES ASSUME NEW l \in Map, NEW n1 \in Map, l # n1, Busy(l)', Busy(n1)'
                 PROVE  Crossed(l, n1)' \/ Parties(l)' \cap Parties(n1)' = {}
      OBVIOUS
    <3>1. CASE l # m /\ n1 # m
      BY <1>13, <3>1 DEF CancelInv, Cancelling, Crossed
    <3>2. CASE l = m
      BY <1>13, <2>2, <2>4, <3>2 DEF Crossed
    <3>3. CASE n1 = m
      BY <1>13, <2>2, <2>4, <3>3 DEF Crossed
    <3> QED
      BY <3>1, <3>2, <3>3
  <2>7. CASE \E n \in Map : Busy(n) /\ Who(n) = q /\ Trader(n) = p
    <3>1. PICK n \in Map : Busy(n) /\ Who(n) = q /\ Trader(n) = p
      BY <2>7
    <3>2. /\ n # m /\ InWorld(q) /\ place[q].map = n /\ q # p
          /\ Trading(q) => Partner(q) = p
      BY <1>8, <3>1 DEF CancelOnMap
    <3>3. CancelOnMap(m)'
      BY <1>1, <1>2, <1>5, <1>6, <1>17, <2>0, <2>2, <3>2 DEF CancelOnMap
    <3>4. InWorld(q)' => place'[q].map # m
      BY <1>5, <3>2
    <3>5. InWorld(Trader(m))' /\ place'[Trader(m)'].map = m => Undisturbed(m)'
      BY <2>2, <3>4
    <3> QED
      BY <1>2, <1>13, <1>14, <1>15, <2>5, <2>6, <3>3, <3>5 DEF Cancelling
  <2>8. CASE ~\E n \in Map : Busy(n) /\ Who(n) = q /\ Trader(n) = p
    <3>1. \A n \in Map : Busy(n) => p \notin Parties(n) /\ q \notin Parties(n)
      BY <2>4, <2>8
    <3>2. Whole(p) /\ Trading(q) /\ Partner(q) = p /\ p # q
      BY <1>17, <2>0, <3>1 DEF CancelInv, Cancelling, Whole
    <3>3. Whole(q)
      BY <3>1, <3>2 DEF CancelInv, Cancelling
    <3>4. CancelOnMap(m)'
      BY <1>1, <1>2, <1>5, <1>6, <1>17, <2>0, <2>2, <3>2 DEF CancelOnMap
    <3>5. Undisturbed(m)'
      BY <1>6, <1>17, <2>2, <2>3, <3>2, <3>3 DEF Undisturbed, Whole
    <3> QED
      BY <1>2, <1>13, <1>14, <1>15, <2>5, <2>6, <3>4, <3>5 DEF Cancelling
  <2> QED
    BY <2>7, <2>8
<1> QED
  BY <1>9, <1>16, <1>17

-----------------------------------------------------------------------------
(* The steps that leave the trades alone.                                  *)

LEMMA ArriveKept ==
    ASSUME TypeOK, CancelInv, ~misused, NEW p \in Player, Arrive(p)
    PROVE  TypeOK' /\ CancelInv'
<1>1. PICK l \in Places : place' = [place EXCEPT ![p] = l]
  BY DEF Arrive
<1>2. /\ phase = "sessions"
      /\ UNCHANGED <<phase, trade, thread, goods, locked, saved, misused, did>>
  BY DEF Arrive
<1>3. TypeOK'
  BY <1>1, <1>2 DEF TypeOK
<1>4. ASSUME NEW r \in Player, Trading(r)' PROVE Whole(r)'
  <2>1. Trading(r) /\ Whole(r)
    BY <1>2, <1>4, InSessions DEF Trading
  <2>2. place'[r] # Offline
    BY <1>1, <2>1, PlacesApart DEF TypeOK, Whole
  <2> QED
    BY <1>2, <2>1, <2>2 DEF Whole, Trading, Partner
<1>5. \A m \in Map : thread'[m] = Idle
  BY <1>2, InSessions
<1> QED
  BY <1>2, <1>3, <1>4, <1>5, SessionStep

\* The invariant is about the trades, the threads and the places only.
LEMMA SameCancels ==
    ASSUME CancelInv, UNCHANGED <<phase, trade, thread, place, misused>>
    PROVE  CancelInv'
<1>1. \A m \in Map : /\ Busy(m)' <=> Busy(m)
                     /\ Parties(m)' = Parties(m)
                     /\ CancelOnMap(m)' <=> CancelOnMap(m)
                     /\ Undisturbed(m)' <=> Undisturbed(m)
                     /\ InWorld(Trader(m))' <=> InWorld(Trader(m))
                     /\ place'[Trader(m)'] = place[Trader(m)]
  BY DEF Busy, Who, Trader, Parties, CancelOnMap, Undisturbed, InWorld, Trading, Partner
<1>2. \A m, n \in Map : Crossed(m, n)' <=> Crossed(m, n)
  BY DEF Crossed, Who, Trader
<1>3. \A r \in Player : (Trading(r)' <=> Trading(r)) /\ (Whole(r)' <=> Whole(r))
  BY DEF Trading, Partner, Whole
<1>4. Cancelling => Cancelling'
  BY <1>1, <1>2, <1>3 DEF Cancelling
<1>5. OnlyAcrossMaps => OnlyAcrossMaps'
  BY DEF OnlyAcrossMaps, InWorld
<1> QED
  BY <1>4, <1>5 DEF CancelInv

LEMMA ChangeKept ==
    ASSUME TypeOK, CancelInv, ~misused, NEW p \in Player, Change(p)
    PROVE  TypeOK' /\ CancelInv'
<1>1. UNCHANGED <<phase, trade, thread, place, saved, misused>> /\ Tally("events", MaxEvents)
  BY DEF Change
<1>2. did' \in [trades : 0..MaxTrades, events : 0..MaxEvents]
  BY <1>1, EventType
<1>3. \A g \in 0..MaxGold, n \in 1..MaxGold :
          Purse(g, n, 0) \in 0..MaxGold /\ Purse(g, 0, n) \in 0..MaxGold
  BY GoodsAssumption, PurseType
<1>4. goods' \in Holdings /\ locked' \subseteq Item
  <2>1. goods.bag \in [Player -> SUBSET Item] /\ goods.gold \in [Player -> 0..MaxGold]
    BY DEF TypeOK, Holdings
  <2>2. CASE \E i \in goods.bag[p] :
                 goods' = [goods EXCEPT !.bag[p] = @ \ {i}] /\ UNCHANGED locked
    BY <2>2, <2>1 DEF TypeOK, Holdings
  <2>3. CASE \E n \in 1..MaxGold :
                 /\ \/ goods' = [goods EXCEPT !.gold[p] = Purse(@, n, 0)]
                    \/ goods' = [goods EXCEPT !.gold[p] = Purse(@, 0, n)]
                 /\ UNCHANGED locked
    BY <2>3, <2>1, <1>3 DEF TypeOK, Holdings
  <2>4. CASE \E i \in goods.bag[p] :
                 /\ locked' = IF i \in locked THEN locked \ {i} ELSE locked \cup {i}
                 /\ UNCHANGED goods
    BY <2>4, <2>1 DEF TypeOK
  <2> QED
    BY <2>2, <2>3, <2>4 DEF Change
<1> QED
  BY <1>1, <1>2, <1>4, SameCancels DEF TypeOK

LEMMA SavePlayerKept ==
    ASSUME TypeOK, CancelInv, ~misused, NEW p \in Player, SavePlayer(p)
    PROVE  TypeOK' /\ CancelInv'
<1>1. /\ saved' = SavedWith({p}, goods)
      /\ UNCHANGED <<phase, trade, thread, place, goods, locked, misused, did>>
  BY DEF SavePlayer
<1>2. saved' \in [row : [Item -> Player \cup {Nobody}], gold : [Player -> 0..MaxGold]]
  BY <1>1, SavedType DEF TypeOK
<1> QED
  BY <1>1, <1>2, SameCancels DEF TypeOK

LEMMA BeginMapsKept ==
    ASSUME TypeOK, CancelInv, ~misused, BeginMaps
    PROVE  TypeOK' /\ CancelInv'
<1>1. /\ phase = "sessions" /\ phase' = "maps"
      /\ UNCHANGED <<trade, thread, place, goods, locked, saved, misused, did>>
  BY DEF BeginMaps
<1>2. TypeOK'
  BY <1>1 DEF TypeOK
<1>3. \A m \in Map : ~Busy(m)'
  BY <1>1, InSessions DEF Busy
<1>4. \A r \in Player : Trading(r)' => Whole(r)'
  BY <1>1, InSessions DEF Trading, Partner, Whole
<1>5. Cancelling'
  BY <1>1, <1>3, <1>4 DEF Cancelling
<1> QED
  BY <1>1, <1>2, <1>5 DEF CancelInv, OnlyAcrossMaps

LEMMA EndMapsKept ==
    ASSUME TypeOK, CancelInv, ~misused, EndMaps
    PROVE  TypeOK' /\ CancelInv'
<1>1. /\ phase' = "sessions" /\ \A m \in Map : thread[m] = Idle
      /\ UNCHANGED <<trade, thread, place, goods, locked, saved, misused, did>>
  BY DEF EndMaps
<1>2. TypeOK'
  BY <1>1 DEF TypeOK
<1>3. \A m \in Map : thread'[m] = Idle
  BY <1>1
<1>4. \A r \in Player : Trading(r) => Whole(r)
  BY <1>1 DEF CancelInv, Cancelling, Busy
<1>5. \A r \in Player : Trading(r)' => Whole(r)'
  BY <1>1, <1>4 DEF Trading, Partner, Whole
<1> QED
  BY <1>1, <1>2, <1>3, <1>5, SessionStep

LEMMA CrashKept ==
    ASSUME TypeOK, CancelInv, ~misused, Crash
    PROVE  TypeOK' /\ CancelInv'
<1>1. /\ phase' = "sessions"
      /\ trade' = [p \in Player |-> NoTrade]
      /\ thread' = [m \in Map |-> Idle]
      /\ place' = [p \in Player |-> Offline]
      /\ goods' = [bag |-> [p \in Player |-> {i \in Item : saved.row[i] = p}],
                   gold |-> saved.gold]
      /\ locked' \in SUBSET locked
      /\ UNCHANGED <<saved, misused>> /\ Tally("events", MaxEvents)
  BY DEF Crash
<1>2. did' \in [trades : 0..MaxTrades, events : 0..MaxEvents]
  BY <1>1, EventType
<1>3. goods' \in Holdings
  BY <1>1 DEF TypeOK, Holdings
<1>4. TypeOK'
  BY <1>1, <1>2, <1>3 DEF TypeOK
<1>5. /\ \A m \in Map : thread'[m] = Idle
      /\ \A r \in Player : ~Trading(r)'
  BY <1>1 DEF Trading
<1> QED
  BY <1>1, <1>4, <1>5, SessionStep

-----------------------------------------------------------------------------
(* The theorems.                                                           *)

LEMMA CancelInit ==
    ASSUME Init PROVE CancelInv
<1>1. \A p \in Player : ~Trading(p)
  BY DEF Init, Trading
<1>2. \A m \in Map : ~Busy(m)
  BY DEF Init, Busy
<1> QED
  BY <1>1, <1>2 DEF Init, CancelInv, OnlyAcrossMaps, Cancelling

LEMMA CancelNext ==
    ASSUME TypeOK, CancelInv, [Next]_vars
    PROVE  TypeOK' /\ CancelInv'
<1>1. CASE UNCHANGED vars
  BY <1>1, SameCancels DEF vars, TypeOK
<1>2. CASE Next
  <2>1. ~misused
    BY <1>2, Frozen
  <2>2. CASE \E p, q \in Player : InitiateTrade(p, q)
    BY <2>1, <2>2, InitiateKept
  <2>3. CASE \E p \in Player : SetTradeGold(p) \/ SetTradeItem(p) \/ ClearTradeItem(p)
                               \/ UnacceptTrade(p)
    BY <2>1, <2>3, OffersKept
  <2>4. CASE \E p \in Player : AcceptTrade(p) \/ CancelTrade(p) \/ Logout(p)
    BY <2>1, <2>4, AcceptKept, CancelKept, LogoutKept
  <2>5. CASE \E p \in Player : Depart(p) \/ Arrive(p) \/ SetPosition(p)
    BY <2>1, <2>5, DepartKept, ArriveKept, MoveKept
  <2>6. CASE \E p \in Player : Change(p) \/ SavePlayer(p)
    BY <2>1, <2>6, ChangeKept, SavePlayerKept
  <2>7. CASE BeginMaps \/ EndMaps \/ Crash
    BY <2>1, <2>7, BeginMapsKept, EndMapsKept, CrashKept
  <2>8. CASE \E m \in Map : MapCancel(m)
    BY <2>1, <2>8, MapCancelKept
  <2> QED
    BY <1>2, <2>2, <2>3, <2>4, <2>5, <2>6, <2>7, <2>8 DEF Next
<1> QED
  BY <1>1, <1>2

LEMMA TradesInvariant == Spec => [](TypeOK /\ CancelInv)
<1>1. Init => TypeOK /\ CancelInv
  BY TypeInit, CancelInit
<1>2. (TypeOK /\ CancelInv) /\ [Next]_vars => (TypeOK /\ CancelInv)'
  BY CancelNext
<1> QED
  BY <1>1, <1>2, PTL DEF Spec

\* Every value stays in its set, whatever the players, maps, positions and
\* goods are: no trade, purse or row of the database holds what it cannot.
THEOREM TypeCorrect == Spec => []TypeOK
BY TradesInvariant, PTL

\* Between the ticks of the maps no trade has lost one of its sides: whoever has
\* a m_trade has a partner whose m_trade names it back, neither is deleted and
\* neither player has left the server, whatever the threads of the maps did.
THEOREM TradesAreMutual == Spec => []MutualTrade
<1>1. TypeOK /\ CancelInv => MutualTrade
  BY InSessions DEF MutualTrade, Whole
<1> QED
  BY <1>1, TradesInvariant, PTL

\* The use of a deleted TradeData is confined to TradeCancel on the thread of a
\* map whose player's partner is on another map: it needs a partner who has left.
THEOREM UsedOnlyAcrossMaps == Spec => []OnlyAcrossMaps
<1>1. CancelInv => OnlyAcrossMaps
  BY DEF CancelInv
<1> QED
  BY <1>1, TradesInvariant, PTL

-----------------------------------------------------------------------------
(* Trade implements Barter.  What a player holds is never registered with  *)
(* anybody else: that alone makes a save of one player a save of one row   *)
(* of the ledger, and keeps an item with one owner.                        *)

Registered == \A p \in Player : \A i \in goods.bag[p] : saved.row[i] = p

\* After the players S are saved with what they hold in h, the rows of S are
\* that, and no other row has changed.
LEMMA SavedRows ==
    ASSUME TypeOK, NEW S \in SUBSET Player, NEW h \in Holdings, OneOwner(h),
           \A r \in Player : \A i \in h.bag[r] :
               IF r \in S THEN saved.row[i] \in S ELSE saved.row[i] = r
    PROVE  \A i \in Item, r \in Player :
               SavedWith(S, h).row[i] = r <=> IF r \in S THEN i \in h.bag[r] ELSE saved.row[i] = r
<1> SUFFICES ASSUME NEW i \in Item, NEW r \in Player
             PROVE  SavedWith(S, h).row[i] = r <=>
                        IF r \in S THEN i \in h.bag[r] ELSE saved.row[i] = r
  OBVIOUS
<1>1. PICK o : o = Holder(h.bag, i)
  OBVIOUS
<1>2. /\ o \in Player \cup {Nobody}
      /\ o # Nobody => i \in h.bag[o]
      /\ o = Nobody => \A p \in Player : i \notin h.bag[p]
  BY <1>1, HolderType
<1>3. SavedWith(S, h).row[i] = IF o \in S THEN o
                               ELSE IF o = Nobody /\ saved.row[i] \in S THEN Nobody
                               ELSE saved.row[i]
  BY <1>1 DEF SavedWith
<1>4. \A p \in Player : i \in h.bag[p] => o = p
  <2> SUFFICES ASSUME NEW p \in Player, i \in h.bag[p], o # p PROVE FALSE
    OBVIOUS
  <2>1. o \in Player /\ i \in h.bag[o]
    BY <1>2
  <2> QED
    BY <2>1 DEF OneOwner
<1>5. Nobody \notin Player
  BY TradeAssumption
<1>6. CASE o = Nobody
  BY <1>2, <1>3, <1>5, <1>6
<1>7. CASE o \in Player
  BY <1>2, <1>3, <1>4, <1>5, <1>7
<1> QED
  BY <1>2, <1>6, <1>7

\* What is registered properly has one owner.
LEMMA RegisteredOnce ==
    ASSUME Registered
    PROVE  OneOwner(goods)
BY DEF Registered, OneOwner

LEMMA SavedLedger ==
    ASSUME TypeOK, NEW S \in SUBSET Player, NEW h \in Holdings, OneOwner(h),
           \A r \in Player : \A i \in h.bag[r] :
               IF r \in S THEN saved.row[i] \in S ELSE saved.row[i] = r,
           saved' = SavedWith(S, h)
    PROVE  /\ Ledger' = [bag |-> [r \in Player |-> IF r \in S THEN h.bag[r] ELSE Ledger.bag[r]],
                         gold |-> [r \in Player |-> IF r \in S THEN h.gold[r] ELSE Ledger.gold[r]]]
           /\ \A r \in Player : \A i \in h.bag[r] : saved'.row[i] = r
<1>1. \A i \in Item, r \in Player :
          saved'.row[i] = r <=> IF r \in S THEN i \in h.bag[r] ELSE saved.row[i] = r
  BY SavedRows
<1>2. h.bag \in [Player -> SUBSET Item]
  BY DEF Holdings
<1>3. \A r \in Player : {i \in Item : saved'.row[i] = r} =
                            IF r \in S THEN h.bag[r] ELSE {i \in Item : saved.row[i] = r}
  BY <1>1, <1>2
<1>4. saved'.gold = [r \in Player |-> IF r \in S THEN h.gold[r] ELSE saved.gold[r]]
  BY DEF SavedWith
<1>5. Ledger'.bag = [r \in Player |-> IF r \in S THEN h.bag[r] ELSE Ledger.bag[r]]
  BY <1>3 DEF Ledger
<1>6. Ledger'.gold = [r \in Player |-> IF r \in S THEN h.gold[r] ELSE Ledger.gold[r]]
  BY <1>4 DEF Ledger
<1>7. Ledger' = [bag |-> Ledger'.bag, gold |-> Ledger'.gold]
  BY DEF Ledger
<1>8. \A r \in Player : \A i \in h.bag[r] : saved'.row[i] = r
  BY <1>1, <1>2
<1> QED
  BY <1>5, <1>6, <1>7, <1>8

\* The save of one player.
LEMMA SavedOne ==
    ASSUME TypeOK, Registered, NEW p \in Player, saved' = SavedWith({p}, goods), goods' = goods
    PROVE  /\ Registered'
           /\ Ledger' = [bag |-> [Ledger.bag EXCEPT ![p] = goods.bag[p]],
                         gold |-> [Ledger.gold EXCEPT ![p] = goods.gold[p]]]
<1> DEFINE S == {p}
<1>1. goods \in Holdings /\ OneOwner(goods) /\ S \in SUBSET Player
  BY RegisteredOnce DEF TypeOK
<1>2. \A r \in Player : \A i \in goods.bag[r] :
          IF r \in S THEN saved.row[i] \in S ELSE saved.row[i] = r
  BY DEF Registered
<1>3. /\ Ledger' = [bag |-> [r \in Player |-> IF r \in S THEN goods.bag[r] ELSE Ledger.bag[r]],
                    gold |-> [r \in Player |-> IF r \in S THEN goods.gold[r] ELSE Ledger.gold[r]]]
      /\ \A r \in Player : \A i \in goods.bag[r] : saved'.row[i] = r
  <2>1. saved' = SavedWith(S, goods)
    OBVIOUS
  <2> HIDE DEF S
  <2> QED
    BY <1>1, <1>2, <2>1, SavedLedger
<1>4. Ledger.bag = [r \in Player |-> {i \in Item : saved.row[i] = r}] /\ Ledger.gold = saved.gold
  BY DEF Ledger
<1>5. Ledger.gold \in [Player -> 0..MaxGold]
  BY <1>4 DEF TypeOK
<1>6. [r \in Player |-> IF r \in S THEN goods.bag[r] ELSE Ledger.bag[r]]
          = [Ledger.bag EXCEPT ![p] = goods.bag[p]]
  BY <1>4
<1>7. [r \in Player |-> IF r \in S THEN goods.gold[r] ELSE Ledger.gold[r]]
          = [Ledger.gold EXCEPT ![p] = goods.gold[p]]
  BY <1>5
<1> QED
  BY <1>3, <1>6, <1>7 DEF Registered

\* What may happen to the deals of the players in one step.
Weighed(r) ==
    \/ Deal(r)' = Deal(r)
    \/ Deal(r)' = Promise!NoDeal
    \/ Deal(r) = Promise!NoDeal

LEMMA DealSame ==
    ASSUME NEW r \in Player, trade'[r] = trade[r],
           Trading(r) => trade'[Partner(r)] = trade[Partner(r)]
    PROVE  Deal(r)' = Deal(r)
BY DEF Deal, Trading, Partner

LEMMA DealGone ==
    ASSUME NEW r \in Player,
           ~Trading(r)' \/ trade'[r].deleted \/ ~trade'[r].accepted \/ ~Trading(Partner(r))'
    PROVE  Deal(r)' = Promise!NoDeal
BY DEF Deal, Promise!NoDeal

\* A player who stands by a deal before and after a step stands by the same one
\* if the two TradeData offer the same.
LEMMA DealFixed ==
    ASSUME NEW r \in Player, NEW q, q = Partner(r),
           Trading(r) /\ Trading(q) /\ Trading(r)' =>
               /\ Partner(r)' = q
               /\ trade'[r].items = trade[r].items /\ trade'[r].money = trade[r].money
               /\ trade'[q].items = trade[q].items /\ trade'[q].money = trade[q].money
    PROVE  Weighed(r)
<1>1. CASE ~Trading(r) \/ ~Trading(q)
  BY <1>1 DEF Weighed, Deal, Promise!NoDeal
<1>2. CASE ~Trading(r)'
  BY <1>2, DealGone DEF Weighed
<1>3. CASE Trading(r) /\ Trading(q) /\ Trading(r)'
  <2>1. \/ Deal(r) = Promise!NoDeal
        \/ Deal(r) = [with |-> q, give |-> trade[r].items, pay |-> trade[r].money,
                      take |-> trade[q].items, get |-> trade[q].money]
    BY DEF Deal, Promise!NoDeal
  <2>2. \/ Deal(r)' = Promise!NoDeal
        \/ Deal(r)' = [with |-> q, give |-> trade'[r].items, pay |-> trade'[r].money,
                       take |-> trade'[q].items, get |-> trade'[q].money]
    BY <1>3 DEF Deal, Promise!NoDeal
  <2> QED
    BY <1>3, <2>1, <2>2 DEF Weighed
<1> QED
  BY <1>1, <1>2, <1>3

LEMMA DealType ==
    ASSUME NEW r \in Player, TypeOK'
    PROVE  Deal(r)' = Promise!NoDeal \/ Deal(r)' \in Promise!Deals
<1> SUFFICES ASSUME Deal(r)' # Promise!NoDeal PROVE Deal(r)' \in Promise!Deals
  OBVIOUS
<1>1. trade' \in [Player -> Trades \cup {NoTrade}]
  BY DEF TypeOK
<1>2. PICK q : q = Partner(r)'
  OBVIOUS
<1>3. /\ Trading(r)' /\ trade'[q] # NoTrade
      /\ Deal(r)' = [with |-> q, give |-> trade'[r].items, pay |-> trade'[r].money,
                     take |-> trade'[q].items, get |-> trade'[q].money]
  BY <1>2 DEF Deal, Promise!NoDeal, Trading
<1>4. trade'[r] \in Trades /\ q \in Player
  BY <1>1, <1>2, <1>3, TradeFields DEF Trading, Partner
<1>5. trade'[q] \in Trades
  BY <1>1, <1>3, <1>4
<1> QED
  BY <1>3, <1>4, <1>5, TradeFields DEF Promise!Deals

\* Deals that are made and withdrawn while the goods stay where they are.
LEMMA Considered ==
    ASSUME TypeOK', UNCHANGED <<goods, saved, locked>>, \A r \in Player : Weighed(r)
    PROVE  Promise!BarterNext
<1>1. UNCHANGED Ledger
  BY DEF Ledger
<1>2. \A r \in Player :
          \/ Deal(r)' \in {Deal(r), Promise!NoDeal}
          \/ Deal(r) = Promise!NoDeal /\ Deal(r)' \in Promise!Deals
  BY DealType DEF Weighed
<1>3. Promise!Consider
  BY <1>1, <1>2 DEF Promise!Consider
<1> QED
  BY <1>3, Zenon DEF Promise!BarterNext

\* A step that reaches only the two sides of one trade.
LEMMA PairWeighed ==
    ASSUME TypeOK, CancelInv, phase = "sessions", ~misused, NEW p \in Player, Trading(p),
           NEW q, q = Partner(p),
           \A r \in Player : r \notin {p, q} => trade'[r] = trade[r],
           Weighed(p), Weighed(q)
    PROVE  \A r \in Player : Weighed(r)
<1>1. q \in Player /\ Whole(p)
  BY InSessions
<1>2. ASSUME NEW r \in Player, r \notin {p, q} PROVE Weighed(r)
  <2>1. ASSUME Trading(r) PROVE trade'[Partner(r)] = trade[Partner(r)]
    <3>1. Whole(r) /\ Partner(r) \in Player
      BY <2>1, InSessions
    <3>2. Partner(r) \notin {p, q}
      BY <1>1, <1>2, <3>1 DEF Whole
    <3> QED
      BY <3>1, <3>2
  <2>2. trade'[r] = trade[r]
    BY <1>2
  <2> QED
    BY <2>1, <2>2, DealSame DEF Weighed
<1> QED
  BY <1>2

LEMMA UnacceptedWeighed ==
    ASSUME TypeOK, CancelInv, phase = "sessions", ~misused, NEW p \in Player, Trading(p),
           NEW u \in Trades, u.with = trade[p].with,
           trade' = Unaccepted([trade EXCEPT ![p] = u], p)
    PROVE  \A r \in Player : Weighed(r)
<1>1. PICK q \in Player : q = Partner(p)
  BY InSessions
<1>2. q # p /\ trade[q] \in Trades
  BY <1>1, InSessions DEF Whole
<1>3. trade' = [trade EXCEPT ![p] = [u EXCEPT !.accepted = FALSE],
                             ![q] = [trade[q] EXCEPT !.accepted = FALSE]]
  <2> DEFINE t == [trade EXCEPT ![p] = u]
  <2>1. t[p] = u /\ t[p].with = q /\ t[q] = trade[q]
    BY <1>1, <1>2 DEF TypeOK, Partner
  <2>2. trade' = [t EXCEPT ![p].accepted = FALSE, ![q].accepted = FALSE]
    BY <2>1 DEF Unaccepted
  <2>3. t \in [Player -> Trades \cup {NoTrade}]
    BY DEF TypeOK
  <2>4. [t EXCEPT ![p].accepted = FALSE, ![q].accepted = FALSE]
            = [t EXCEPT ![p] = [t[p] EXCEPT !.accepted = FALSE],
                        ![q] = [t[q] EXCEPT !.accepted = FALSE]]
    BY <1>2, <2>3
  <2>5. [t EXCEPT ![p] = [u EXCEPT !.accepted = FALSE],
                  ![q] = [trade[q] EXCEPT !.accepted = FALSE]]
            = [trade EXCEPT ![p] = [u EXCEPT !.accepted = FALSE],
                            ![q] = [trade[q] EXCEPT !.accepted = FALSE]]
    OBVIOUS
  <2> QED
    BY <2>1, <2>2, <2>4, <2>5
<1>4. /\ trade'[p] = [u EXCEPT !.accepted = FALSE]
      /\ trade'[q] = [trade[q] EXCEPT !.accepted = FALSE]
      /\ \A r \in Player : r \notin {p, q} => trade'[r] = trade[r]
  BY <1>2, <1>3 DEF TypeOK
<1>5. ~trade'[p].accepted /\ ~trade'[q].accepted
  BY <1>2, <1>4 DEF Trades
<1>6. Weighed(p) /\ Weighed(q)
  BY <1>5, DealGone DEF Weighed
<1> QED
  BY <1>1, <1>4, <1>6, PairWeighed

LEMMA OffersWeighed ==
    ASSUME TypeOK, CancelInv, ~misused, NEW p \in Player,
           SetTradeGold(p) \/ SetTradeItem(p) \/ ClearTradeItem(p)
    PROVE  (\A r \in Player : Weighed(r)) /\ UNCHANGED <<goods, saved, locked>>
<1>0. phase = "sessions" /\ Trading(p) /\ trade[p] \in Trades /\ trade \in [Player -> Trades \cup {NoTrade}]
  BY TradingType DEF SetTradeGold, SetTradeItem, ClearTradeItem, Ready, TypeOK
<1>1. PICK u \in Trades : /\ u.with = trade[p].with
                          /\ Edits(p, Unaccepted([trade EXCEPT ![p] = u], p))
  <2>1. CASE SetTradeGold(p)
    <3>1. PICK n \in 0..MaxGold : Edits(p, Unaccepted([trade EXCEPT ![p].money = n], p))
      BY <2>1 DEF SetTradeGold
    <3>2. PICK u : u = [trade[p] EXCEPT !.money = n]
      OBVIOUS
    <3>3. u \in Trades /\ u.with = trade[p].with
      BY <1>0, <3>2, TradeEdited
    <3>4. [trade EXCEPT ![p].money = n] = [trade EXCEPT ![p] = u]
      BY <1>0, <3>2
    <3> QED
      BY <3>1, <3>3, <3>4
  <2>2. CASE SetTradeItem(p)
    <3>1. PICK i \in Item, out \in SUBSET trade[p].items :
              Edits(p, Unaccepted([trade EXCEPT ![p].items = (trade[p].items \ out) \cup {i}], p))
      <4>1. goods.bag[p] \subseteq Item
        BY DEF TypeOK, Holdings
      <4> QED
        BY <2>2, <4>1 DEF SetTradeItem
    <3>2. PICK S \in SUBSET Item : S = (trade[p].items \ out) \cup {i}
      BY <1>0, TradeFields
    <3>3. PICK u : u = [trade[p] EXCEPT !.items = S]
      OBVIOUS
    <3>4. u \in Trades /\ u.with = trade[p].with
      BY <1>0, <3>3, TradeEdited
    <3>5. [trade EXCEPT ![p].items = S] = [trade EXCEPT ![p] = u]
      BY <1>0, <3>3
    <3>6. Edits(p, Unaccepted([trade EXCEPT ![p].items = S], p))
      BY <3>1, <3>2
    <3> QED
      BY <3>4, <3>5, <3>6
  <2>3. CASE ClearTradeItem(p)
    <3>1. PICK i : Edits(p, Unaccepted([trade EXCEPT ![p].items = @ \ {i}], p))
      BY <2>3 DEF ClearTradeItem
    <3>2. PICK S \in SUBSET Item : S = trade[p].items \ {i}
      BY <1>0, TradeFields
    <3>3. PICK u : u = [trade[p] EXCEPT !.items = S]
      OBVIOUS
    <3>4. u \in Trades /\ u.with = trade[p].with
      BY <1>0, <3>3, TradeEdited
    <3>5. [trade EXCEPT ![p].items = @ \ {i}] = [trade EXCEPT ![p] = u]
      BY <1>0, <3>2, <3>3
    <3> QED
      BY <3>1, <3>4, <3>5
  <2> QED
    BY <2>1, <2>2, <2>3
<1>2. trade' = Unaccepted([trade EXCEPT ![p] = u], p) /\ UNCHANGED <<goods, saved, locked>>
  BY <1>1 DEF Edits
<1> QED
  BY <1>0, <1>1, <1>2, UnacceptedWeighed

\* The flags of the two sides of p's trade change, and nothing else.
LEMMA FlagsWeighed ==
    ASSUME TypeOK, CancelInv, phase = "sessions", ~misused, NEW p \in Player, Trading(p),
           NEW q, q = Partner(p), NEW mine, NEW his,
           \/ trade' = [trade EXCEPT ![p].accepted = mine]
           \/ trade' = [trade EXCEPT ![p].accepted = mine, ![q].accepted = his]
    PROVE  \A r \in Player : Weighed(r)
<1>1. q \in Player /\ q # p /\ Partner(q) = p /\ trade[p] \in Trades /\ trade[q] \in Trades
  BY InSessions DEF Whole
<1>2. trade \in [Player -> Trades \cup {NoTrade}]
  BY DEF TypeOK
<1>3. /\ trade'[p] = [trade[p] EXCEPT !.accepted = mine]
      /\ trade'[q] \in {trade[q], [trade[q] EXCEPT !.accepted = his]}
      /\ \A r \in Player : r \notin {p, q} => trade'[r] = trade[r]
  BY <1>1, <1>2
<1>4. /\ trade'[p].items = trade[p].items /\ trade'[p].money = trade[p].money
      /\ trade'[p].with = trade[p].with
      /\ trade'[q].items = trade[q].items /\ trade'[q].money = trade[q].money
      /\ trade'[q].with = trade[q].with
  BY <1>1, <1>3 DEF Trades
<1>5. Partner(p)' = q /\ Partner(q)' = p
  BY <1>1, <1>4 DEF Partner
<1>6. Weighed(p)
  BY <1>4, <1>5, DealFixed
<1>7. Weighed(q)
  BY <1>1, <1>4, <1>5, DealFixed
<1> QED
  BY <1>3, <1>6, <1>7, PairWeighed

LEMMA InitiateWeighed ==
    ASSUME TypeOK, CancelInv, ~misused, NEW p \in Player, NEW q \in Player, InitiateTrade(p, q)
    PROVE  \A r \in Player : Weighed(r)
<1>1. /\ phase = "sessions" /\ ~Trading(p) /\ ~Trading(q) /\ p # q
      /\ trade' = [trade EXCEPT ![p] = NewTrade(q), ![q] = NewTrade(p)]
  BY DEF InitiateTrade, Ready
<1>2. /\ trade'[p] = NewTrade(q) /\ trade'[q] = NewTrade(p)
      /\ \A r \in Player : r \notin {p, q} => trade'[r] = trade[r]
  BY <1>1 DEF TypeOK
<1>3. Weighed(p) /\ Weighed(q)
  BY <1>2, NewTradeType, DealGone DEF Weighed
<1>4. ASSUME NEW r \in Player, r \notin {p, q} PROVE Weighed(r)
  <2>1. ASSUME Trading(r) PROVE trade'[Partner(r)] = trade[Partner(r)]
    <3>1. Whole(r) /\ Partner(r) \in Player
      BY <1>1, <2>1, InSessions
    <3>2. Partner(r) \notin {p, q}
      BY <1>1, <3>1 DEF Whole
    <3> QED
      BY <1>2, <3>1, <3>2
  <2> QED
    BY <1>2, <1>4, <2>1, DealSame DEF Weighed
<1> QED
  BY <1>3, <1>4

\* The trade of p is over: both sides are free of their deal, and the others
\* keep theirs.
LEMMA PairFreed ==
    ASSUME TypeOK, CancelInv, phase = "sessions", ~misused, NEW p \in Player, Trading(p),
           NEW q, q = Partner(p),
           trade' = [trade EXCEPT ![p] = NoTrade, ![q] = NoTrade]
    PROVE  /\ Deal(p)' = Promise!NoDeal /\ Deal(q)' = Promise!NoDeal
           /\ \A r \in Player : r \notin {p, q} => Deal(r)' = Deal(r)
<1>1. q \in Player /\ Whole(p)
  BY InSessions
<1>2. /\ trade'[p] = NoTrade /\ trade'[q] = NoTrade
      /\ \A r \in Player : r \notin {p, q} => trade'[r] = trade[r]
  BY <1>1 DEF TypeOK
<1>3. ~Trading(p)' /\ ~Trading(q)'
  BY <1>2 DEF Trading
<1>4. ASSUME NEW r \in Player, r \notin {p, q} PROVE Deal(r)' = Deal(r)
  <2>1. ASSUME Trading(r) PROVE trade'[Partner(r)] = trade[Partner(r)]
    <3>1. Whole(r) /\ Partner(r) \in Player
      BY <2>1, InSessions
    <3>2. Partner(r) \notin {p, q}
      BY <1>1, <1>4, <3>1 DEF Whole
    <3> QED
      BY <1>2, <3>1, <3>2
  <2> QED
    BY <1>2, <1>4, <2>1, DealSame
<1> QED
  BY <1>1, <1>3, <1>4, DealGone

\* A trade that completes: the deal is the one that q stands by, and p by this
\* accept; both sides are saved with what they then have.
LEMMA CompleteGoods ==
    ASSUME TypeOK, Registered, NEW p \in Player, NEW q \in Player, p # q,
           trade[p] \in Trades, trade[q] \in Trades,
           goods' = Swapped(p, q), saved' = SavedWith({p, q}, Swapped(p, q))
    PROVE  /\ Registered'
           /\ Ledger' = [bag |-> [Ledger.bag EXCEPT ![p] = (goods.bag[p] \ Given(p)) \cup Given(q),
                                                    ![q] = (goods.bag[q] \ Given(q)) \cup Given(p)],
                         gold |-> [Ledger.gold EXCEPT
                                     ![p] = Purse(goods.gold[p], trade[p].money, trade[q].money),
                                     ![q] = Purse(goods.gold[q], trade[q].money, trade[p].money)]]
<1>1. PICK S \in SUBSET Player : S = {p, q}
  OBVIOUS
<1>2. PICK P, Q, g, k : /\ P = (goods.bag[p] \ Given(p)) \cup Given(q)
                        /\ Q = (goods.bag[q] \ Given(q)) \cup Given(p)
                        /\ g = Purse(goods.gold[p], trade[p].money, trade[q].money)
                        /\ k = Purse(goods.gold[q], trade[q].money, trade[p].money)
  OBVIOUS
<1>3. goods.bag \in [Player -> SUBSET Item] /\ goods.gold \in [Player -> 0..MaxGold]
  BY DEF TypeOK, Holdings
<1>4. PICK h \in Holdings : h = Swapped(p, q)
  BY GivenTypes
<1>5. /\ h.bag = [goods.bag EXCEPT ![p] = P, ![q] = Q]
      /\ h.gold = [goods.gold EXCEPT ![p] = g, ![q] = k]
  BY <1>2, <1>4 DEF Swapped
<1>6. /\ h.bag[p] = P /\ h.bag[q] = Q
      /\ \A r \in Player : r \notin S => h.bag[r] = goods.bag[r]
      /\ h.gold[p] = g /\ h.gold[q] = k
  BY <1>1, <1>3, <1>5
<1>7. Given(p) \subseteq goods.bag[p] /\ Given(q) \subseteq goods.bag[q]
  BY DEF Given
<1>8. P \cup Q \subseteq goods.bag[p] \cup goods.bag[q]
  BY <1>2, <1>7
<1>9. goods.bag[p] \cap goods.bag[q] = {}
  BY RegisteredOnce DEF OneOwner
<1>10. P \cap Q = {}
  BY <1>2, <1>7, <1>9
<1>11. \A r \in Player : \A i \in h.bag[r] :
           IF r \in S THEN saved.row[i] \in S ELSE saved.row[i] = r
  BY <1>1, <1>6, <1>8 DEF Registered
<1>12. OneOwner(h)
  <2> SUFFICES ASSUME NEW r \in Player, NEW s \in Player, r # s, NEW i, i \in h.bag[r], i \in h.bag[s]
               PROVE  FALSE
    BY DEF OneOwner
  <2>1. CASE r \in S /\ s \in S
    BY <1>1, <1>6, <1>10, <2>1
  <2>2. CASE ~(r \in S /\ s \in S)
    BY <1>11, <2>2
  <2> QED
    BY <2>1, <2>2
<1>13. saved' = SavedWith(S, h)
  BY <1>1, <1>4
<1>14. /\ Ledger' = [bag |-> [r \in Player |-> IF r \in S THEN h.bag[r] ELSE Ledger.bag[r]],
                     gold |-> [r \in Player |-> IF r \in S THEN h.gold[r] ELSE Ledger.gold[r]]]
       /\ \A r \in Player : \A i \in h.bag[r] : saved'.row[i] = r
  BY <1>11, <1>12, <1>13, SavedLedger
<1>15. Ledger.bag = [r \in Player |-> {i \in Item : saved.row[i] = r}] /\ Ledger.gold = saved.gold
  BY DEF Ledger
<1>16. Ledger.gold \in [Player -> 0..MaxGold]
  BY <1>15 DEF TypeOK
<1>17. [r \in Player |-> IF r \in S THEN h.bag[r] ELSE Ledger.bag[r]]
           = [Ledger.bag EXCEPT ![p] = P, ![q] = Q]
  BY <1>1, <1>6, <1>15
<1>18. [r \in Player |-> IF r \in S THEN h.gold[r] ELSE Ledger.gold[r]]
           = [Ledger.gold EXCEPT ![p] = g, ![q] = k]
  BY <1>1, <1>6, <1>16
<1>19. Registered'
  BY <1>4, <1>14 DEF Registered
<1> QED
  BY <1>2, <1>14, <1>17, <1>18, <1>19

\* What a purse can pay it pays in full.
LEMMA PursePays ==
    ASSUME NEW g \in 0..MaxGold, NEW out \in 0..MaxGold, NEW in \in 0..MaxGold, out <= g
    PROVE  Purse(g, out, in) = Promise!Purse(g, out, in)
BY GoodsAssumption DEF Purse, Promise!Purse

LEMMA CompleteRefines ==
    ASSUME TypeOK, CancelInv, Registered, ~misused, phase = "sessions",
           NEW p \in Player, NEW q, q = Partner(p), Trading(p), CompleteTrade(p, q)
    PROVE  Registered' /\ Promise!BarterNext
<1>1. /\ q \in Player /\ trade[p] \in Trades /\ trade[q] \in Trades
      /\ p # q /\ Partner(q) = p /\ Trading(q) /\ ~trade[q].deleted /\ ~trade[p].deleted
  BY InSessions DEF Whole
<1>2. /\ goods' = Swapped(p, q) /\ saved' = SavedWith({p, q}, Swapped(p, q))
      /\ trade' = [trade EXCEPT ![p] = NoTrade, ![q] = NoTrade]
      /\ locked' = locked /\ Obstacle(p, q) = ""
  BY DEF CompleteTrade
<1>3. /\ trade[p].money <= goods.gold[p] /\ trade[q].money <= goods.gold[q]
      /\ (Given(p) \cup Given(q)) \cap locked = {}
      /\ trade[q].accepted
      /\ Fits(p, Given(q)) /\ Fits(q, Given(p))
  <2>1. goods.gold[p] \in Nat /\ goods.gold[q] \in Nat /\ trade[p].money \in Nat /\ trade[q].money \in Nat
    BY <1>1, TradeFields, GoodsAssumption DEF TypeOK, Holdings
  <2> QED
    BY <1>2, <2>1 DEF Obstacle
<1>4. PICK d : d = [with |-> q, give |-> trade[p].items, pay |-> trade[p].money,
                    take |-> trade[q].items, get |-> trade[q].money]
  OBVIOUS
<1>5. Deal(q) = [with |-> p, give |-> trade[q].items, pay |-> trade[q].money,
                 take |-> trade[p].items, get |-> trade[p].money]
  BY <1>1, <1>3 DEF Deal, Trading, Partner
<1>6. Promise!Mirror(q, Deal(q)) = d
  BY <1>4, <1>5 DEF Promise!Mirror
<1>7. Deal(q) \in Promise!Deals /\ Deal(q).with = p
  BY <1>1, <1>5, TradeFields DEF Promise!Deals
<1>8. Deal(p) \in {Promise!NoDeal, d}
  BY <1>4 DEF Deal, Promise!NoDeal
<1>9. /\ Deal(p)' = Promise!NoDeal /\ Deal(q)' = Promise!NoDeal
      /\ \A r \in Player : r \notin {p, q} => Deal(r)' = Deal(r)
  BY <1>1, <1>2, PairFreed
<1>10. PICK P, Q, g, k : /\ P = (goods.bag[p] \ Given(p)) \cup Given(q)
                         /\ Q = (goods.bag[q] \ Given(q)) \cup Given(p)
                         /\ g = Purse(goods.gold[p], trade[p].money, trade[q].money)
                         /\ k = Purse(goods.gold[q], trade[q].money, trade[p].money)
  OBVIOUS
<1>11. /\ P = (goods.bag[p] \ (d.give \cap goods.bag[p])) \cup (d.take \cap goods.bag[q])
       /\ Q = (goods.bag[q] \ (d.take \cap goods.bag[q])) \cup (d.give \cap goods.bag[p])
       /\ ((d.give \cap goods.bag[p]) \cup (d.take \cap goods.bag[q])) \cap locked = {}
  BY <1>3, <1>4, <1>10 DEF Given
<1>12. Cardinality(P) <= Room /\ Cardinality(Q) <= Room
  BY <1>3, <1>10 DEF Fits
<1>13. /\ g = Promise!Purse(goods.gold[p], d.pay, d.get)
       /\ k = Promise!Purse(goods.gold[q], d.get, d.pay)
  <2>1. /\ goods.gold[p] \in 0..MaxGold /\ goods.gold[q] \in 0..MaxGold
        /\ trade[p].money \in 0..MaxGold /\ trade[q].money \in 0..MaxGold
    BY <1>1, TradeFields DEF TypeOK, Holdings
  <2> QED
    BY <1>3, <1>4, <1>10, <2>1, PursePays
<1>14. d.pay <= goods.gold[p] /\ d.get <= goods.gold[q]
  BY <1>3, <1>4
<1>15. goods' = [bag |-> [goods.bag EXCEPT ![p] = P, ![q] = Q],
                 gold |-> [goods.gold EXCEPT ![p] = g, ![q] = k]]
  BY <1>1, <1>2, <1>10 DEF Swapped
<1>16. /\ Registered'
       /\ Ledger' = [bag |-> [Ledger.bag EXCEPT ![p] = P, ![q] = Q],
                     gold |-> [Ledger.gold EXCEPT ![p] = g, ![q] = k]]
  BY <1>1, <1>2, <1>10, CompleteGoods
<1>17. [r \in Player |-> Deal(r)]' = [[r \in Player |-> Deal(r)] EXCEPT ![p] = Promise!NoDeal,
                                                                        ![q] = Promise!NoDeal]
  BY <1>1, <1>9
<1>18. Promise!Exchange(p, q)
  <2> DEFINE pl == [r \in Player |-> Deal(r)]
             D == Promise!Mirror(q, pl[q])
             given == D.give \cap goods.bag[p]
             taken == D.take \cap goods.bag[q]
             bagP == (goods.bag[p] \ given) \cup taken
             bagQ == (goods.bag[q] \ taken) \cup given
             goldP == Promise!Purse(goods.gold[p], D.pay, D.get)
             goldQ == Promise!Purse(goods.gold[q], D.get, D.pay)
             After(h) == [bag |-> [h.bag EXCEPT ![p] = bagP, ![q] = bagQ],
                          gold |-> [h.gold EXCEPT ![p] = goldP, ![q] = goldQ]]
  <2>1. pl[p] = Deal(p) /\ pl[q] = Deal(q)
    BY <1>1
  <2>2. D = d
    BY <1>6, <2>1
  <2>3. P = bagP /\ Q = bagQ /\ g = goldP /\ k = goldQ /\ (given \cup taken) \cap locked = {}
    BY <1>11, <1>13, <2>2
  <2>4. pl[q] \in Promise!Deals /\ pl[q].with = p /\ pl[p] \in {Promise!NoDeal, D}
    BY <1>7, <1>8, <2>1, <2>2
  <2>5. D.pay <= goods.gold[p] /\ D.get <= goods.gold[q]
    BY <1>14, <2>2
  <2>6. Promise!Cardinality(bagP) <= Room /\ Promise!Cardinality(bagQ) <= Room
    <3>1. \A S : Promise!Cardinality(S) = Cardinality(S)
      BY DEF Promise!Cardinality, Cardinality
    <3> QED
      BY <1>12, <2>3, <3>1
  <2>7. goods' = After(goods)
    BY <1>15, <2>3
  <2>8. Ledger' = After(Ledger)
    BY <1>16, <2>3
  <2>9. pl' = [pl EXCEPT ![p] = Promise!NoDeal, ![q] = Promise!NoDeal]
    BY <1>17
  <2> QED
    BY <1>1, <1>2, <2>3, <2>4, <2>5, <2>6, <2>7, <2>8, <2>9, Zenon DEF Promise!Exchange
<1> QED
  BY <1>1, <1>16, <1>18, Zenon DEF Promise!BarterNext

\* A player is saved, and a deal may be off with that.
LEMMA SaveRefines ==
    ASSUME TypeOK, Registered, NEW p \in Player, saved' = SavedWith({p}, goods),
           UNCHANGED <<goods, locked>>,
           \A r \in Player : Deal(r)' = Deal(r) \/ Deal(r)' = Promise!NoDeal
    PROVE  Registered' /\ Promise!BarterNext
<1>1. /\ Registered'
      /\ Ledger' = [bag |-> [Ledger.bag EXCEPT ![p] = goods.bag[p]],
                    gold |-> [Ledger.gold EXCEPT ![p] = goods.gold[p]]]
  BY SavedOne
<1>2. Promise!Save(p)
  BY <1>1 DEF Promise!Save
<1> QED
  BY <1>1, <1>2, Zenon DEF Promise!BarterNext

LEMMA LogoutRefines ==
    ASSUME TypeOK, CancelInv, Registered, ~misused, NEW p \in Player, Logout(p)
    PROVE  Registered' /\ Promise!BarterNext
<1>1. /\ phase = "sessions" /\ saved' = SavedWith({p}, goods)
      /\ UNCHANGED <<goods, locked>> /\ trade' = Cancelled(trade, p)
  BY DEF Logout, Ready
<1>2. ASSUME NEW r \in Player PROVE Deal(r)' = Deal(r) \/ Deal(r)' = Promise!NoDeal
  <2>1. CASE Trading(p)
    <3>1. PICK q : q = Partner(p)
      OBVIOUS
    <3>2. trade' = [trade EXCEPT ![p] = NoTrade, ![q] = NoTrade]
      BY <1>1, <2>1, <3>1 DEF Cancelled, Trading, Partner
    <3> QED
      BY <1>1, <2>1, <3>1, <3>2, PairFreed
  <2>2. CASE ~Trading(p)
    <3>1. trade' = trade
      BY <1>1, <2>2 DEF Cancelled, Trading
    <3> QED
      BY <3>1 DEF Deal, Trading, Partner
  <2> QED
    BY <2>1, <2>2
<1> QED
  BY <1>1, <1>2, SaveRefines

\* What a player loses, earns and spends outside trade.
LEMMA ChangeRefines ==
    ASSUME TypeOK, Registered, NEW p \in Player, Change(p)
    PROVE  Registered' /\ Promise!BarterNext
<1>1. UNCHANGED <<trade, saved>>
  BY DEF Change
<1>2. /\ Ledger' = Ledger
      /\ [r \in Player |-> Deal(r)]' = [r \in Player |-> Deal(r)]
  BY <1>1 DEF Ledger, Deal, Trading, Partner
<1>3. goods.bag \in [Player -> SUBSET Item] /\ goods.gold \in [Player -> 0..MaxGold]
  BY DEF TypeOK, Holdings
<1>4. CASE \E i \in goods.bag[p] :
               goods' = [goods EXCEPT !.bag[p] = @ \ {i}] /\ UNCHANGED locked
  <2>1. PICK i \in goods.bag[p] : goods' = [goods EXCEPT !.bag[p] = @ \ {i}] /\ UNCHANGED locked
    BY <1>4
  <2>2. \A r \in Player : goods'.bag[r] \subseteq goods.bag[r]
    BY <1>3, <2>1 DEF TypeOK, Holdings
  <2>3. Registered'
    BY <1>1, <2>2 DEF Registered
  <2>4. Promise!Live(p)
    BY <1>2, <2>1 DEF Promise!Live
  <2> QED
    BY <2>3, <2>4, Zenon DEF Promise!BarterNext
<1>5. CASE \E n \in 1..MaxGold :
               /\ \/ goods' = [goods EXCEPT !.gold[p] = Purse(@, n, 0)]
                  \/ goods' = [goods EXCEPT !.gold[p] = Purse(@, 0, n)]
               /\ UNCHANGED locked
  <2>1. PICK g \in 0..MaxGold : goods' = [goods EXCEPT !.gold[p] = g]
    <3>1. \A h \in 0..MaxGold, n \in 1..MaxGold :
              Purse(h, n, 0) \in 0..MaxGold /\ Purse(h, 0, n) \in 0..MaxGold
      BY GoodsAssumption, PurseType
    <3> QED
      BY <1>3, <1>5, <3>1
  <2>2. goods'.bag = goods.bag /\ UNCHANGED locked
    BY <1>5, <2>1 DEF TypeOK, Holdings
  <2>3. Registered'
    BY <1>1, <2>2 DEF Registered
  <2>4. Promise!Live(p)
    BY <1>2, <2>1, <2>2 DEF Promise!Live
  <2> QED
    BY <2>3, <2>4, Zenon DEF Promise!BarterNext
<1>6. CASE \E i \in goods.bag[p] :
               /\ locked' = IF i \in locked THEN locked \ {i} ELSE locked \cup {i}
               /\ UNCHANGED goods
  <2>1. locked' \in SUBSET Item
    BY <1>3, <1>6 DEF TypeOK
  <2>2. Registered'
    BY <1>1, <1>6 DEF Registered
  <2>3. Promise!Lock
    BY <1>2, <1>6, <2>1 DEF Promise!Lock
  <2> QED
    BY <2>2, <2>3, Zenon DEF Promise!BarterNext
<1> QED
  BY <1>4, <1>5, <1>6 DEF Change

LEMMA CrashRefines ==
    ASSUME TypeOK, Crash
    PROVE  Registered' /\ Promise!BarterNext
<1>1. /\ trade' = [p \in Player |-> NoTrade]
      /\ goods' = [bag |-> [p \in Player |-> {i \in Item : saved.row[i] = p}],
                   gold |-> saved.gold]
      /\ locked' \in SUBSET locked /\ saved' = saved
  BY DEF Crash
<1>2. Registered'
  BY <1>1 DEF Registered
<1>3. goods' = Ledger /\ Ledger' = Ledger
  BY <1>1 DEF Ledger
<1>4. \A r \in Player : Deal(r)' = Promise!NoDeal
  BY <1>1, DealGone DEF Trading
<1>5. locked' \in SUBSET Item
  BY <1>1 DEF TypeOK
<1>6. Promise!Crash
  BY <1>3, <1>4, <1>5 DEF Promise!Crash
<1> QED
  BY <1>2, <1>6, Zenon DEF Promise!BarterNext

\* The thread of a map that cancels a trade only takes deals back.
LEMMA MapCancelWeighed ==
    ASSUME TypeOK, NEW m \in Map, MapCancel(m)
    PROVE  (\A r \in Player : Weighed(r)) /\ UNCHANGED <<goods, saved, locked>>
<1>1. UNCHANGED <<goods, saved, locked>>
  BY DEF MapCancel, CheckTrade, ReadTrader, Access
<1>2. CASE CheckTrade(m) \/ ReadTrader(m)
  <2>1. trade' = trade
    BY <1>2 DEF CheckTrade, ReadTrader
  <2> QED
    BY <1>1, <2>1, DealSame DEF Weighed
<1>3. ASSUME NEW x, Delete(x) PROVE \A r \in Player : Weighed(r)
  <2>1. trade' = trade \/ trade' = [trade EXCEPT ![x].deleted = TRUE]
    BY <1>3 DEF Delete
  <2>2. \A r \in Player : /\ Trading(r) /\ Trading(r)' =>
                               /\ trade'[r].with = trade[r].with
                               /\ trade'[r].items = trade[r].items
                               /\ trade'[r].money = trade[r].money
    <3> SUFFICES ASSUME NEW r \in Player, Trading(r)
                 PROVE  /\ trade'[r].with = trade[r].with
                        /\ trade'[r].items = trade[r].items
                        /\ trade'[r].money = trade[r].money
      OBVIOUS
    <3>1. trade[r] \in Trades /\ trade \in [Player -> Trades \cup {NoTrade}]
      BY TradingType DEF TypeOK
    <3>2. trade'[r] = trade[r] \/ trade'[r] = [trade[r] EXCEPT !.deleted = TRUE]
      BY <2>1, <3>1
    <3> QED
      BY <3>1, <3>2 DEF Trades
  <2>3. ASSUME NEW r \in Player, NEW q, q = Partner(r), Trading(r), Trading(q), Trading(r)'
        PROVE  /\ Partner(r)' = q
               /\ trade'[r].items = trade[r].items /\ trade'[r].money = trade[r].money
               /\ trade'[q].items = trade[q].items /\ trade'[q].money = trade[q].money
    <3>1. q \in Player
      BY <2>3, TradingType
    <3>2. Trading(q)'
      <4>1. trade[q] \in Trades /\ trade \in [Player -> Trades \cup {NoTrade}]
        BY <2>3, <3>1, TradingType DEF TypeOK
      <4>2. trade'[q] \in Trades
        BY <2>1, <3>1, <4>1, TradeEdited
      <4> QED
        BY <4>2, TradeFields DEF Trading
    <3> QED
      BY <2>2, <2>3, <3>1, <3>2 DEF Partner
  <2> QED
    BY <2>3, DealFixed
<1>4. ASSUME NEW x, Clear(x) PROVE \A r \in Player : Weighed(r)
  <2>1. trade' = [trade EXCEPT ![x] = NoTrade]
    BY <1>4 DEF Clear
  <2> SUFFICES ASSUME NEW r \in Player PROVE Weighed(r)
    OBVIOUS
  <2>2. PICK q : q = Partner(r)
    OBVIOUS
  <2>3. trade'[r] = trade[r] \/ ~Trading(r)'
    BY <2>1 DEF TypeOK, Trading
  <2>4. CASE ~Trading(r)'
    BY <2>4, DealGone DEF Weighed
  <2>5. CASE trade'[r] = trade[r] /\ Trading(r)
    <3>1. q \in Player
      BY <2>2, <2>5, TradingType
    <3>2. trade'[q] = trade[q] \/ ~Trading(q)'
      BY <2>1, <3>1 DEF TypeOK, Trading
    <3>3. Partner(r)' = q
      BY <2>2, <2>5 DEF Partner
    <3>4. CASE trade'[q] = trade[q]
      BY <2>2, <2>5, <3>4, DealSame DEF Weighed
    <3>5. CASE ~Trading(q)'
      BY <3>3, <3>5, DealGone DEF Weighed
    <3> QED
      BY <3>2, <3>4, <3>5
  <2>6. CASE trade'[r] = trade[r] /\ ~Trading(r)
    BY <2>6, DealSame DEF Weighed
  <2> QED
    BY <2>3, <2>4, <2>5, <2>6
<1> QED
  BY <1>1, <1>2, <1>3, <1>4 DEF MapCancel

LEMMA RefinesNext ==
    ASSUME TypeOK, CancelInv, Registered, [Next]_vars
    PROVE  Registered' /\ [Promise!BarterNext]_(Promise!barterVars)
<1>0. TypeOK' /\ CancelInv'
  BY CancelNext
<1>1. ASSUME UNCHANGED <<goods, saved>> PROVE Registered'
  BY <1>1 DEF Registered
<1>2. ASSUME UNCHANGED <<goods, saved, locked, trade>>
      PROVE  UNCHANGED Promise!barterVars
  BY <1>2 DEF Promise!barterVars, Ledger, Deal, Trading, Partner
<1>3. CASE UNCHANGED vars
  BY <1>1, <1>2, <1>3 DEF vars
<1>4. CASE Next
  <2>1. ~misused
    BY <1>4, Frozen
  <2>2. ASSUME NEW p \in Player, NEW q \in Player, InitiateTrade(p, q)
        PROVE  Registered' /\ Promise!BarterNext
    <3>1. UNCHANGED <<goods, saved, locked>>
      BY <2>2 DEF InitiateTrade
    <3>2. \A r \in Player : Weighed(r)
      BY <2>1, <2>2, InitiateWeighed
    <3> QED
      BY <1>0, <1>1, <3>1, <3>2, Considered
  <2>3. ASSUME NEW p \in Player, SetTradeGold(p) \/ SetTradeItem(p) \/ ClearTradeItem(p)
        PROVE  Registered' /\ Promise!BarterNext
    BY <1>0, <1>1, <2>1, <2>3, OffersWeighed, Considered
  <2>4. ASSUME NEW p \in Player, UnacceptTrade(p)
        PROVE  Registered' /\ Promise!BarterNext
    <3>1. /\ phase = "sessions" /\ Trading(p)
          /\ trade' = [trade EXCEPT ![p].accepted = FALSE]
          /\ UNCHANGED <<goods, saved, locked>>
      BY <2>4 DEF UnacceptTrade, Ready, Edits
    <3>2. \A r \in Player : Weighed(r)
      BY <2>1, <3>1, FlagsWeighed
    <3> QED
      BY <1>0, <1>1, <3>1, <3>2, Considered
  <2>5. ASSUME NEW p \in Player, AcceptTrade(p)
        PROVE  Registered' /\ Promise!BarterNext
    <3>1. PICK q : q = Partner(p)
      OBVIOUS
    <3>2. /\ phase = "sessions" /\ Trading(p)
          /\ NoteAccept(p, q) \/ CompleteTrade(p, q)
      BY <2>5, <3>1 DEF AcceptTrade, Ready
    <3>3. CASE NoteAccept(p, q)
      <4>1. PICK mine, his : trade' = [trade EXCEPT ![p].accepted = mine, ![q].accepted = his]
        BY <3>3 DEF NoteAccept, Edits
      <4>2. UNCHANGED <<goods, saved, locked>>
        BY <3>3 DEF NoteAccept, Edits
      <4>3. \A r \in Player : Weighed(r)
        BY <2>1, <3>1, <3>2, <4>1, FlagsWeighed
      <4> QED
        BY <1>0, <1>1, <4>2, <4>3, Considered
    <3>4. CASE CompleteTrade(p, q)
      BY <2>1, <3>1, <3>2, <3>4, CompleteRefines
    <3> QED
      BY <3>2, <3>3, <3>4
  <2>6. ASSUME NEW p \in Player, CancelTrade(p)
        PROVE  Registered' /\ Promise!BarterNext
    <3>1. PICK q : q = Partner(p)
      OBVIOUS
    <3>2. /\ phase = "sessions" /\ Trading(p)
          /\ trade' = [trade EXCEPT ![p] = NoTrade, ![q] = NoTrade]
          /\ UNCHANGED <<goods, saved, locked>>
      BY <2>6, <3>1 DEF CancelTrade, Ready, Edits, Cancelled, Trading, Partner
    <3>3. \A r \in Player : Weighed(r)
      BY <2>1, <3>1, <3>2, PairFreed DEF Weighed
    <3> QED
      BY <1>0, <1>1, <3>2, <3>3, Considered
  <2>7. ASSUME NEW p \in Player, Depart(p) \/ Arrive(p) \/ SetPosition(p)
        PROVE  Registered' /\ UNCHANGED Promise!barterVars
    <3>1. UNCHANGED <<goods, saved, locked, trade>>
      BY <2>7 DEF Depart, Arrive, SetPosition
    <3> QED
      BY <1>1, <1>2, <3>1
  <2>8. ASSUME NEW p \in Player, Logout(p) PROVE Registered' /\ Promise!BarterNext
    BY <2>1, <2>8, LogoutRefines
  <2>9. ASSUME NEW p \in Player, Change(p) PROVE Registered' /\ Promise!BarterNext
    BY <2>9, ChangeRefines
  <2>10. ASSUME NEW p \in Player, SavePlayer(p) PROVE Registered' /\ Promise!BarterNext
    <3>1. saved' = SavedWith({p}, goods) /\ UNCHANGED <<goods, locked, trade>>
      BY <2>10 DEF SavePlayer
    <3>2. \A r \in Player : Deal(r)' = Deal(r)
      BY <3>1, DealSame
    <3> QED
      BY <3>1, <3>2, SaveRefines
  <2>11. CASE BeginMaps \/ EndMaps
    <3>1. UNCHANGED <<goods, saved, locked, trade>>
      BY <2>11 DEF BeginMaps, EndMaps
    <3> QED
      BY <1>1, <1>2, <3>1
  <2>12. ASSUME NEW m \in Map, MapCancel(m) PROVE Registered' /\ Promise!BarterNext
    BY <1>0, <1>1, <2>12, MapCancelWeighed, Considered
  <2>13. CASE Crash
    BY <2>13, CrashRefines
  <2> QED
    BY <1>4, <2>2, <2>3, <2>4, <2>5, <2>6, <2>7, <2>8, <2>9, <2>10, <2>11, <2>12, <2>13
    DEF Next
<1> QED
  BY <1>3, <1>4

\* At first the database has what the players have.
LEMMA RefinesInit ==
    ASSUME Init
    PROVE  Registered /\ Promise!BarterInit
<1>1. /\ goods = [bag |-> Bag0, gold |-> Gold0] /\ locked = {}
      /\ trade = [p \in Player |-> NoTrade]
      /\ saved.row = [i \in Item |-> Holder(Bag0, i)] /\ saved.gold = Gold0
  BY DEF Init
<1>2. goods \in Holdings /\ OneOwner(goods) /\ Bag0 \in [Player -> SUBSET Item]
  BY <1>1, TradeAssumption DEF OneOwner, Holdings
<1>3. \A p \in Player, i \in Item : i \in Bag0[p] <=> Holder(Bag0, i) = p
  <2> SUFFICES ASSUME NEW p \in Player, NEW i \in Item
               PROVE  i \in Bag0[p] <=> Holder(Bag0, i) = p
    OBVIOUS
  <2>1. PICK o : o = Holder(Bag0, i)
    OBVIOUS
  <2>2. /\ o \in Player \cup {Nobody}
        /\ o # Nobody => i \in Bag0[o]
        /\ o = Nobody => \A r \in Player : i \notin Bag0[r]
    BY <2>1, HolderType
  <2>3. i \in Bag0[p] /\ o # Nobody => o = p
    BY <1>1, <1>2, <2>2 DEF OneOwner
  <2> QED
    BY <2>1, <2>2, <2>3, TradeAssumption
<1>4. Registered
  BY <1>1, <1>2, <1>3 DEF Registered
<1>5. Ledger = goods
  <2>1. [p \in Player |-> {i \in Item : saved.row[i] = p}] = Bag0
    BY <1>1, <1>2, <1>3
  <2> QED
    BY <1>1, <2>1 DEF Ledger
<1>6. \A p \in Player : Deal(p) = Promise!NoDeal
  BY <1>1 DEF Deal, Trading, Promise!NoDeal
<1> QED
  BY <1>1, <1>2, <1>4, <1>5, <1>6
  DEF Promise!BarterInit, Promise!Holdings, Holdings, Promise!OneOwner, OneOwner

\* Trade keeps the promise of Barter for any players, items, maps and amounts:
\* goods change hands only by a deal both sides stand by at that moment, with
\* what each then has, and the two sides reach the database in one transaction.
THEOREM PromiseIsKept == Spec => ImplementsBarter
<1>1. Init => Registered /\ Promise!BarterInit
  BY RefinesInit
<1>2. (TypeOK /\ CancelInv) /\ Registered /\ [Next]_vars
          => Registered' /\ [Promise!BarterNext]_(Promise!barterVars)
  BY RefinesNext
<1> QED
  BY <1>1, <1>2, TradesInvariant, PTL DEF Spec, ImplementsBarter, Promise!BarterSpec

\* No item is ever with two players, neither in their inventories nor in
\* character_inventory: what one player holds is never registered with another.
THEOREM ItemsHaveOneOwner == Spec => [](OneOwner(goods) /\ Registered)
<1>1. Registered => OneOwner(goods)
  BY RegisteredOnce
<1>2. Init => Registered
  BY RefinesInit
<1>3. (TypeOK /\ CancelInv) /\ Registered /\ [Next]_vars => Registered'
  BY RefinesNext
<1> QED
  BY <1>1, <1>2, <1>3, TradesInvariant, PTL DEF Spec

-----------------------------------------------------------------------------
(* Barter by itself, for whatever pledges and ledger: trading never        *)
(* duplicates an item, not in the world, not in the database, and not when *)
(* a crash sets the world back to the database.  What a player holds and   *)
(* what the database has of it may differ, so that neither is enough by    *)
(* itself: an exchange keeps the two together because it saves both sides. *)

VARIABLES ledger, pledge

Bargain == INSTANCE Barter

\* What can be found with p now or after a crash.
Reach(p) == goods.bag[p] \cup ledger.bag[p]

Apart == \A p, q \in Player : p # q => Reach(p) \cap Reach(q) = {}

BarterInv ==
    /\ goods \in Bargain!Holdings
    /\ ledger \in Bargain!Holdings
    /\ Apart

\* A purse never holds more than MaxGold: ModifyMoney stops at MAX_MONEY_AMOUNT.
LEMMA PurseBounded ==
    ASSUME NEW g \in 0..MaxGold, NEW out \in 0..MaxGold, NEW in \in 0..MaxGold,
           out <= g
    PROVE  Bargain!Purse(g, out, in) \in 0..MaxGold
BY GoodsAssumption DEF Bargain!Purse

\* What two records of holdings give when only some of their fields change.
LEMMA HoldingsChange ==
    ASSUME NEW h \in Bargain!Holdings, NEW p \in Player,
           NEW B \in SUBSET Item, NEW g \in 0..MaxGold
    PROVE  /\ [h EXCEPT !.bag[p] = B] \in Bargain!Holdings
           /\ [h EXCEPT !.gold[p] = g] \in Bargain!Holdings
           /\ [h EXCEPT !.bag[p] = B].bag = [h.bag EXCEPT ![p] = B]
           /\ [h EXCEPT !.gold[p] = g].bag = h.bag
BY DEF Bargain!Holdings

\* An exchange keeps every item with one player: what the two had reached is
\* all that they reach afterwards, and nobody else reaches any of it.
LEMMA ExchangeApart ==
    ASSUME BarterInv, NEW p \in Player, NEW q \in Player, Bargain!Exchange(p, q)
    PROVE  BarterInv'
<1> DEFINE d == Bargain!Mirror(q, pledge[q])
           given == d.give \cap goods.bag[p]
           taken == d.take \cap goods.bag[q]
           bagP == (goods.bag[p] \ given) \cup taken
           bagQ == (goods.bag[q] \ taken) \cup given
           goldP == Bargain!Purse(goods.gold[p], d.pay, d.get)
           goldQ == Bargain!Purse(goods.gold[q], d.get, d.pay)
           After(h) == [bag |-> [h.bag EXCEPT ![p] = bagP, ![q] = bagQ],
                        gold |-> [h.gold EXCEPT ![p] = goldP, ![q] = goldQ]]
<1>1. /\ p # q /\ pledge[q] \in Bargain!Deals
      /\ d.pay <= goods.gold[p] /\ d.get <= goods.gold[q]
      /\ goods' = After(goods) /\ ledger' = After(ledger)
  BY DEF Bargain!Exchange
<1>2. goods \in Bargain!Holdings /\ ledger \in Bargain!Holdings
  BY DEF BarterInv
<1>3. d.pay \in 0..MaxGold /\ d.get \in 0..MaxGold
  BY <1>1 DEF Bargain!Deals, Bargain!Mirror
<1>4. goldP \in 0..MaxGold /\ goldQ \in 0..MaxGold
  <2>1. goods.gold[p] \in 0..MaxGold /\ goods.gold[q] \in 0..MaxGold
    BY <1>2 DEF Bargain!Holdings
  <2> HIDE DEF d
  <2> QED BY <1>1, <1>3, <2>1, PurseBounded
<1>5. bagP \in SUBSET Item /\ bagQ \in SUBSET Item
  <2>1. goods.bag[p] \in SUBSET Item /\ goods.bag[q] \in SUBSET Item
    BY <1>2 DEF Bargain!Holdings
  <2> QED BY <2>1
<1>6. bagP \cup bagQ \subseteq goods.bag[p] \cup goods.bag[q]
  OBVIOUS
<1>7. bagP \cap bagQ = {}
  <2>1. goods.bag[p] \cap goods.bag[q] = {}
    BY <1>1 DEF BarterInv, Apart, Reach
  <2> HIDE DEF d
  <2> QED BY <2>1
<1> HIDE DEF d, given, taken, bagP, bagQ, goldP, goldQ
<1>8. goods' \in Bargain!Holdings /\ ledger' \in Bargain!Holdings
  BY <1>1, <1>2, <1>4, <1>5 DEF Bargain!Holdings
<1>9. \A r \in Player : Reach(r)' = IF r = p THEN bagP ELSE IF r = q THEN bagQ
                                    ELSE Reach(r)
  BY <1>1, <1>2 DEF Reach, Bargain!Holdings
<1>10. ASSUME NEW r \in Player, r # p, r # q
       PROVE  Reach(r) \cap bagP = {} /\ Reach(r) \cap bagQ = {}
  BY <1>6, <1>10 DEF BarterInv, Apart, Reach
<1>11. Apart'
  <2> SUFFICES ASSUME NEW r \in Player, NEW s \in Player, r # s
               PROVE  Reach(r)' \cap Reach(s)' = {}
    BY DEF Apart
  <2>1. CASE r \in {p, q} /\ s \in {p, q}
    BY <2>1, <1>1, <1>7, <1>9
  <2>2. CASE r \in {p, q} /\ s \notin {p, q}
    BY <2>2, <1>9, <1>10
  <2>3. CASE r \notin {p, q} /\ s \in {p, q}
    BY <2>3, <1>9, <1>10
  <2>4. CASE r \notin {p, q} /\ s \notin {p, q}
    BY <2>4, <1>9 DEF BarterInv, Apart
  <2> QED BY <2>1, <2>2, <2>3, <2>4
<1> QED BY <1>8, <1>11 DEF BarterInv

\* The three facts of the induction: at first the ledger is the goods, and what
\* a step adds to a player's reach it takes from the same player or, in an
\* exchange, from the partner.
LEMMA BarterInvInit == Bargain!BarterInit => BarterInv
BY DEF Bargain!BarterInit, BarterInv, Apart, Reach, Bargain!OneOwner

LEMMA BarterInvNext == BarterInv /\ [Bargain!BarterNext]_Bargain!barterVars => BarterInv'
<1> SUFFICES ASSUME BarterInv, [Bargain!BarterNext]_Bargain!barterVars PROVE BarterInv'
  OBVIOUS
<1>1. CASE UNCHANGED <<goods, ledger>>
  BY <1>1 DEF BarterInv, Apart, Reach
<1>2. ASSUME NEW p \in Player, NEW q \in Player, Bargain!Exchange(p, q) PROVE BarterInv'
  BY <1>2, ExchangeApart
<1>3. ASSUME NEW p \in Player, Bargain!Live(p) PROVE BarterInv'
  <2>1. goods \in Bargain!Holdings /\ goods.bag[p] \in SUBSET Item
        /\ ledger \in Bargain!Holdings /\ ledger' = ledger
    BY <1>3 DEF BarterInv, Bargain!Holdings, Bargain!Live
  <2>2. ASSUME NEW i \in goods.bag[p],
               goods' = [goods EXCEPT !.bag[p] = goods.bag[p] \ {i}]
        PROVE  BarterInv'
    <3>1. goods' \in Bargain!Holdings /\ goods'.bag = [goods.bag EXCEPT ![p] = @ \ {i}]
      BY <2>1, <2>2, HoldingsChange DEF Bargain!Holdings
    <3>2. \A r \in Player : Reach(r)' \subseteq Reach(r)
      BY <2>1, <3>1 DEF Reach, Bargain!Holdings
    <3> QED BY <2>1, <3>1, <3>2 DEF BarterInv, Apart
  <2>3. ASSUME NEW g \in 0..MaxGold, goods' = [goods EXCEPT !.gold[p] = g]
        PROVE  BarterInv'
    <3>1. goods' \in Bargain!Holdings /\ goods'.bag = goods.bag
      BY <2>1, <2>3, HoldingsChange DEF Bargain!Holdings
    <3> QED BY <2>1, <3>1 DEF BarterInv, Apart, Reach
  <2> QED BY <1>3, <2>2, <2>3 DEF Bargain!Live
<1>4. ASSUME NEW p \in Player, Bargain!Save(p) PROVE BarterInv'
  <2>1. goods \in Bargain!Holdings /\ goods.bag[p] \in SUBSET Item
        /\ goods.gold[p] \in 0..MaxGold /\ ledger \in Bargain!Holdings /\ goods' = goods
    BY <1>4 DEF BarterInv, Bargain!Holdings, Bargain!Save
  <2>2. ledger' \in Bargain!Holdings /\ ledger'.bag = [ledger.bag EXCEPT ![p] = goods.bag[p]]
    BY <1>4, <2>1 DEF Bargain!Save, Bargain!Holdings
  <2>3. \A r \in Player : Reach(r)' \subseteq Reach(r)
    BY <2>1, <2>2 DEF Reach, Bargain!Holdings
  <2> QED BY <2>1, <2>2, <2>3 DEF BarterInv, Apart
<1>5. CASE Bargain!Crash
  <2>1. goods' = ledger /\ ledger' = ledger
    BY <1>5 DEF Bargain!Crash
  <2>2. \A r \in Player : Reach(r)' \subseteq Reach(r)
    BY <2>1 DEF Reach
  <2> QED BY <2>1, <2>2 DEF BarterInv, Apart
<1> QED
  BY <1>1, <1>2, <1>3, <1>4, <1>5
  DEF Bargain!BarterNext, Bargain!Consider, Bargain!Lock, Bargain!barterVars

\* No item is ever held by two players, in the world or in the database,
\* whatever is traded, lost and saved and wherever the process dies.
THEOREM ItemsNotDuplicated == Bargain!BarterSpec => []Bargain!OwnedOnce
<1>1. BarterInv => Bargain!OwnedOnce
  BY DEF BarterInv, Apart, Reach, Bargain!OwnedOnce, Bargain!OneOwner
<1> QED
  BY BarterInvInit, BarterInvNext, <1>1, PTL DEF Bargain!BarterSpec

\* Nobody ever has more gold than MaxGold, or less than none.
THEOREM GoldInBounds ==
    Bargain!BarterSpec => [](\A p \in Player : goods.gold[p] \in 0..MaxGold)
<1>1. BarterInv => \A p \in Player : goods.gold[p] \in 0..MaxGold
  BY DEF BarterInv, Bargain!Holdings
<1> QED
  BY BarterInvInit, BarterInvNext, <1>1, PTL DEF Bargain!BarterSpec

=============================================================================
