\* As Trade.cfg, for two players.
CONSTANTS
    a = a
    b = b
    c = c
    i = i
    j = j
    Player = {a, b}
    Item = {i, j}
    Map = {m, n}
    Spot = {0, 1}
    TradeDistance = 1
    InteractionDistance = 0
    Slots = 1
    Room = 1
    MaxGold = 1
    Bag0 <- MCBag
    Gold0 <- MCGold
    MaxTrades = 2
    MaxEvents = 1
SPECIFICATION Spec
INVARIANT NotUsedAfterDelete
SYMMETRY MapSymmetry
CHECK_DEADLOCK FALSE
