\* Two items and one piece of gold each; the purse is full with one, the
\* inventory with one item.
CONSTANTS
    a = a
    b = b
    c = c
    i = i
    j = j
    Player = {a, b, c}
    Item = {i, j}
    Map = {m, n}
    Spot = {0, 1}
    TradeDistance = 1
    InteractionDistance = 0
    Slots = 1
    Room = 1
    MaxGold = 1
    Bag0 <- MCBag
    Gold0 <- MCGold
    MaxTrades = 2
    MaxEvents = 1
SPECIFICATION Spec
INVARIANTS TypeOK MutualTrade OnlyAcrossMaps
SYMMETRY MapSymmetry
PROPERTY ImplementsBarter
\* After a use of deleted memory nothing more is said.
CHECK_DEADLOCK FALSE
