\* As AuctionHouse.cfg, without a buyout price and without logouts and crashes.
CONSTANTS
    anna = anna
    ring = ring
    Player = {anna, bert, cora}
    Item = {ring}
    MaxGold = 2
    Room = 1
    Present = {anna, bert, cora}
    Bag0 <- MCBag
    Gold0 <- MCGold
    Word = 8
    Sum = {0, 1}
    Postage = 1
    MailCap = 0
    CountRange = 256
    MaxMails = 2
    MaxQueue = 3
    MaxEvents = 0
    Deposit = 1
    CutPercent = 50
    StartBids = {1}
    Buyouts = {0}
    MaxAuctions = 1
SPECIFICATION Spec
INVARIANT SoldToWinner
SYMMETRY Bidders
CHECK_DEADLOCK FALSE
