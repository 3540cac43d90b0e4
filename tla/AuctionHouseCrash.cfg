\* As AuctionHouse.cfg, with money within its width.
CONSTANTS
    anna = anna
    ring = ring
    Player = {anna, bert, cora}
    Item = {ring}
    MaxGold = 2
    Room = 1
    Present = {anna}
    Bag0 <- MCBag
    Gold0 <- MCGold
    Word = 8
    Sum = {0, 1}
    Postage = 1
    MailCap = 0
    CountRange = 256
    MaxMails = 2
    MaxQueue = 3
    MaxEvents = 1
    Deposit = 1
    CutPercent = 50
    StartBids = {1}
    Buyouts = {2}
    MaxAuctions = 1
SPECIFICATION Spec
INVARIANT Balanced
SYMMETRY Bidders
CHECK_DEADLOCK FALSE
