\* As AuctionHouse.cfg, with a box for two mails, free postage, and without logouts
\* and crashes.
CONSTANTS
    anna = anna
    ring = ring
    Player = {anna, bert, cora}
    Item = {ring}
    MaxGold = 2
    Room = 1
    Present = {anna, bert, cora}
    Bag0 <- MCBag
    Gold0 <- MCGold
    Word = 8
    Sum = {0, 1}
    Postage = 0
    MailCap = 1
    CountRange = 256
    MaxMails = 2
    MaxQueue = 3
    MaxEvents = 0
    Deposit = 1
    CutPercent = 50
    StartBids = {1}
    Buyouts = {2}
    MaxAuctions = 1
SPECIFICATION Spec
PROPERTY CodPaid
SYMMETRY Bidders
CHECK_DEADLOCK FALSE
