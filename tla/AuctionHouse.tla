------------------------------ MODULE AuctionHouse ----------------------------
(***************************************************************************)
(* The auction house (AuctionHouseMgr.cpp, AuctionHouseHandler.cpp) upon   *)
(* the mail: it takes an item and money from a player in the world, and    *)
(* gives only by mail.                                                     *)
(*                                                                         *)
(* An item that is put up is a clone of the seller's, which is destroyed:  *)
(* here they are one item.  Left out: the auction bot and the lists.  An   *)
(* auction may be past its time at any moment, and the handlers look at    *)
(* one auction at a time, as they do; a round that finds several past      *)
(* their time is several steps.                                            *)
(***************************************************************************)
EXTENDS Mail

CONSTANTS
    Deposit,        \* GetAuctionDeposit
    CutPercent,     \* cutPercent, with the rate of the configuration
    StartBids,      \* the bids and buyouts that sellers ask for
    Buyouts,        \* 0: no buyout
    MaxAuctions     \* bound: auctions ever put up

NoItem == "no item"

ASSUME AuctionAssumption ==
    /\ {Deposit, CutPercent, MaxAuctions} \subseteq Nat
    /\ StartBids \subseteq Nat \ {0} /\ Buyouts \subseteq Nat
    /\ NoItem \notin Item

VARIABLES
    house,      \* AuctionsMap
    opened,     \* GenerateAuctionID
    won         \* history: who was sent the item of an auction

vars == <<mailVars, house, opened, won>>

Auctions == [id : 1..MaxAuctions, owner : Player, item : Item \cup {NoItem},
             start : StartBids, buyout : Buyouts, bid : Nat,
             bidder : Player \cup {Nobody}, sold : BOOLEAN]

Tables == [row : [Item -> Player \cup {Nobody}], gold : [Player -> 0..MaxGold],
           mails : SUBSET Mails, gone : SUBSET Item, spent : Nat, whole : BOOLEAN,
           auctions : SUBSET Auctions]

TypeOK ==
    /\ MailTypeOK
    /\ house \subseteq Auctions
    /\ disk \in Seq(Tables)
    /\ opened \in 0..MaxAuctions
    /\ won \in [1..MaxAuctions -> Player \cup {Nobody}]

Init ==
    /\ MailInit
    /\ disk = <<MailTables>>
    /\ house = {}
    /\ opened = 0
    /\ won = [n \in 1..MaxAuctions |-> Nobody]

-----------------------------------------------------------------------------
\* GetAuctionCut and GetAuctionOutBid.
Cut(a) == (CutPercent * a.bid) \div 100
OutBid(a) == LET n == (a.bid \div 100) * 5 IN IF n = 0 THEN 1 ELSE n

Put(d, a) == [d EXCEPT !.auctions = @ \cup {a}]
Removed(d, a) == [d EXCEPT !.auctions = {x \in @ : x.id # a.id}]
Changed(d, a) == Put(Removed(d, a), a)
Replaced(a, b) == house' = (house \ {a}) \cup {b}

\* A mail of the auction house, and the money of a bid sent back with one.
HouseMail(n, to, items, money) == Letter(n, House, to, items, money)
Refund(n, a) == HouseMail(n, a.bidder, {}, a.bid)

\* What a handler does that sends the mails M and runs the transactions.
MailAndSave(M, steps) ==
    /\ Post(M)
    /\ box' = Delivered(box, M)
    /\ Execute(steps)
    /\ Quiet
    /\ UNCHANGED marked

-----------------------------------------------------------------------------
SellItem(p, i, start, buyout) ==
    LET a == [id |-> opened + 1, owner |-> p, item |-> i, start |-> start,
              buyout |-> buyout, bid |-> 0, bidder |-> Nobody, sold |-> FALSE]
        g == [goods EXCEPT !.bag[p] = @ \ {i}, !.gold[p] = @ - Deposit]
    IN  /\ InWorld(p) /\ i \in goods.bag[p]
        /\ goods.gold[p] >= Deposit
        /\ opened < MaxAuctions /\ opened' = a.id
        /\ goods' = g
        /\ house' = house \cup {a}
        /\ MailAndSave({}, <<Saved(Put(Lost(Stored, {i}), a), p, g)>>)
        /\ UNCHANGED won

\* AuctionBidWinning: the auction has become a and what the bidder has is saved
\* in d, after the mails M and the transactions before.
BidWinning(old, a, d, M, before) ==
    LET sold == [a EXCEPT !.sold = TRUE, !.item = NoItem]
        n == Cardinality(M) + 1
        prize == HouseMail(n, a.bidder, {a.item}, 0)
        row == Changed(d, sold)
    IN  /\ Replaced(old, sold)
        /\ IF a.item = NoItem
           THEN MailAndSave(M, before \o <<row>>) /\ UNCHANGED won
           ELSE /\ MailAndSave(M \cup {prize}, before \o <<row, Inserted(row, prize)>>)
                /\ won' = [won EXCEPT ![a.id] = a.bidder]

\* HandleAuctionPlaceBid and UpdateBid.  The client shows no auction that has
\* been sold, but its list may be old.
Acceptable(p, a, price) ==
    /\ InWorld(p) /\ p # a.owner
    /\ price > a.bid
    /\ (a.buyout # 0 /\ price >= a.buyout) \/ price >= a.bid + OutBid(a)
    /\ price <= goods.gold[p]
    /\ price >= a.start

PlaceBid(p, a, price) ==
    LET bid == IF a.buyout # 0 /\ price > a.buyout THEN a.buyout ELSE price
        cost == IF a.bidder = p THEN bid - a.bid ELSE bid
        M == IF a.bidder \in {p, Nobody} THEN {} ELSE {Refund(1, a)}
        b == [a EXCEPT !.bid = bid, !.bidder = p]
        g == [goods EXCEPT !.gold[p] = @ - cost]
        refunded == IF M = {} THEN Stored ELSE Inserted(Stored, Refund(1, a))
        before == IF M = {} THEN <<>> ELSE <<refunded>>
    IN  /\ Acceptable(p, a, price)
        /\ goods' = g
        /\ UNCHANGED opened
        /\ IF bid < a.buyout \/ a.buyout = 0
           THEN /\ Replaced(a, b)
                /\ MailAndSave(M, before \o <<Saved(Changed(refunded, b), p, g)>>)
                /\ UNCHANGED won
           ELSE BidWinning(a, b, Saved(refunded, p, g), M, before)

RemoveAuction(p, a) ==
    LET fee == Cut(a)
        M == IF a.bidder = Nobody THEN {} ELSE {Refund(1, a)}
        item == HouseMail(Cardinality(M) + 1, p, {a.item}, 0)
        g == [goods EXCEPT !.gold[p] = @ - fee]
        refunded == IF M = {} THEN Stored ELSE Inserted(Stored, Refund(1, a))
        returned == Inserted(refunded, item)
    IN  /\ InWorld(p) /\ p = a.owner
        /\ a.item # NoItem
        /\ goods.gold[p] >= fee
        /\ goods' = g
        /\ house' = house \ {a}
        /\ MailAndSave(M \cup {item},
               (IF M = {} THEN <<>> ELSE <<refunded>>)
                   \o <<returned, Spent(Saved(Removed(returned, a), p, g), fee + Deposit)>>)
        /\ UNCHANGED <<opened, won>>

\* AuctionHouseObject::Update at an auction past its time: the seller is paid,
\* the bidder gets the item, or the item goes back.
EndAuction(a, m, lost) ==
    LET mailed == Inserted(Stored, m) IN
    /\ house' = house \ {a}
    /\ MailAndSave({m}, <<mailed, Spent(Removed(mailed, a), lost)>>)
    /\ UNCHANGED <<goods, opened, won>>

PaySeller(a) ==
    /\ a.sold
    /\ EndAuction(a, HouseMail(1, a.owner, {}, a.bid + Deposit - Cut(a)), Cut(a))

ReturnUnsold(a) ==
    /\ ~a.sold /\ a.bid = 0
    /\ EndAuction(a, HouseMail(1, a.owner, {a.item}, 0), Deposit)

GiveToBidder(a) ==
    /\ ~a.sold /\ a.bid # 0
    /\ BidWinning(a, a, Stored, {}, <<>>)
    /\ UNCHANGED <<goods, opened>>

\* LoadAuctions: an auction without its item is dropped unless it is sold.
Crash ==
    LET kept == {a \in Committed.auctions : a.sold \/ a.item \notin Committed.gone} IN
    /\ Restart([Committed EXCEPT !.auctions = kept])
    /\ house' = kept
    /\ UNCHANGED <<opened, won>>

AuctionStep ==
    \/ \E p \in Player, i \in Item, start \in StartBids, buyout \in Buyouts :
        SellItem(p, i, start, buyout)
    \/ \E p \in Player, a \in house :
        \/ \E price \in 1..MaxGold : PlaceBid(p, a, price)
        \/ RemoveAuction(p, a)
    \/ \E a \in house : PaySeller(a) \/ ReturnUnsold(a) \/ GiveToBidder(a)
    \/ Crash

Next ==
    \/ MailStep /\ UNCHANGED <<house, opened, won>>
    \/ AuctionStep

Spec == Init /\ [][Next]_vars

-----------------------------------------------------------------------------
(* Properties.                                                             *)

\* What everyone in memory holds, what is in their boxes, and the auctions: the
\* database will hold it too once all that waits is executed.
MemoryStored ==
    /\ house = Stored.auctions
    /\ \A p \in Player : phase[p] # "out" =>
        /\ goods.bag[p] = Pack(Stored, p)
        /\ goods.gold[p] = Stored.gold[p]
        /\ box[p] \subseteq {m \in Stored.mails : m.to = p}

\* Nobody can lose by a logout what he was shown, and no auction by a restart:
\* the handlers save all they change, whichever of the players concerned are
\* in the world.  A box may lack mails, which were sent while its owner could
\* not be found.
Durable == ~torn /\ ~spoilt => MemoryStored

\* Each item not yet used up is in one inventory, one mail or one auction, and
\* the money in purses, mails and auctions is what it was at first but for
\* postage, cuts, deposits and what was thrown away.
Places(d, i) ==
    Cardinality({p \in Player : d.row[i] = p})
        + Cardinality({m \in d.mails : i \in m.items})
        + Cardinality({a \in d.auctions : a.item = i})
Stakes(S) == SumFunction([a \in S |-> a.bid + Deposit])
Wealth(d) == SumFunction(d.gold) + Money(d.mails) + Stakes(d.auctions) + d.spent
Balanced ==
    /\ \A i \in Item : Places(Stored, i) = IF i \in Stored.gone THEN 0 ELSE 1
    /\ Wealth(Stored) = SumFunction(Gold0)

\* No handler loses or makes goods, whatever logouts, travels and crashes come
\* between them.  A crash within a handler may.
Conserved == ~torn /\ ~spoilt => Balanced

\* Goods sent cash on delivery are never lost to their sender in a step: their
\* mail stays as it is, or the sender is mailed the price or the goods.
CodKept ==
    \A m \in Stored.mails : m.cod > 0 /\ m.items # {} =>
        \/ m \in Stored'.mails
        \/ \E x \in Stored'.mails :
            x.to = m.from /\ (x.items = m.items \/ x.money = m.cod)
        \/ Stored' = Committed
CodHonoured == [][~torn' /\ ~spoilt' => CodKept]_vars

\* As MailHandler.cpp:514 has it, whatever item the client asks for under
\* whatever mail.
CodPaid == [][~torn' => CodKept]_vars

\* The bidder of a sold auction is the player who was sent its item: nobody
\* pays for what another has got.
SoldToWinner == \A a \in house : a.sold => won[a.id] = a.bidder

=============================================================================
