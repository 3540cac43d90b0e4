---------------------------------- MODULE Mail --------------------------------
(***************************************************************************)
(* Mail between players (MailHandler.cpp, Mail.cpp) and what of a player   *)
(* is loaded and saved with it.                                            *)
(*                                                                         *)
(* Every handler here is run by the world thread alone and is one step.    *)
(* It changes memory at once and hands its transactions to the delay       *)
(* thread, which executes them in that order (FifoHandover and             *)
(* ImplementsRequestStore of AsyncDatabase).  So the database is a         *)
(* sequence: its head is what has been committed, each later entry what    *)
(* the next transaction will make of it.  A crash leaves the head.         *)
(*                                                                         *)
(* Left out: mails from creatures and templates, mails with nothing in     *)
(* them, text, read marks, stacks of items that merge or split, factions,  *)
(* game masters and players silenced by the anticheat.  Time is not        *)
(* counted: a mail may be delivered, and may be old, at any moment.        *)
(***************************************************************************)
EXTENDS Goods, Integers, Sequences, FiniteSets, FiniteSetsExt, SequencesExt

CONSTANTS
    Bag0, Gold0,    \* what the players have at first
    Present,        \* the players in the world at first
    Word,           \* 2^32: money is computed in uint32 and int32
    Sum,            \* amounts of money a client sends or asks for
    Postage,        \* the price of a mail without or with one item
    MailCap,        \* a box with more mails takes no more from players
    CountRange,     \* 2^8: the mails of a box are counted in a uint8
    MaxMails,       \* bound: mails ever sent
    MaxQueue,       \* bound: transactions that wait
    MaxEvents       \* bound: logouts, saves, travels, old mails, crashes

Nobody == "nobody"
House == "house"        \* MAIL_AUCTION instead of MAIL_NORMAL from a player

ASSUME MailAssumption ==
    /\ Word \in Nat \ {0} /\ Sum \subseteq 0..Word - 1
    /\ {Postage, MailCap, MaxMails, MaxQueue, MaxEvents} \subseteq Nat
    /\ CountRange \in Nat \ {0}
    /\ [bag |-> Bag0, gold |-> Gold0] \in Holdings
    /\ OneOwner([bag |-> Bag0]) /\ \A i \in Item : \E p \in Player : i \in Bag0[p]
    /\ Present \subseteq Player
    /\ IsFiniteSet(Player) /\ IsFiniteSet(Item)
    /\ Player \cap {Nobody, House} = {}

VARIABLES
    phase,      \* of each player; GetPlayer finds it only "in" the world
    goods,      \* inventory and money in memory
    box,        \* m_mail of each player: copies of the rows, with the items
    marked,     \* ids of the mails of the box in state MAIL_STATE_DELETED
    behind,     \* transactions to be executed before the login queries
    disk,       \* the database, now and after each waiting transaction
    posted,     \* GenerateMailID
    torn,       \* history: a crash has cut a handler between transactions
    spoilt,     \* history: an old mail was returned on the strength of rows
                \* that a waiting transaction or a player in memory belies; an
                \* item was asked for under the id of another mail; or money
                \* has left its width
    events      \* history: how many of the bounded steps were taken

memory == <<phase, goods, box, marked, behind>>
mailVars == <<memory, disk, posted, torn, spoilt, events>>

Mails == [id : 1..MaxMails, from : Player \cup {House}, to : Player,
          items : SUBSET Item, money : Nat, cod : Sum \cup {0},
          mark : {"sent", "returned", "paid"}]

NoCopies == [p \in Player |-> {}]
NoGoods == [bag |-> NoCopies, gold |-> [p \in Player |-> 0]]

Stored == Last(disk)        \* once all that waits is executed
Committed == Head(disk)     \* what a synchronous query reads

MailTypeOK ==
    /\ phase \in [Player -> {"out", "login", "in", "travel"}]
    /\ goods \in Holdings
    /\ box \in [Player -> SUBSET Mails]
    /\ marked \in [Player -> SUBSET (1..MaxMails)]
    /\ behind \in [Player -> 0..MaxQueue]
    /\ Len(disk) \in 1..MaxQueue + 1
    /\ posted \in 0..MaxMails
    /\ {torn, spoilt} \subseteq BOOLEAN
    /\ events \in 0..MaxEvents

\* character_inventory, characters.money, mail with mail_items, auction.  History:
\* items and money that left the game by its rules, and whether a handler has
\* all its transactions in.
MailTables ==
    [row   |-> [i \in Item |-> CHOOSE p \in Player : i \in Bag0[p]],
     gold  |-> Gold0,
     mails |-> {},
     gone  |-> {},
     spent |-> 0,
     whole |-> TRUE,
     auctions |-> {}]

Pack(d, p) == {i \in Item : d.row[i] = p}

MailInit ==
    /\ phase = [p \in Player |-> IF p \in Present THEN "in" ELSE "out"]
    /\ goods = [bag  |-> [p \in Player |-> IF p \in Present THEN Bag0[p] ELSE {}],
                gold |-> [p \in Player |-> IF p \in Present THEN Gold0[p] ELSE 0]]
    /\ box = NoCopies
    /\ marked = NoCopies
    /\ behind = [p \in Player |-> 0]
    /\ posted = 0
    /\ torn = FALSE
    /\ spoilt = FALSE
    /\ events = 0

-----------------------------------------------------------------------------
(* A definition whose name ends in a remark after "__" is a defect that the *)
(* properties are tried against; no action uses it.                         *)

InWorld(p) == phase[p] = "in"
Event == events < MaxEvents /\ events' = events + 1
Steady == UNCHANGED <<phase, behind, torn, events>>
Quiet == Steady /\ UNCHANGED spoilt
Spoiling(odd) == spoilt' = (spoilt \/ odd)
Ids(S) == {m.id : m \in S}
Money(S) == SumFunction([m \in S |-> m.money])

\* The transactions of one handler, given as what each makes of the database.
Execute(steps) ==
    /\ Len(disk) + Len(steps) <= MaxQueue + 1
    /\ disk' = disk \o [k \in 1..Len(steps) |->
                          [steps[k] EXCEPT !.whole = k = Len(steps)]]

\* MailDraft::SendMailTo: a row for each mail, and a copy for a receiver in
\* the world.
Letter(n, from, to, items, money) ==
    [id |-> posted + n, from |-> from, to |-> to, items |-> items,
     money |-> money, cod |-> 0, mark |-> "sent"]
Inserted(d, m) == [d EXCEPT !.mails = @ \cup {m}]
Delivered(b, M) ==
    [p \in Player |-> b[p] \cup {m \in M : m.to = p /\ InWorld(p)}]
Post(M) == posted + Cardinality(M) <= MaxMails /\ posted' = posted + Cardinality(M)

\* Player::ModifyMoney, which takes an int32.
Purse__Uncapped(n) == IF n < 0 THEN 0 ELSE n
Purse(n) == IF n < 0 THEN 0 ELSE IF n < MaxGold THEN n ELSE MaxGold
Int32(n) == IF 2 * n < Word THEN n ELSE n - Word
Lost(d, I) == [d EXCEPT !.row = [i \in Item |-> IF i \in I THEN Nobody ELSE @[i]]]
Spent(d, n) == [d EXCEPT !.spent = @ + n]

\* Player::SaveInventoryAndGoldToDB of p, who holds g.
Saved__NoGold(d, p, g) ==
    [d EXCEPT !.row = [i \in Item |-> IF i \in g.bag[p] THEN p ELSE @[i]]]
Saved(d, p, g) ==
    [d EXCEPT !.gold[p] = g.gold[p],
              !.row = [i \in Item |-> IF i \in g.bag[p] THEN p ELSE @[i]]]

\* Player::_SaveMail: the row of a changed mail, and the items I that have been
\* taken, whose rows are deleted whatever mail they name; the mails that the
\* player has deleted go for good.
Updated__KeepItems(d, m, I) ==
    [d EXCEPT !.mails =
        {IF x.id # m.id THEN x ELSE [x EXCEPT !.money = m.money, !.cod = m.cod, !.mark = m.mark]
         : x \in @}]
Updated(d, m, I) ==
    [d EXCEPT !.mails =
        {IF x.id # m.id THEN [x EXCEPT !.items = @ \ I]
         ELSE [x EXCEPT !.items = @ \ I, !.money = m.money, !.cod = m.cod, !.mark = m.mark]
         : x \in @}]
Erased(d, M) ==
    [d EXCEPT !.mails = {x \in @ : x.id \notin Ids(M)},
              !.gone = @ \cup UNION {m.items : m \in M},
              !.spent = @ + Money({x \in d.mails : x.id \in Ids(M)})]
Binned(p) == {m \in box[p] : m.id \in marked[p]}
Emptied(p) == marked' = [marked EXCEPT ![p] = {}]

-----------------------------------------------------------------------------
(* The packets of mail.                                                    *)

\* A mail of p that it may handle: here, delivered and not deleted.
Mine(p, m) == InWorld(p) /\ m \in box[p] /\ m.id \notin marked[p]

\* The rows of a player that is not in the world are counted by a synchronous
\* query.
MailboxFull(q) ==
    LET n == IF InWorld(q) THEN Cardinality(box[q])
             ELSE Cardinality({m \in Committed.mails : m.to = q})
    IN  n % CountRange > MailCap

\* What is asked of the purse is a uint32, and so is the money of the client.
SendMail(p, q, I, money, cod) ==
    LET cost == Postage * (IF I = {} THEN 1 ELSE Cardinality(I))
        m == [Letter(1, p, q, I, money) EXCEPT !.cod = cod]
        reqmoney == (cost + money) % Word
        g == [goods EXCEPT !.bag[p] = @ \ I, !.gold[p] = @ - reqmoney]
        items == SetToSeq(I)
        packed == [k \in 1..Len(items) |-> Lost(Stored, {items[n] : n \in 1..k})]
        mailed == Inserted(Lost(Stored, I), m)
    IN  /\ InWorld(p) /\ p # q
        /\ I \subseteq goods.bag[p]
        /\ money = 0 \/ cod = 0
        /\ goods.gold[p] >= reqmoney
        /\ ~MailboxFull(q)
        /\ Post({m})
        /\ goods' = g
        /\ box' = Delivered(box, {m})
        /\ Execute(packed \o <<mailed, Spent(Saved(mailed, p, g), cost)>>)
        /\ Spoiling(cost + money >= Word)
        /\ UNCHANGED marked /\ Steady

\* The client asks for an item of the mail that it shows, but the item is looked
\* for in all the mails of the player: the price of the one named is paid.  (An
\* item so taken stays in its mail in memory.  mMitems has it no longer and
\* still has those of mails deleted since the login, which is not followed.)
MItems(p) == UNION {x.items : x \in box[p]}
TakeItem(p, m, i) ==
    LET taken == [m EXCEPT !.items = @ \ {i}, !.cod = 0]
        pay == [Letter(1, p, m.from, {}, m.cod) EXCEPT !.mark = "paid"]
        M == IF m.cod > 0 THEN {pay} ELSE {}
        g == [goods EXCEPT !.bag[p] = @ \cup {i}, !.gold[p] = @ - m.cod]
        paid == IF m.cod > 0 THEN Inserted(Stored, pay) ELSE Stored
        saved == Erased(Updated(Saved(paid, p, g), taken, {i}), Binned(p))
    IN  /\ Mine(p, m) /\ i \in MItems(p)
        /\ goods.gold[p] >= m.cod
        /\ Cardinality(goods.bag[p]) < Room
        /\ Post(M)
        /\ goods' = g
        /\ box' = Delivered([box EXCEPT ![p] = (@ \ (Binned(p) \cup {m})) \cup {taken}], M)
        /\ Execute(IF m.cod > 0 THEN <<paid, saved>> ELSE <<saved>>)
        /\ Spoiling(i \notin m.items)
        /\ Emptied(p) /\ Steady

TakeMoney(p, m) ==
    LET taken == [m EXCEPT !.money = 0]
        g == [goods EXCEPT !.gold[p] = Purse(@ + Int32(m.money))]
        excess == goods.gold[p] + m.money - g.gold[p]
        saved == Erased(Updated([Stored EXCEPT !.gold[p] = g.gold[p]], taken, {}), Binned(p))
    IN  /\ Mine(p, m)
        /\ goods' = g
        /\ box' = [box EXCEPT ![p] = (@ \ (Binned(p) \cup {m})) \cup {taken}]
        /\ Execute(<<Spent(saved, excess)>>)
        /\ Spoiling(2 * m.money >= Word)
        /\ Emptied(p) /\ Steady
        /\ UNCHANGED posted

\* The rows stay until the mails are saved.
DeleteMail__Cod(p, m) ==
    /\ InWorld(p) /\ m \in box[p]
    /\ marked' = [marked EXCEPT ![p] = @ \cup {m.id}]
    /\ Quiet
    /\ UNCHANGED <<goods, box, disk, posted>>
DeleteMail(p, m) ==
    /\ InWorld(p) /\ m \in box[p]
    /\ m.cod = 0
    /\ marked' = [marked EXCEPT ![p] = @ \cup {m.id}]
    /\ Quiet
    /\ UNCHANGED <<goods, box, disk, posted>>

\* A mail of the auction house is dropped with what is in it.
ReturnMail(p, m) ==
    LET back == [Letter(1, p, m.from, m.items, m.money) EXCEPT !.mark = "returned"]
        M == IF m.from = House THEN {} ELSE {back}
        removed == [Stored EXCEPT !.mails = {x \in @ : x.id # m.id}]
    IN  /\ Mine(p, m)
        /\ Post(M)
        /\ box' = Delivered([box EXCEPT ![p] = @ \ {m}], M)
        /\ Execute(IF m.from = House THEN <<Erased(Stored, {m})>>
                   ELSE <<removed, Inserted(removed, back)>>)
        /\ Quiet
        /\ UNCHANGED <<goods, marked>>

-----------------------------------------------------------------------------
(* The coming and going of players, and the daily round of old mails.      *)

\* Player::SaveToDB.
SavedPlayer(p) == Erased(Saved(Stored, p, goods), Binned(p))

SavePlayer(p) ==
    /\ InWorld(p) /\ Event
    /\ Execute(<<SavedPlayer(p)>>)
    /\ box' = [box EXCEPT ![p] = @ \ Binned(p)]
    /\ Emptied(p)
    /\ UNCHANGED <<phase, goods, behind, posted, torn, spoilt>>

Logout(p) ==
    /\ InWorld(p) /\ Event
    /\ Execute(<<SavedPlayer(p)>>)
    /\ phase' = [phase EXCEPT ![p] = "out"]
    /\ goods' = [goods EXCEPT !.bag[p] = {}, !.gold[p] = 0]
    /\ box' = [box EXCEPT ![p] = {}]
    /\ Emptied(p)
    /\ UNCHANGED <<behind, posted, torn, spoilt>>

\* The login queries take their place behind what waits: what they will read
\* is settled now.
RequestLogin(p) ==
    /\ phase[p] = "out"
    /\ phase' = [phase EXCEPT ![p] = "login"]
    /\ goods' = [goods EXCEPT !.bag[p] = Pack(Stored, p), !.gold[p] = Stored.gold[p]]
    /\ box' = [box EXCEPT ![p] = {m \in Stored.mails : m.to = p}]
    /\ behind' = [behind EXCEPT ![p] = Len(disk) - 1]
    /\ UNCHANGED <<marked, disk, posted, torn, spoilt, events>>

\* HandlePlayerLogin: the answer arrives and the player enters the world.
Login(p) ==
    /\ phase[p] = "login" /\ behind[p] = 0
    /\ phase' = [phase EXCEPT ![p] = "in"]
    /\ UNCHANGED <<goods, box, marked, behind, disk, posted, torn, spoilt, events>>

\* Between two maps the player is in memory and not in the world.
Depart(p) ==
    /\ InWorld(p) /\ Event
    /\ phase' = [phase EXCEPT ![p] = "travel"]
    /\ UNCHANGED <<goods, box, marked, behind, disk, posted, torn, spoilt>>
Arrive(p) ==
    /\ phase[p] = "travel"
    /\ phase' = [phase EXCEPT ![p] = "in"]
    /\ UNCHANGED <<goods, box, marked, behind, disk, posted, torn, spoilt, events>>

\* One old mail of ObjectMgr::ReturnOrDeleteOldMails, which finds it with a
\* synchronous query: what a player sent goes back once, the rest is deleted.
\* Its statements are requests of their own, taken together here: only the
\* first concerns the rows that are modelled, or all make the mail vanish.
Reversed(d, m) ==
    [d EXCEPT !.mails =
        {IF x.id # m.id THEN x
         ELSE [x EXCEPT !.from = m.to, !.to = m.from, !.cod = 0, !.mark = "returned"]
         : x \in @}]
SkipsReceiver(p) == InWorld(p)
ReturnOrDeleteOldMail(m) ==
    LET back == m.items # {} /\ m.from # House /\ m.mark = "sent" IN
    /\ Event
    /\ m \in Committed.mails
    /\ ~SkipsReceiver(m.to)
    /\ Execute(<<IF back THEN Reversed(Stored, m) ELSE Erased(Stored, {m})>>)
    /\ Spoiling(m \notin Stored.mails \/ m.id \in Ids(box[m.to]))
    /\ UNCHANGED <<memory, posted, torn>>

\* The delay thread executes a transaction.
Commit ==
    /\ Len(disk) > 1
    /\ disk' = Tail(disk)
    /\ behind' = [p \in Player |-> IF behind[p] = 0 THEN 0 ELSE behind[p] - 1]
    /\ UNCHANGED <<phase, goods, box, marked, posted, torn, spoilt, events>>

\* The process dies, and is started again on database d.
Restart(d) ==
    /\ Event
    /\ disk' = <<[d EXCEPT !.whole = TRUE]>>
    /\ torn' = (torn \/ ~Committed.whole)
    /\ phase' = [p \in Player |-> "out"]
    /\ goods' = NoGoods
    /\ box' = NoCopies
    /\ marked' = NoCopies
    /\ behind' = [p \in Player |-> 0]
    /\ UNCHANGED <<posted, spoilt>>

MailStep ==
    \/ \E p, q \in Player, I \in SUBSET Item, money, cod \in Sum :
        (I = {} => money > 0 /\ cod = 0) /\ SendMail(p, q, I, money, cod)
    \/ \E p \in Player, m \in UNION {box[q] : q \in Player} :
        \/ \E i \in Item : TakeItem(p, m, i)
        \/ TakeMoney(p, m)
        \/ DeleteMail(p, m)
        \/ ReturnMail(p, m)
    \/ \E p \in Player :
        \/ SavePlayer(p)
        \/ Logout(p)
        \/ RequestLogin(p)
        \/ Login(p)
        \/ Depart(p)
        \/ Arrive(p)
    \/ \E m \in Committed.mails : ReturnOrDeleteOldMail(m)
    \/ Commit

=============================================================================
