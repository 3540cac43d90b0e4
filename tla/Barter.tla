-------------------------------- MODULE Barter --------------------------------
(***************************************************************************)
(* What trading promises the players.  A player pledges itself to one      *)
(* exact deal, which nobody can change after that.  Goods change hands     *)
(* only by a deal to which both are pledged, both ways at once, and the    *)
(* two sides reach the database together, so that a crash never separates  *)
(* what was given from what was paid for it.                               *)
(***************************************************************************)
EXTENDS Goods, Naturals, FiniteSets

VARIABLES
    goods,          \* what the players have
    ledger,         \* what the database says they have
    locked,         \* the items that cannot be traded now
    pledge          \* the deal each player stands by

barterVars == <<goods, ledger, locked, pledge>>

Deals == [with : Player, give : SUBSET Item, pay : 0..MaxGold,
          take : SUBSET Item, get : 0..MaxGold]
NoDeal == [with |-> {}]

\* The deal d of player p as its partner states it.
Mirror(p, d) == [with |-> p, give |-> d.take, pay |-> d.get,
                 take |-> d.give, get |-> d.pay]

\* A purse g that pays out and then gets in, up to MaxGold.
Purse(g, out, in) == IF g - out + in < MaxGold THEN g - out + in ELSE MaxGold

BarterInit ==
    /\ goods \in Holdings
    /\ OneOwner(goods)
    /\ ledger = goods
    /\ locked = {}
    /\ pledge = [p \in Player |-> NoDeal]

\* Players withdraw, and others pledge themselves.
Consider ==
    /\ pledge' = [p \in Player |-> pledge'[p]]
    /\ \A p \in Player :
          \/ pledge'[p] \in {pledge[p], NoDeal}
          \/ pledge[p] = NoDeal /\ pledge'[p] \in Deals
    /\ UNCHANGED <<goods, ledger, locked>>

\* q is pledged to deal with p, and p agrees: whatever of the deal the two
\* still have changes hands, the gold in full.
Exchange(p, q) ==
    LET d == Mirror(q, pledge[q])
        given == d.give \cap goods.bag[p]
        taken == d.take \cap goods.bag[q]
        bagP == (goods.bag[p] \ given) \cup taken
        bagQ == (goods.bag[q] \ taken) \cup given
        goldP == Purse(goods.gold[p], d.pay, d.get)
        goldQ == Purse(goods.gold[q], d.get, d.pay)
        After(h) == [bag |-> [h.bag EXCEPT ![p] = bagP, ![q] = bagQ],
                     gold |-> [h.gold EXCEPT ![p] = goldP, ![q] = goldQ]]
    IN /\ p # q
       /\ pledge[q] \in Deals /\ pledge[q].with = p
       /\ pledge[p] \in {NoDeal, d}
       /\ d.pay <= goods.gold[p] /\ d.get <= goods.gold[q]
       /\ (given \cup taken) \cap locked = {}
       /\ Cardinality(bagP) <= Room /\ Cardinality(bagQ) <= Room
       /\ goods' = After(goods)
       /\ ledger' = After(ledger)
       /\ pledge' = [pledge EXCEPT ![p] = NoDeal, ![q] = NoDeal]
       /\ UNCHANGED locked

\* Outside trade a player loses an item, or earns and spends gold.
Live(p) ==
    /\ \/ \E i \in goods.bag[p] : goods' = [goods EXCEPT !.bag[p] = @ \ {i}]
       \/ \E g \in 0..MaxGold : goods' = [goods EXCEPT !.gold[p] = g]
    /\ UNCHANGED <<ledger, locked, pledge>>

Lock ==
    /\ locked' \in SUBSET Item
    /\ UNCHANGED <<goods, ledger, pledge>>

\* A player is saved; when it logs out its deal and the partner's are off.
Save(p) ==
    /\ ledger' = [bag |-> [ledger.bag EXCEPT ![p] = goods.bag[p]],
                  gold |-> [ledger.gold EXCEPT ![p] = goods.gold[p]]]
    /\ pledge' = [q \in Player |-> pledge'[q]]
    /\ \A q \in Player : pledge'[q] \in {pledge[q], NoDeal}
    /\ UNCHANGED <<goods, locked>>

Crash ==
    /\ goods' = ledger
    /\ pledge' = [p \in Player |-> NoDeal]
    /\ locked' \in SUBSET Item
    /\ UNCHANGED ledger

BarterNext ==
    \/ Consider
    \/ \E p, q \in Player : Exchange(p, q)
    \/ \E p \in Player : Live(p) \/ Save(p)
    \/ Lock
    \/ Crash

BarterSpec == BarterInit /\ [][BarterNext]_barterVars

\* No item is held by two players, in the world or in the database.
OwnedOnce == OneOwner(goods) /\ OneOwner(ledger)

=============================================================================
