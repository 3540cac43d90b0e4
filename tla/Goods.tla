--------------------------------- MODULE Goods --------------------------------
(***************************************************************************)
(* What players have: items, each in the inventory of one player at most,  *)
(* and gold up to a largest amount.                                        *)
(***************************************************************************)
EXTENDS Naturals

CONSTANTS
    Player,
    Item,
    MaxGold,        \* MAX_MONEY_AMOUNT; the rest of an amount is lost
    Room            \* places in an inventory

ASSUME GoodsAssumption ==
    MaxGold \in Nat /\ Room \in Nat

Holdings == [bag : [Player -> SUBSET Item], gold : [Player -> 0..MaxGold]]

OneOwner(h) == \A p, q \in Player : p # q => h.bag[p] \cap h.bag[q] = {}

=============================================================================
