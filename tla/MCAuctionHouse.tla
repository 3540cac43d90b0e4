---------------------------- MODULE MCAuctionHouse ----------------------------
(***************************************************************************)
(* Values for TLC: anna has the one item, and all have some gold.      *)
(***************************************************************************)
EXTENDS AuctionHouse, TLC

CONSTANTS anna, ring

Bidders == Permutations(Player \ {anna})

MCBag == [p \in Player |-> IF p = anna THEN {ring} ELSE {}]
MCGold == [p \in Player |-> IF p = anna THEN 1 ELSE 2]

\* Nothing is said of what comes after a handler cut short, an old mail that was
\* returned wrongly, an item asked for under another mail, or money out of width.
Unspoilt == ~torn /\ ~spoilt

=============================================================================
