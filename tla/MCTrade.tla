-------------------------------- MODULE MCTrade -------------------------------
(***************************************************************************)
(* Values for TLC: player a has item i and player b has item j, both have  *)
(* some gold, and a player c has nothing.                                  *)
(***************************************************************************)
EXTENDS Trade, TLC

CONSTANTS a, b, c, i, j

MCBag == (a :> {i}) @@ (b :> {j}) @@ [p \in Player |-> {}]
MCGold == (a :> 1) @@ (b :> 1) @@ [p \in Player |-> 0]

MapSymmetry == Permutations(Map)

=============================================================================
