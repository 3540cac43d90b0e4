---------------------------- MODULE MCLoginQueue -----------------------------
(* An instance of LoginQueue for TLC: players and a game master.           *)
EXTENDS LoginQueue, TLC

CONSTANTS Players, Masters

MCAccount == Players \cup Masters
MCLevel == [a \in MCAccount |-> IF a \in Players THEN 0 ELSE 2]
MCLimits == {-9, -1, 0, 1, 2}
NoLimits == {}
\* Players are alike: nothing but their levels tells accounts apart.
Alike == Permutations(Players)
==============================================================================
