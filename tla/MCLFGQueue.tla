------------------------------ MODULE MCLFGQueue ------------------------------
(* Two players in a party, one alone, and parties of two are full.         *)
EXTENDS LFGQueue, TLC

CONSTANTS p1, p2, p3, g1, g2, g3

PartyOfTwo == (g1 :> {p1, p2}) @@ (g2 :> {}) @@ (g3 :> {})

Alike == Permutations({p1, p2}) \cup Permutations({g2, g3})
=============================================================================
