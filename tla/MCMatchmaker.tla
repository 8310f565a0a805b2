---------------------------- MODULE MCMatchmaker -----------------------------
(* Matchmaker with interchangeable players and regions.                    *)
EXTENDS Matchmaker, TLC

Symmetry == Permutations(Player) \cup Permutations(Region \ {AnyRegion})
=============================================================================
