---------------------------- MODULE MCMatchStats -----------------------------
(* MatchStats with interchangeable players.                                *)
EXTENDS MatchStats, TLC

Symmetry == Permutations(Player)
=============================================================================
