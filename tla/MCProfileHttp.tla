---------------------------- MODULE MCProfileHttp ----------------------------
(* ProfileHttp, and so MatchStats, with interchangeable players.           *)
EXTENDS ProfileHttp, TLC

Symmetry == Permutations(Player)
=============================================================================
