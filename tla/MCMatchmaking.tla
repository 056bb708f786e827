--------------------------- MODULE MCMatchmaking ----------------------------
(* Matchmaking.tla for TLC: players are interchangeable. *)
EXTENDS Matchmaking, TLC

Symmetry == Permutations(Player)
=============================================================================
