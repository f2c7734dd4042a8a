--------------------------- MODULE MCScoreTables ---------------------------
(* An instance of ScoreTables for TLC: two categories; batches can add a   *)
(* cheaper challenge to the second, and the first challenge once more,     *)
(* with equal points.                                                      *)
EXTENDS ScoreTables

CONSTANTS c1, c2, c3, web, crypto

FourEntries == <<c1, c2, c3, c1>>
Category == <<web, crypto, crypto, web>>
Points == <<5, 2, 1, 5>>

Interchangeable == Permutations(Teams)
=============================================================================
