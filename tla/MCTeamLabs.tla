----------------------------- MODULE MCTeamLabs -----------------------------
(* Finite instances of TeamLabs. *)
EXTENDS TeamLabs, TLC

CONSTANTS r1, r2, d1, d2, n1, n2

(* Requests, deletions and names are interchangeable. *)
Interchangeable ==
    Permutations(Requests) \cup Permutations(Deleters) \cup Permutations(Names)

=============================================================================
