------------------------------- MODULE MCHub -------------------------------
(* Instances of Hub for TLC. *)
EXTENDS Hub

(* A generator that never repeats a name. *)
UniqueTag(k) == k
=============================================================================
