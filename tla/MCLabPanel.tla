----------------------------- MODULE MCLabPanel -----------------------------
(* An instance of LabPanel for TLC. *)
EXTENDS LabPanel
=============================================================================
