------------------------ MODULE MCChallengeControls ------------------------
(* An instance of ChallengeControls for TLC: both challenges belong to one *)
(* exercise.                                                               *)
EXTENDS ChallengeControls, TLC

CONSTANTS c1, c2, p1

OneExercise == c1 :> p1 @@ c2 :> p1
=============================================================================
