--------------------------- MODULE MCGoalSession ---------------------------
(* Model values and symmetry for the runs of GoalSession.                   *)
EXTENDS GoalSession, TLC

Symmetry == Permutations(Task) \cup Permutations(Proc \ Tui)
=============================================================================
