---------------------------- MODULE MCRunService ----------------------------
(* Definitions and symmetry for the runs of RunService.                     *)
EXTENDS RunService, TLC

\* Two independent steps, and one that needs both.
Join == <<{}, {}, {1, 2}>>
\* One step after the other.
Chain == <<{}, {1}>>

Symmetry == Permutations(Proc)
=============================================================================
