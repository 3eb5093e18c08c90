----------------------------- MODULE MCFleetRun -----------------------------
(* A lead with two workers, and the assignments that a plan, a script or a   *)
(* module makes.                                                             *)
EXTENDS FleetRun

CONSTANTS lead, w1, w2

Fleet == <<w1, w2>>
Twice == {<<w1, w1>>}
Alone == <<w1>>
Single == {<<w1>>}
=============================================================================
