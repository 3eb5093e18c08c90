--------------------------- MODULE MCDelegateSeat ---------------------------
(* Model values and symmetry for the runs of DelegateSeat.                  *)
EXTENDS DelegateSeat, TLC

Symmetry == Permutations(Turn) \cup Permutations(Canceller)
=============================================================================
