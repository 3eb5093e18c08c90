-------------------------- MODULE MCProviderSeats --------------------------
(* Symmetry for the runs of ProviderSeats.                                  *)
EXTENDS ProviderSeats, TLC

Symmetry == Permutations(Run) \cup Permutations(Message \ {None}) \cup Permutations(Config)
=============================================================================
