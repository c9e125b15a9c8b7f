--------------------------- MODULE MCActivation ---------------------------
(* A small instance of Activation: two generators, three activations deep. *)
EXTENDS Activation, TLC

Symmetry == Permutations(Gens)
=============================================================================
