------------------------------ MODULE MCImport ------------------------------
(* Import with two modules, one of which may fail and be imported again.   *)
EXTENDS Import, TLC
Symmetry == Permutations(Mods)
=============================================================================
