------------------------------- MODULE MCHeap -------------------------------
(* Three objects with two items each and a search that looks into one list:*)
(* it finds a list in itself and in its items, and gives up on a list in a *)
(* list in a list, or on the second of two lists.                          *)
EXTENDS Heap, TLC

Symmetry == Permutations(Objects)
=============================================================================
