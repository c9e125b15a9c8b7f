------------------------------- MODULE Mapping -------------------------------
(***************************************************************************)
(* What a dict promises: a map from the keys that were set and not popped  *)
(* since, to the value each was last set to.  A set is the map of its      *)
(* elements to one and the same value.                                     *)
(***************************************************************************)
CONSTANTS Keys, Values
VARIABLE map

Init == map = [k \in {} |-> k]

Set(k, v) == map' = [j \in DOMAIN map \cup {k} |-> IF j = k THEN v ELSE map[j]]

Pop(k) == k \in DOMAIN map /\ map' = [j \in DOMAIN map \ {k} |-> map[j]]

Next == \E k \in Keys : Pop(k) \/ \E v \in Values : Set(k, v)

Spec == Init /\ [][Next]_map
=============================================================================
