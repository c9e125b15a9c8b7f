------------------------------- MODULE Loader -------------------------------
(***************************************************************************)
(* What importing promises (docs/decisions.md, D-0023): a module is        *)
(* executed while it is marked as loading, never twice at a time and never *)
(* again once it is loaded, and a failure leaves no trace of it.           *)
(***************************************************************************)
EXTENDS Integers, Sequences

CONSTANT Mods

VARIABLES
  loading,   (* the modules being executed, innermost last                 *)
  loaded     (* the modules that were executed to the end                  *)

vars == <<loading, loaded>>

Init == loading = <<>> /\ loaded = {}

Begin(n) ==
  /\ n \notin loaded /\ \A i \in DOMAIN loading : loading[i] # n
  /\ loading' = Append(loading, n)
  /\ UNCHANGED loaded

Leave == loading # <<>> /\ loading' = SubSeq(loading, 1, Len(loading) - 1)
Commit == Leave /\ loaded' = loaded \cup {loading[Len(loading)]}
Abort == Leave /\ UNCHANGED loaded

Next == Commit \/ Abort \/ \E n \in Mods : Begin(n)

Spec == Init /\ [][Next]_vars
=============================================================================
