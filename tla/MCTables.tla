------------------------------ MODULE MCTables ------------------------------
(* Tables with three keys: two start their probes at the first slot of     *)
(* every table, one at the last, so that its probe wraps.                  *)
EXTENDS Tables
MCKeys == 1..3
MCHash == <<0, 0, 7>>
=============================================================================
