--------------------------- MODULE MCMiscompiled ---------------------------
(* Control on the other programs: those that the compiler inlines wrongly. *)
EXTENDS Control, Programs
MCPrograms == [id \in (AllIds \ GoodIds) \cup ({"faulty"} \X DOMAIN Faulty) |-> Build(id)]
MCCompiled == [id \in DOMAIN MCPrograms |-> CompileProgram(MCPrograms[id])]
=============================================================================
