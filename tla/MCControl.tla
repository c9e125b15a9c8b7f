----------------------------- MODULE MCControl -----------------------------
(* Control on the programs for which the compiler's inlining is right.     *)
EXTENDS Control, Programs
MCPrograms == [id \in GoodIds |-> Build(id)]
MCCompiled == [id \in DOMAIN MCPrograms |-> CompileProgram(MCPrograms[id])]
=============================================================================
