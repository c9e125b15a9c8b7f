------------------------------ MODULE Control ------------------------------
(***************************************************************************)
(* The interpreter on compiled programs against the meaning of the         *)
(* programs.                                                               *)
(***************************************************************************)
EXTENDS VM, Compiler, Reference

CONSTANT Programs   (* programs, of the form [main |-> statements,           *)
                    (* funs |-> [name -> statements]]                      *)

ASSUME ProgramsCompiled == Compiled = [id \in DOMAIN Programs |-> CompileProgram(Programs[id])]

Over == status \notin {"start", "run"}

(* A run that ends has printed what the program means, and ended with the  *)
(* exception that it means, if any: break, continue, return, raise and     *)
(* falling off the end through any nesting of loops, try, except, finally, *)
(* with and generators.  (docs/compatibility.md, docs/language-reference.md*)
(* "try/except/finally", "for"/"while", "break", "continue", "return".)    *)
OutputAsReference ==
  Over =>
    LET m == Meaning(Programs[pid], Locals, RecursionLimit)
    IN out = m.out /\ status = Kind(m.end)

(* The compiler opens and closes try blocks so that they nest in the same  *)
(* way on every path, takes no operand of an enclosing block, and returns  *)
(* with nothing but the result on the stack.                               *)
CompilesStructured == status = "start" => StructuredCode

(* Every program of the set, whose loops are all bounded, comes to an end. *)
Terminates == <>Over
=============================================================================
