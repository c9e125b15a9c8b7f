------------------------------ MODULE Bytecode ------------------------------
(***************************************************************************)
(* What the compiler and the interpreter share: values and instructions.   *)
(* Constants, global functions and types stand in the instruction LOAD and *)
(* variables in LOAD_NAME and STORE_NAME, where the bytecode holds indexes *)
(* of the tables of a code object; jumps hold absolute positions, where it *)
(* holds displacements.                                                    *)
(***************************************************************************)

(* Runtime values are tagged tuples: <<"int", n>>, <<"none">>, ...         *)
None == <<"none">>
Num(n) == <<"int", n>>
Native(name) == <<"native", name>>
Fun(f) == <<"fun", f>>
Type(t) == <<"type", t>>
Manager == <<"manager">>

I(op, arg) == [op |-> op, arg |-> arg]
Op(op) == I(op, 0)
=============================================================================
