------------------------------- MODULE Syntax -------------------------------
(***************************************************************************)
(* The syntax trees (py68k_ast.h).  Names and the contents of strings stand*)
(* for the places in the source where the AST finds them.                  *)
(***************************************************************************)
EXTENDS Integers, Sequences

Absent == [e |-> "absent"]                         \* a NULL child

(* Expressions.                                                            *)
Lit(v) == [e |-> "lit", value |-> v]               \* <<"int", n>>, <<"str", text>>, ...
Name(x) == [e |-> "name", name |-> x]
Unary(op, operand) == [e |-> "unary", op |-> op, operand |-> operand]
Binary(op, l, r) == [e |-> "binary", op |-> op, left |-> l, right |-> r]
IfExp(body, condition, orelse) ==
  [e |-> "ifexp", body |-> body, condition |-> condition, orelse |-> orelse]
Call(callee, args) == [e |-> "call", callee |-> callee, args |-> args]
Index(container, i) == [e |-> "index", container |-> container, index |-> i]
Slice(container, start, end) ==
  [e |-> "slice", container |-> container, start |-> start, end |-> end]
Attribute(value, x) == [e |-> "attribute", value |-> value, name |-> x]
Display(kind, elements) == [e |-> kind, elements |-> elements]      \* list, tuple, set
Dict(items) == [e |-> "dict", items |-> items]                      \* <<key, value>> pairs
(* kind is listcomp, setcomp, dictcomp or genexp; of the others only a     *)
(* dictcomp has a value.                                                   *)
Comprehension(kind, elt, value, generators) ==
  [e |-> kind, elt |-> elt, value |-> value, generators |-> generators]
CompFor(x, iterable, ifs) ==
  [e |-> "clause", name |-> x, iterable |-> iterable, ifs |-> ifs]
Joined(parts) == [e |-> "joined", parts |-> parts]
Formatted(value, conversion, spec) ==
  [e |-> "formatted", value |-> value, conversion |-> conversion, spec |-> spec]

Comprehensions == {"listcomp", "setcomp", "dictcomp"}
Displays == {"list", "tuple", "set"}

(* Statements; a target is a name, an index, an attribute or a tuple of    *)
(* names.                                                                  *)
Simple(kind) == [s |-> kind]                       \* pass, break, continue
Valued(kind, value) == [s |-> kind, value |-> value]   \* expr, return, yield, raise
Assignment(target, value) == [s |-> "assign", target |-> target, value |-> value]
Augmented(op, target, value) ==
  [s |-> "augassign", op |-> op, target |-> target, value |-> value]
Conditional(condition, body, orelse) ==
  [s |-> "if", condition |-> condition, body |-> body, orelse |-> orelse]
WhileLoop(condition, body, orelse) ==
  [s |-> "while", condition |-> condition, body |-> body, orelse |-> orelse]
ForLoop(target, iterable, body, orelse) ==
  [s |-> "for", target |-> target, iterable |-> iterable, body |-> body, orelse |-> orelse]
Function(x, parameters, body) ==
  [s |-> "def", name |-> x, parameters |-> parameters, body |-> body]
Class(x, base, body) == [s |-> "class", name |-> x, base |-> base, body |-> body]
Except(type, x, body) == [type |-> type, name |-> x, body |-> body]
TryBlock(body, handlers, final) ==
  [s |-> "try", body |-> body, handlers |-> handlers, final |-> final]
WithBlock(context, x, body) ==
  [s |-> "with", context |-> context, name |-> x, body |-> body]
Alias(x, as) == [name |-> x, as |-> as]
Import(alias) == [s |-> "import", alias |-> alias]
ImportFrom(module, aliases) == [s |-> "import_from", module |-> module, aliases |-> aliases]
=============================================================================
