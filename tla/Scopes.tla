------------------------------- MODULE Scopes -------------------------------
(***************************************************************************)
(* Name resolution (symbol.c) and the names a generator expression binds   *)
(* and captures (compiler.c).  A scope is the sequence of its slots: the   *)
(* parameters, then the other names in the order in which the code comes   *)
(* upon them.  A module has no slots: its names are globals; a block of a  *)
(* module (of an if or a loop) is no place for a def.                      *)
(***************************************************************************)
EXTENDS Syntax, SequencesExt

CONSTANTS
  MaxBound,   (* PY68_GENEXP_MAX_BOUND                                     *)
  MaxFree     (* PY68_GENEXP_MAX_FREE                                      *)

ModuleScope == [place |-> "module", slots |-> <<>>]
FunctionScope(slots) == [place |-> "function", slots |-> slots]
BlockOf(scope) == IF scope.place = "module" THEN [scope EXCEPT !.place = "block"] ELSE scope

(* py68_symbol_lookup_local.                                               *)
IsLocal(x, scope) == Contains(scope.slots, x)
SlotOf(x, scope) == SelectInSeq(scope.slots, LAMBDA y : y = x)

(* Each name once, where it is first met: py68_find_symbol before an add.  *)
Distinct(names) ==
  FoldLeft(LAMBDA seen, x : IF Contains(seen, x) THEN seen ELSE Append(seen, x), <<>>, names)

-----------------------------------------------------------------------------
(* Expressions, in the order in which the collectors walk them.            *)

Children(x) ==
  CASE x.e = "unary" -> <<x.operand>>
    [] x.e = "binary" -> <<x.left, x.right>>
    [] x.e = "ifexp" -> <<x.body, x.condition, x.orelse>>
    [] x.e = "call" -> <<x.callee>> \o x.args
    [] x.e = "index" -> <<x.container, x.index>>
    [] x.e = "slice" -> <<x.container, x.start, x.end>>
    [] x.e = "attribute" -> <<x.value>>
    [] x.e \in Displays -> x.elements
    [] x.e = "dict" -> FlattenSeq(x.items)
    [] x.e = "joined" -> x.parts
    [] x.e = "formatted" -> <<x.value, x.spec>>
    [] x.e \in Comprehensions \cup {"genexp"} -> <<x.elt, x.value>> \o x.generators
    [] x.e = "clause" -> <<x.iterable>> \o x.ifs
    [] OTHER -> <<>>

(* What the enclosing scope evaluates of x: of a generator expression only *)
(* the outermost iterable.                                                 *)
EvaluatedHere(x) == IF x.e = "genexp" THEN <<x.generators[1].iterable>> ELSE Children(x)

(* x and all below it; outside, only what the enclosing scope evaluates.   *)
RECURSIVE Nodes(_, _)
Nodes(x, outside) ==
  LET children == IF outside THEN EvaluatedHere(x) ELSE Children(x)
  IN <<x>> \o FlattenSeq([i \in DOMAIN children |-> Nodes(children[i], outside)])
AllNodes(xs) == FlattenSeq([i \in DOMAIN xs |-> Nodes(xs[i], FALSE)])

NamesOf(nodes) == [i \in DOMAIN nodes |-> nodes[i].name]
IsClause(x) == x.e = "clause"
IsName(x) == x.e = "name"

(* py68_collect_expression: list, set and dict comprehensions bind their   *)
(* loop variables in the scope they stand in.                              *)
BoundHere(x) == NamesOf(SelectSeq(Nodes(x, TRUE), IsClause))

(* py68_collect_bound_names.                                               *)
BoundInside(x) == Distinct(NamesOf(SelectSeq(Nodes(x, FALSE), IsClause)))

(* The parts of a generator expression that its own code evaluates.        *)
Inside(x) ==
  <<x.elt>> \o x.generators[1].ifs
  \o FlattenSeq([i \in 1..Len(x.generators) - 1 |-> Children(x.generators[i + 1])])

(* A bug to detect: the filters and the inner iterables capture nothing.    *)
FreeNamesOfElement(x, scope) ==
  SelectSeq(Distinct(NamesOf(SelectSeq(Nodes(x.elt, FALSE), IsName))),
            LAMBDA y : IsLocal(y, scope) /\ ~Contains(BoundInside(x), y))
(* py68_collect_free_names: the locals of the enclosing scope to capture.  *)
FreeNames(x, scope) ==
  SelectSeq(Distinct(NamesOf(SelectSeq(AllNodes(Inside(x)), IsName))),
            LAMBDA y : IsLocal(y, scope) /\ ~Contains(BoundInside(x), y))

(* The slots of a generator expression: the hidden iterator, the captured  *)
(* values, the loop variables.                                             *)
Hidden == ""
TooManyNames(x, scope) ==
  Len(BoundInside(x)) > MaxBound \/ Len(FreeNames(x, scope)) > MaxFree
GeneratorScope(x, scope) ==
  FunctionScope(<<Hidden>> \o FreeNames(x, scope) \o BoundInside(x))

-----------------------------------------------------------------------------
(* Statements.                                                             *)

TargetNames(t) ==
  CASE t.e = "name" -> <<t.name>>
    [] t.e = "tuple" -> NamesOf(SelectSeq(t.elements, IsName))
    [] OTHER -> BoundHere(t)
Given(x) == IF x = "" THEN <<>> ELSE <<x>>
AliasName(alias) == IF alias.as = "" THEN alias.name ELSE alias.as

(* py68_collect_statements: the names that statements bind, in order.      *)
RECURSIVE NamesBound(_)
NamesBound(ss) ==
  FlattenSeq([i \in DOMAIN ss |->
    LET s == ss[i]
    IN CASE s.s \in {"assign", "augassign"} -> TargetNames(s.target) \o BoundHere(s.value)
         [] s.s = "for" ->
              TargetNames(s.target) \o BoundHere(s.iterable)
              \o NamesBound(s.body \o s.orelse)
         [] s.s \in {"if", "while"} -> BoundHere(s.condition) \o NamesBound(s.body \o s.orelse)
         [] s.s \in {"expr", "return", "yield", "raise"} -> BoundHere(s.value)
         [] s.s = "try" ->
              NamesBound(s.body)
              \o FlattenSeq([h \in DOMAIN s.handlers |->
                   Given(s.handlers[h].name) \o BoundHere(s.handlers[h].type)
                   \o NamesBound(s.handlers[h].body)])
              \o NamesBound(s.final)
         [] s.s = "with" -> BoundHere(s.context) \o Given(s.name) \o NamesBound(s.body)
         [] s.s = "import" -> <<AliasName(s.alias)>>
         [] s.s = "import_from" -> [a \in DOMAIN s.aliases |-> AliasName(s.aliases[a])]
         [] OTHER -> <<>>])

(* Is there a def or a class among the statements?                         *)
RECURSIVE Nests(_)
Nests(ss) ==
  \E i \in DOMAIN ss :
    LET s == ss[i]
    IN \/ s.s \in {"def", "class"}
       \/ s.s \in {"if", "while", "for"} /\ Nests(s.body \o s.orelse)
       \/ s.s = "with" /\ Nests(s.body)
       \/ s.s = "try" /\ \/ Nests(s.body \o s.final)
                         \/ \E h \in DOMAIN s.handlers : Nests(s.handlers[h].body)

ScopeOf(def) == FunctionScope(Distinct(def.parameters \o NamesBound(def.body)))

(* What py68_symbol_analyze refuses: a parameter named twice, a function   *)
(* or class inside a function, and other statements in a class.            *)
DefRefused(def) ==
  Distinct(def.parameters) # def.parameters \/ Nests(def.body)
ClassRefused(class) ==
  \E i \in DOMAIN class.body :
    \/ class.body[i].s \notin {"pass", "assign", "def"}
    \/ class.body[i].s = "def" /\ DefRefused(class.body[i])
Refuses(ss) ==
  \E i \in DOMAIN ss : \/ ss[i].s = "def" /\ DefRefused(ss[i])
                       \/ ss[i].s = "class" /\ ClassRefused(ss[i])
=============================================================================
