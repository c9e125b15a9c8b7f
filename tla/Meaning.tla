------------------------------- MODULE Meaning -------------------------------
(***************************************************************************)
(* What a program does, by recursion on its tree, as the sequence of its   *)
(* operations: docs/compatibility.md promises Python's behaviour for the   *)
(* documented subset.  Nothing here knows of instructions, slots or an     *)
(* operand stack.  Where Python leaves no trace of an order that the docs  *)
(* are silent about (the operands of a target before the value; the body of*)
(* a class before its base), the order is that of the code.                *)
(*                                                                         *)
(* An operation is <<what, name, operands>>, and the value it gives is     *)
(* known by its place in the sequence.  Tests have the outcomes of the     *)
(* execution the program is compared with; once it is over, its functions  *)
(* and generators are run, in the order in which they were made.           *)
(***************************************************************************)
EXTENDS Syntax, SequencesExt

Result(n) == <<"value", n>>
Const(v) == <<"const", v>>
NoneValue == Const(<<"none">>)
Unbound == <<"unbound">>

(* Does the test of a value succeed?  Has an iterator another item?        *)
Holds(decided, v) == <<"true", v>> \in DOMAIN decided /\ decided[<<"true", v>>]
Continues(decided, v) == <<"more", v>> \in DOMAIN decided /\ decided[<<"more", v>>]

-----------------------------------------------------------------------------
(* Scopes.                                                                 *)

Bindings(t) == IF t.e = "tuple" THEN {t.elements[i].name : i \in DOMAIN t.elements} ELSE {t.name}
Parts(x) ==
  CASE x.e = "unary" -> {x.operand}
    [] x.e = "binary" -> {x.left, x.right}
    [] x.e = "ifexp" -> {x.body, x.condition, x.orelse}
    [] x.e = "call" -> {x.callee} \cup Range(x.args)
    [] x.e = "index" -> {x.container, x.index}
    [] x.e = "slice" -> {x.container, x.start, x.end}
    [] x.e = "attribute" -> {x.value}
    [] x.e \in Displays -> Range(x.elements)
    [] x.e = "dict" -> UNION {Range(x.items[i]) : i \in DOMAIN x.items}
    [] x.e = "joined" -> Range(x.parts)
    [] x.e = "formatted" -> {x.value, x.spec}
    [] x.e \in Comprehensions \cup {"genexp"} -> {x.elt, x.value} \cup Range(x.generators)
    [] x.e = "clause" -> {x.iterable} \cup Range(x.ifs)
    [] OTHER -> {}
Outermost(x) == x.generators[1].iterable
(* What a generator expression evaluates itself.                           *)
Body(x) ==
  {x.elt} \cup Range(x.generators[1].ifs)
  \cup UNION {Parts(x.generators[i]) : i \in 2..Len(x.generators)}

(* The names that evaluating x binds in the scope where x stands.          *)
RECURSIVE Leaks(_)
Leaks(x) ==
  (IF x.e = "clause" THEN {x.name} ELSE {})
  \cup UNION {Leaks(y) : y \in IF x.e = "genexp" THEN {Outermost(x)} ELSE Parts(x)}
(* The names of a generator expression's own scope.                        *)
Own(x) == {x.generators[i].name : i \in DOMAIN x.generators} \cup UNION {Leaks(y) : y \in Body(x)}

(* The names of the scope where x stands that x reads.                     *)
RECURSIVE Reads(_)
Reads(x) ==
  CASE x.e = "name" -> {x.name}
    [] x.e = "genexp" ->
         Reads(Outermost(x)) \cup (UNION {Reads(y) : y \in Body(x)} \ Own(x))
    [] OTHER -> UNION {Reads(y) : y \in Parts(x)}
Captures(x) == UNION {Reads(y) : y \in Body(x)} \ Own(x)

(* The name that an import binds.                                          *)
Binder(alias) == IF alias.as = "" THEN alias.name ELSE alias.as
RECURSIVE Assigned(_)
Assigned(ss) ==
  UNION {
    LET s == ss[i]
        target == IF s.target.e \in {"name", "tuple"} THEN Bindings(s.target) ELSE Leaks(s.target)
    IN CASE s.s \in {"assign", "augassign"} -> target \cup Leaks(s.value)
         [] s.s = "for" -> Bindings(s.target) \cup Leaks(s.iterable) \cup Assigned(s.body \o s.orelse)
         [] s.s \in {"if", "while"} -> Leaks(s.condition) \cup Assigned(s.body \o s.orelse)
         [] s.s \in {"expr", "return", "yield", "raise"} -> Leaks(s.value)
         [] s.s = "import" -> {Binder(s.alias)}
         [] s.s = "import_from" -> {Binder(s.aliases[a]) : a \in DOMAIN s.aliases}
         [] OTHER -> {}
    : i \in DOMAIN ss}

-----------------------------------------------------------------------------
(* r is an execution so far: its operations, the value of the last         *)
(* expression, the local names, what is still to be run, the outcomes of   *)
(* tests, and whether it is over.                                          *)

Did(r, what, name, operands) ==
  IF r.over THEN r
  ELSE [r EXCEPT !.ops = Append(@, <<what, name, operands>>), !.v = Result(Len(r.ops) + 1)]
Over(r, what, operands) == [Did(r, what, "", operands) EXCEPT !.over = TRUE]
Gives(r, v) == IF r.over THEN r ELSE [r EXCEPT !.v = v]
Bind(r, x, v) ==
  IF r.over THEN r
  ELSE IF x \in DOMAIN r.env THEN [r EXCEPT !.env[x] = v]
  ELSE Did(r, "store", x, <<v>>)
Later(r, what, env) ==
  IF r.over THEN r
  ELSE [r EXCEPT !.later = Append(@, [key |-> r.v, what |-> what, env |-> env])]
Read(r, x) ==
  CASE x \notin DOMAIN r.env -> Did(r, "global", x, <<>>)
    [] r.env[x] = Unbound -> Over(r, "unbound", <<>>)
    [] OTHER -> Gives(r, r.env[x])

(* r goes on with a part of the program: an expression or a statement.     *)
RECURSIVE Run(_, _)
(* The values of xs, evaluated from left to right.                         *)
WithValue(r, vs) == [r |-> r, vs |-> Append(vs, r.v)]
EvalAll(xs, r) ==
  FoldLeft(LAMBDA a, x : WithValue(Run(x, a.r), a.vs), [r |-> r, vs |-> <<>>], xs)
Apply(what, name, a) == Did(a.r, what, name, a.vs)

IteratorOver(x, r) ==
  IF x.e = "call" /\ x.callee = Name("range") THEN Apply("iterator", "", EvalAll(x.args, r))
  ELSE Apply("iterator", "", EvalAll(<<x>>, r))
(* The filters that hold, one after the other: the last value tested.      *)
Passes(ifs, r) ==
  FoldLeft(LAMBDA a, x :
             IF ~a.ok THEN a
             ELSE LET b == Run(x, a.r) IN [r |-> b, ok |-> ~b.over /\ Holds(b.decided, b.v)],
           [r |-> r, ok |-> TRUE], ifs)

Element(x, r, into) ==
  CASE x.e = "genexp" -> Apply("yield", "", EvalAll(<<x.elt>>, r))
    [] x.e = "dictcomp" ->
         LET a == EvalAll(<<x.elt, x.value>>, r) IN Did(a.r, "put", "", <<into>> \o a.vs)
    [] OTHER ->
         LET a == EvalAll(<<x.elt>>, r)
         IN Did(a.r, IF x.e = "listcomp" THEN "append" ELSE "add", "", <<into>> \o a.vs)

(* The items of the iterator it for the i-th clause and those within.      *)
RECURSIVE Each(_, _, _, _, _)
Nested(x, i, p, into) ==
  IF ~p.ok THEN p.r
  ELSE IF i = Len(x.generators) THEN Element(x, p.r, into)
  ELSE LET it == IteratorOver(x.generators[i + 1].iterable, p.r) IN Each(x, i + 1, it, it.v, into)
Each(x, i, r, it, into) ==
  LET n == Did(r, "next", "", <<it>>)
      clause == x.generators[i]
  IN IF n.over \/ ~Continues(n.decided, n.v) THEN n
     ELSE Each(x, i, Nested(x, i, Passes(clause.ifs, Bind(n, clause.name, n.v)), into), it, into)

Comprehend(x, r) ==
  LET it == IteratorOver(Outermost(x), r) IN Gives(Each(x, 1, it, it.v, r.v), r.v)
(* A generator holds the values of the locals it reads at its creation.    *)
Generate(x, r) ==
  IF \E y \in Captures(x) \cap DOMAIN r.env : r.env[y] = Unbound THEN Over(r, "unbound", <<>>)
  ELSE Later(Did(r, "generator", "", <<r.v>>), x,
             [it |-> r.v,
              names |-> [y \in (Captures(x) \cap DOMAIN r.env) \cup Own(x) |->
                           IF y \in Own(x) THEN Unbound ELSE r.env[y]]])

Called(f, a) == Did(a.r, "call", "", <<f>> \o a.vs)
CallWith(f, xs) == Called(f.v, EvalAll(xs, f))
CallNamed(f, xs, r) == CallWith(Did(r, "global", f, <<>>), xs)
Convert(x, r) ==
  CallNamed(CASE x.conversion = "r" -> "repr" [] x.conversion = "a" -> "ascii" [] OTHER -> "str",
            <<x.value>>, r)
FormatConverted(c, f, a) == Did(a.r, "call", "", <<f, c>> \o a.vs)
FormatWith(x, c, f) == FormatConverted(c, f.v, EvalAll(<<x.spec>>, f))
Format(x, r) ==
  CASE x.spec = Absent -> Convert(x, r)
    [] x.conversion = "" -> CallNamed("format", <<x.value, x.spec>>, r)
    [] OTHER -> LET c == Convert(x, r) IN FormatWith(x, c.v, Did(c, "global", "format", <<>>))
Concatenate(parts, r) ==
  IF parts = <<>> THEN Gives(r, Const(<<"str", "">>))
  ELSE FoldLeft(LAMBDA a, x : LET b == Run(x, a) IN Did(b, "+", "", <<a.v, b.v>>),
                Run(Head(parts), r), Tail(parts))

GivenOrNone(x) == IF x = Absent THEN Lit(<<"none">>) ELSE x

Evaluate(x, r) ==
  CASE x.e = "lit" -> Gives(r, Const(x.value))
    [] x.e = "name" -> Read(r, x.name)
    [] x.e = "unary" -> Apply("unary " \o x.op, "", EvalAll(<<x.operand>>, r))
    [] x.e = "binary" ->
         IF x.op \notin {"and", "or"} THEN Apply(x.op, "", EvalAll(<<x.left, x.right>>, r))
         ELSE LET l == Run(x.left, r)
              IN IF Holds(l.decided, l.v) = (x.op = "or") THEN l ELSE Run(x.right, l)
    [] x.e = "ifexp" ->
         LET c == Run(x.condition, r)
         IN Run(IF Holds(c.decided, c.v) THEN x.body ELSE x.orelse, c)
    [] x.e \in Displays -> Apply(x.e, "", EvalAll(x.elements, r))
    [] x.e = "dict" -> Apply("dict", "", EvalAll(FlattenSeq(x.items), r))
    [] x.e = "attribute" -> Apply("attribute", x.name, EvalAll(<<x.value>>, r))
    [] x.e = "call" -> Apply("call", "", EvalAll(<<x.callee>> \o x.args, r))
    [] x.e = "index" -> Apply("index", "", EvalAll(<<x.container, x.index>>, r))
    [] x.e = "slice" ->
         Apply("slice", "", EvalAll(<<x.container, GivenOrNone(x.start), GivenOrNone(x.end)>>, r))
    [] x.e = "listcomp" -> Comprehend(x, Did(r, "list", "", <<>>))
    [] x.e = "setcomp" -> Comprehend(x, Did(r, "set", "", <<>>))
    [] x.e = "dictcomp" -> Comprehend(x, Did(r, "dict", "", <<>>))
    [] x.e = "genexp" -> LET it == Run(Outermost(x), r) IN IF it.over THEN it ELSE Generate(x, it)
    [] x.e = "joined" -> Concatenate(x.parts, r)
    [] x.e = "formatted" -> Format(x, r)
-----------------------------------------------------------------------------
(* Statements.                                                             *)

Items(target, r) ==
  IF target.e = "name" THEN Bind(r, target.name, r.v)
  ELSE LET u == Did(r, "unpack", "", <<r.v, Const(<<"int", Len(target.elements)>>)>>)
       IN FoldLeftDomain(LAMBDA a, i : Bind(a, target.elements[i].name, <<"item", u.v, i>>),
                         u, target.elements)

Assign(target, value, r) ==
  CASE target.e = "attribute" -> Apply("set", target.name, EvalAll(<<target.value, value>>, r))
    [] target.e = "index" ->
         Apply("put", "", EvalAll(<<target.container, target.index, value>>, r))
    [] OTHER -> LET b == Run(value, r) IN IF b.over THEN b ELSE Items(target, b)
(* Container and index are evaluated twice (docs/decisions.md).            *)
Places(target) ==
  CASE target.e = "attribute" -> <<target.value>>
    [] target.e = "index" -> <<target.container, target.index>>
    [] OTHER -> <<>>
OldValue(target, a) ==
  CASE target.e = "attribute" -> Did(a.r, "attribute", target.name, a.vs)
    [] target.e = "index" -> Apply("index", "", EvalAll(Places(target), a.r))
    [] OTHER -> Run(target, a.r)
Changed(op, old, v) == Did(v, op, "", <<old.v, v.v>>)
Updated(op, old, value) == Changed(op, old, Run(value, old))
PutBack(target, places, n) ==
  CASE target.e = "attribute" -> Did(n, "set", target.name, Append(places, n.v))
    [] target.e = "index" -> Did(n, "put", "", Append(places, n.v))
    [] OTHER -> Bind(n, target.name, n.v)
AugmentAt(op, target, value, a) == PutBack(target, a.vs, Updated(op, OldValue(target, a), value))
Augment(op, target, value, r) == AugmentAt(op, target, value, EvalAll(Places(target), r))

RECURSIVE Yielding(_)
Yielding(ss) ==
  \E i \in DOMAIN ss : \/ ss[i].s = "yield"
                       \/ ss[i].s \in {"if", "while", "for"} /\ Yielding(ss[i].body \o ss[i].orelse)
Define(def, r) ==
  LET names == Range(def.parameters) \cup Assigned(def.body)
      f == Did(r, "function", def.name,
               <<Const(<<"int", Len(def.parameters)>>), <<"generator", Yielding(def.body)>>>>)
  IN Later(f, def, [names |-> [x \in names |->
       IF Contains(def.parameters, x) THEN <<"argument", SelectInSeq(def.parameters, LAMBDA y : y = x)>>
       ELSE Unbound]])

(* A class is what __build_class__ makes of its namespace, name and base.  *)
Put(r, namespace, x) == Did(r, "put", "", <<namespace, Const(<<"str", x>>), r.v>>)
Member(s, r, namespace) ==
  CASE s.s = "assign" -> Put(Run(s.value, r), namespace, s.target.name)
    [] s.s = "def" -> Put(Define(s, r), namespace, s.name)
    [] OTHER -> r
Built(class, f, namespace, b) ==
  Did(b.r, "call", "", <<f, namespace, Const(<<"str", class.name>>)>> \o b.vs)
BuildIn(class, f, n) ==
  Built(class, f, n.v,
        EvalAll(IF class.base = Absent THEN <<>> ELSE <<class.base>>,
                FoldLeft(LAMBDA a, s : Member(s, a, n.v), n, class.body)))
BuildWith(class, f) == BuildIn(class, f.v, Did(f, "dict", "", <<>>))
Build(class, r) == BuildWith(class, Did(r, "global", "__build_class__", <<>>))

RunAll(ss, r) == FoldLeft(LAMBDA a, s : Run(s, a), r, ss)
RECURSIVE ForEachItem(_, _, _)
ForEachItem(s, r, it) ==
  LET n == Did(r, "next", "", <<it>>)
  IN IF n.over THEN n
     ELSE IF ~Continues(n.decided, n.v) THEN RunAll(s.orelse, n)
     ELSE ForEachItem(s, RunAll(s.body, Items(s.target, n)), it)

Imported(s, r) ==
  LET m == Did(r, "import", s.module, <<>>)
  IN FoldLeft(LAMBDA a, alias :
                LET v == Did(a, "import from", alias.name, <<m.v>>)
                IN Bind(v, Binder(alias), v.v),
              m, s.aliases)

Execute(s, r) ==
  CASE s.s = "assign" -> Assign(s.target, s.value, r)
    [] s.s = "augassign" -> Augment(s.op, s.target, s.value, r)
    [] s.s = "expr" -> Run(s.value, r)
    [] s.s = "if" ->
         LET c == Run(s.condition, r)
         IN RunAll(IF Holds(c.decided, c.v) THEN s.body ELSE s.orelse, c)
    [] s.s = "while" ->
         LET c == Run(s.condition, r)
         IN IF Holds(c.decided, c.v) THEN Run(s, RunAll(s.body, c)) ELSE RunAll(s.orelse, c)
    [] s.s = "for" -> LET it == IteratorOver(s.iterable, r) IN ForEachItem(s, it, it.v)
    [] s.s \in {"return", "raise"} ->
         LET b == EvalAll(<<GivenOrNone(s.value)>>, r) IN Over(b.r, s.s, b.vs)
    [] s.s = "yield" -> Apply("yield", "", EvalAll(<<GivenOrNone(s.value)>>, r))
    [] s.s = "def" -> LET f == Define(s, r) IN Did(f, "store", s.name, <<f.v>>)
    [] s.s = "class" -> LET c == Build(s, r) IN Did(c, "store", s.name, <<c.v>>)
    [] s.s = "import" ->
         LET m == Did(r, "import", s.alias.name, <<>>)
         IN Bind(m, Binder(s.alias), m.v)
    [] s.s = "import_from" -> Imported(s, r)
    [] OTHER -> r

Run(x, r) ==
  IF r.over THEN r ELSE IF "e" \in DOMAIN x THEN Evaluate(x, r) ELSE Execute(x, r)

-----------------------------------------------------------------------------
(* The whole execution.                                                    *)

Activate(x, r) ==
  LET e == Did([r EXCEPT !.env = x.env.names, !.over = FALSE], "enter", "", <<x.key>>)
  IN IF "s" \in DOMAIN x.what THEN RunAll(x.what.body, e)
     ELSE LET it == Did(e, "iterator", "", <<x.env.it>>) IN Each(x.what, 1, it, it.v, NoneValue)
Returned(r) == Over(r, "return", <<NoneValue>>)

RECURSIVE RunLater(_)
RunLater(r) ==
  IF r.later = <<>> THEN r
  ELSE RunLater(Returned(Activate(Head(r.later), [r EXCEPT !.later = Tail(@)])))

Operations(program, decided) ==
  RunLater(Over(RunAll(program,
                  [ops |-> <<>>, v |-> NoneValue, env |-> <<>>, later |-> <<>>,
                   decided |-> decided, over |-> FALSE]), "halt", <<>>)).ops
=============================================================================
