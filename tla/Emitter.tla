------------------------------- MODULE Emitter -------------------------------
(***************************************************************************)
(* The code that compiler.c emits for expressions, assignments, loops,     *)
(* functions, classes and imports; try, with, break and continue are in    *)
(* Compiler.  A jump holds how many instructions it skips from the one     *)
(* after it, as the bytecode holds a displacement; names, constants and    *)
(* nested code stand in the instructions, where the bytecode holds indexes *)
(* of the tables of a code object.                                         *)
(***************************************************************************)
EXTENDS Scopes

I(op, arg) == [op |-> op, arg |-> arg]
Op(op) == I(op, 0)
(* The compilation ends with an error.                                     *)
Rejection(why) == <<I("REJECTED", why)>>
IsRejected(code) == \E at \in DOMAIN code : code[at].op = "REJECTED"

(* py68_emit_load_name and py68_emit_store_name.                           *)
LoadName(x, scope) ==
  <<IF IsLocal(x, scope) THEN I("LOAD_LOCAL", SlotOf(x, scope)) ELSE I("LOAD_GLOBAL", x)>>
StoreName(x, scope) ==
  <<IF IsLocal(x, scope) THEN I("STORE_LOCAL", SlotOf(x, scope)) ELSE I("STORE_GLOBAL", x)>>

(* py68_compile_unpack_stores.                                             *)
Unpack(target, scope) ==
  IF target.elements = <<>> \/ \E i \in DOMAIN target.elements : ~IsName(target.elements[i])
  THEN Rejection("invalid unpack target")
  ELSE <<I("UNPACK", Len(target.elements))>>
       \o FlattenSeq([i \in DOMAIN target.elements |-> StoreName(target.elements[i].name, scope)])

OperatorOpcode(op) ==
  CASE op = "+" -> "ADD" [] op = "-" -> "SUBTRACT" [] op = "*" -> "MULTIPLY"
    [] op = "/" -> "TRUE_DIVIDE" [] op = "//" -> "FLOOR_DIVIDE" [] op = "%" -> "MODULO"
    [] op = "==" -> "EQUAL" [] op = "!=" -> "NOT_EQUAL" [] op = "<" -> "LESS"
    [] op = "<=" -> "LESS_EQUAL" [] op = ">" -> "GREATER" [] op = ">=" -> "GREATER_EQUAL"
    [] op = "in" -> "CONTAINS" [] op = "not in" -> "NOT_CONTAINS"
    [] op = "is" -> "IS" [] op = "is not" -> "IS_NOT"
UnaryOpcode(op) == CASE op = "-" -> "NEGATE" [] op = "+" -> "POSITIVE" [] OTHER -> "NOT"

-----------------------------------------------------------------------------
(* Pieces of code put together from the code of their parts.               *)

Choice(condition, body, orelse) ==
  condition \o <<I("JUMP_IF_FALSE", Len(body) + 1)>> \o body
  \o <<I("JUMP", Len(orelse))>> \o orelse

ShortCircuit(op, left, right) ==
  left \o <<I(IF op = "and" THEN "JUMP_IF_FALSE_OR_POP" ELSE "JUMP_IF_TRUE_OR_POP", Len(right))>>
  \o right

(* The filters of a clause after the code that stores its variable: one    *)
(* that fails goes back to RANGE_NEXT, which stands before this code.      *)
Filtered(store, filters) ==
  FoldLeft(LAMBDA code, f : code \o f \o <<I("JUMP_IF_FALSE", -(Len(code) + Len(f) + 2))>>,
           store, filters)
(* A loop over the iterator of init.                                       *)
ForEach(init, body) ==
  init \o <<I("RANGE_NEXT", Len(body) + 1)>> \o body \o <<I("JUMP", -(Len(body) + 2))>>

(* What the innermost clause does with the element.                        *)
Adds(kind, clauses) ==
  CASE kind = "listcomp" -> <<I("LIST_APPEND", clauses + 1)>>
    [] kind = "setcomp" -> <<I("SET_ADD", clauses + 1)>>
    [] kind = "dictcomp" -> <<I("MAP_ADD", clauses + 2)>>
    [] OTHER -> <<Op("YIELD_VALUE")>>
Builds(kind) ==
  CASE kind = "listcomp" -> <<I("BUILD_LIST", 0)>>
    [] kind = "setcomp" -> <<I("BUILD_SET", 0)>>
    [] kind = "dictcomp" -> <<I("BUILD_DICT", 0)>>

(* A call keeps its argument count in one byte.                            *)
CallOf(callee, args) == callee \o FlattenSeq(args) \o <<I("CALL", Len(args) % 256)>>
Converter(conversion) ==
  CASE conversion = "r" -> "repr" [] conversion = "a" -> "ascii" [] OTHER -> "str"

(* Nested code, made into a function with OP_MAKE_FUNCTION.                *)
CodeObject(x, code, parameters, scope, generator) ==
  [name |-> x, code |-> code, parameters |-> parameters, locals |-> Len(scope.slots),
   generator |-> generator]
MakeFunction(object) ==
  IF IsRejected(object.code) THEN Rejection("in a function") ELSE <<I("MAKE_FUNCTION", object)>>

IsRange(x) == x.e = "call" /\ x.callee = Name("range")
-----------------------------------------------------------------------------
(* Expressions: py68_compile_expression, and what it calls.                *)

RECURSIVE Compile(_, _)
CompileAll(xs, scope) == [i \in DOMAIN xs |-> Compile(xs[i], scope)]
Together(xs, scope) == FlattenSeq(CompileAll(xs, scope))

(* py68_compile_iterable: what leaves an iterator.                         *)
CompileIterable(x, scope) ==
  IF ~IsRange(x) THEN Compile(x, scope) \o <<I("RANGE_INIT", 1)>>
  ELSE IF Len(x.args) \notin 1..3 THEN Rejection("range expects 1 to 3 arguments")
  ELSE Together(x.args, scope) \o <<I("RANGE_INIT", Len(x.args))>>

(* py68_compile_comp_for, where first leaves the outermost iterator.       *)
CompileClauses(x, scope, first) ==
  LET clause(i) == [
        init |-> IF i = 1 THEN first ELSE CompileIterable(x.generators[i].iterable, scope),
        step |-> Filtered(StoreName(x.generators[i].name, scope),
                          CompileAll(x.generators[i].ifs, scope))]
  IN FoldRight(LAMBDA c, inner : ForEach(c.init, c.step \o inner),
               [i \in DOMAIN x.generators |-> clause(i)],
               Compile(x.elt, scope)
               \o (IF x.e = "dictcomp" THEN Compile(x.value, scope) ELSE <<>>)
               \o Adds(x.e, Len(x.generators)))

(* py68_compile_generator_exp: a function of the outermost iterable and    *)
(* the captured values, which is called at once.                           *)
CompileGenerator(x, scope, free, inner) ==
  MakeFunction(CodeObject(Hidden,
    CompileClauses(x, inner, <<I("LOAD_LOCAL", 1), I("RANGE_INIT", 1)>>) \o <<Op("RETURN_NONE")>>,
    Len(free) + 1, inner, TRUE))
  \o Compile(x.generators[1].iterable, scope)
  \o FlattenSeq([i \in DOMAIN free |-> LoadName(free[i], scope)])
  \o <<I("CALL", Len(free) + 1)>>

CompileJoined(parts, scope) ==
  IF parts = <<>> THEN <<I("LOAD_CONST", <<"str", "">>)>>
  ELSE FlattenSeq([i \in DOMAIN parts |->
         Compile(parts[i], scope) \o (IF i > 1 THEN <<Op("ADD")>> ELSE <<>>)])

CompileFormatted(x, scope) ==
  LET value == Compile(x.value, scope)
      spec == Compile(x.spec, scope)
      convert == CallOf(<<I("LOAD_GLOBAL", Converter(x.conversion))>>, <<value>>)
      format == <<I("LOAD_GLOBAL", "format")>>
  IN IF x.spec = Absent THEN convert
     ELSE IF x.conversion = "" THEN CallOf(format, <<value, spec>>)
     ELSE convert \o format \o <<Op("ROT_TWO")>> \o spec \o <<I("CALL", 2)>>

OrNone(x, scope) == IF x = Absent THEN <<Op("LOAD_NONE")>> ELSE Compile(x, scope)

Compile(x, scope) ==
  CASE x.e = "lit" -> <<I("LOAD_CONST", x.value)>>
    [] x.e = "name" -> LoadName(x.name, scope)
    [] x.e = "unary" -> Compile(x.operand, scope) \o <<Op(UnaryOpcode(x.op))>>
    [] x.e = "binary" ->
         IF x.op \in {"and", "or"}
         THEN ShortCircuit(x.op, Compile(x.left, scope), Compile(x.right, scope))
         ELSE Together(<<x.left, x.right>>, scope) \o <<Op(OperatorOpcode(x.op))>>
    [] x.e = "ifexp" ->
         Choice(Compile(x.condition, scope), Compile(x.body, scope), Compile(x.orelse, scope))
    [] x.e = "list" -> Together(x.elements, scope) \o <<I("BUILD_LIST", Len(x.elements))>>
    [] x.e = "tuple" -> Together(x.elements, scope) \o <<I("BUILD_TUPLE", Len(x.elements))>>
    [] x.e = "set" -> Together(x.elements, scope) \o <<I("BUILD_SET", Len(x.elements))>>
    [] x.e = "dict" ->
         Together(FlattenSeq(x.items), scope) \o <<I("BUILD_DICT", Len(x.items))>>
    [] x.e = "attribute" -> Compile(x.value, scope) \o <<I("LOAD_ATTR", x.name)>>
    [] x.e = "call" -> CallOf(Compile(x.callee, scope), CompileAll(x.args, scope))
    [] x.e = "index" -> Together(<<x.container, x.index>>, scope) \o <<Op("LOAD_INDEX")>>
    [] x.e = "slice" ->
         Compile(x.container, scope) \o OrNone(x.start, scope) \o OrNone(x.end, scope)
         \o <<Op("LOAD_SLICE")>>
    [] x.e = "genexp" ->
         IF TooManyNames(x, scope) THEN Rejection("generator expression has too many names")
         ELSE CompileGenerator(x, scope, FreeNames(x, scope), GeneratorScope(x, scope))
    [] x.e \in Comprehensions ->
         Builds(x.e) \o CompileClauses(x, scope, CompileIterable(x.generators[1].iterable, scope))
    [] x.e = "joined" -> CompileJoined(x.parts, scope)
    [] x.e = "formatted" -> CompileFormatted(x, scope)
    [] OTHER -> <<>>

-----------------------------------------------------------------------------
(* Statements: py68_compile_statements.                                    *)

CompileAssign(target, value, scope) ==
  CASE target.e = "attribute" ->
         Together(<<target.value, value>>, scope) \o <<I("STORE_ATTR", target.name)>>
    [] target.e = "index" ->
         Together(<<target.container, target.index, value>>, scope) \o <<Op("STORE_INDEX")>>
    [] target.e = "tuple" -> Compile(value, scope) \o Unpack(target, scope)
    [] OTHER -> Compile(value, scope) \o StoreName(target.name, scope)

(* The container and the index of a target are evaluated twice.            *)
CompileAugmented(op, target, value, scope) ==
  LET change == Compile(value, scope) \o <<Op(OperatorOpcode(op))>>
      parts == Together(<<target.container, target.index>>, scope)
  IN CASE target.e = "index" ->
            parts \o parts \o <<Op("LOAD_INDEX")>> \o change \o <<Op("STORE_INDEX")>>
       [] target.e = "attribute" ->
            Compile(target.value, scope) \o <<Op("DUP"), I("LOAD_ATTR", target.name)>>
            \o change \o <<I("STORE_ATTR", target.name)>>
       [] target.e = "name" ->
            LoadName(target.name, scope) \o change \o StoreName(target.name, scope)
       [] OTHER -> Rejection("invalid augmented assignment target")

Binds(target, scope) ==
  IF target.e = "tuple" THEN Unpack(target, scope) ELSE StoreName(target.name, scope)

(* Does the body make its function a generator?  py68_statements_yield.    *)
RECURSIVE Yields(_)
Yields(ss) ==
  \E i \in DOMAIN ss :
    LET s == ss[i]
    IN \/ s.s = "yield"
       \/ s.s \in {"if", "while", "for"} /\ Yields(s.body \o s.orelse)
       \/ s.s = "with" /\ Yields(s.body)
       \/ s.s = "try" /\ \/ Yields(s.body \o s.final)
                         \/ \E h \in DOMAIN s.handlers : Yields(s.handlers[h].body)

(* A def in a block has no symbols, which is an internal error.            *)
RECURSIVE CompileBody(_, _)
CompileFunction(def, scope) ==
  IF scope.place # "module" THEN Rejection("missing function symbols")
  ELSE MakeFunction(CodeObject(def.name,
         CompileBody(def.body, ScopeOf(def)) \o <<Op("RETURN_NONE")>>,
         Len(def.parameters), ScopeOf(def), Yields(def.body)))

(* The namespace of a class is a dict, filled entry by entry.              *)
CompileMember(s, scope) ==
  LET entry(x, code) == <<I("LOAD_CONST", <<"str", x>>)>> \o code \o <<I("MAP_ADD", 2)>>
  IN CASE s.s = "assign" -> entry(s.target.name, Compile(s.value, scope))
       [] s.s = "def" -> entry(s.name, CompileFunction(s, scope))
       [] s.s = "pass" -> <<>>
       [] OTHER -> Rejection("not allowed in a class")
CompileClass(s, scope) ==
  <<I("LOAD_GLOBAL", "__build_class__"), I("BUILD_DICT", 0)>>
  \o FlattenSeq([i \in DOMAIN s.body |-> CompileMember(s.body[i], scope)])
  \o <<I("LOAD_CONST", <<"str", s.name>>)>>
  \o (IF s.base = Absent THEN <<I("CALL", 2)>> ELSE Compile(s.base, scope) \o <<I("CALL", 3)>>)

(* A bug of the code: IMPORT_FROM leaves the module under the name, and    *)
(* only one of its copies is popped.                                       *)
CompileImportFrom(s, scope) ==
  <<I("IMPORT_NAME", s.module)>>
  \o FlattenSeq([i \in DOMAIN s.aliases |->
       <<Op("DUP"), I("IMPORT_FROM", s.aliases[i].name)>> \o StoreName(AliasName(s.aliases[i]), scope)])
  \o <<Op("POP")>>

(* The body goes back to the test, or to the RANGE_NEXT, of its loop.      *)
CompileWhile(s, scope) ==
  LET test == Compile(s.condition, scope)
      body == CompileBody(s.body, BlockOf(scope))
  IN test \o <<I("JUMP_IF_FALSE", Len(body) + 1)>> \o body
     \o <<I("JUMP", -(Len(test) + Len(body) + 2))>> \o CompileBody(s.orelse, BlockOf(scope))

CompileStatement(s, scope) ==
  CASE s.s = "assign" -> CompileAssign(s.target, s.value, scope)
    [] s.s = "augassign" -> CompileAugmented(s.op, s.target, s.value, scope)
    [] s.s = "expr" -> Compile(s.value, scope) \o <<Op("POP")>>
    [] s.s = "if" ->
         Choice(Compile(s.condition, scope), CompileBody(s.body, BlockOf(scope)),
                CompileBody(s.orelse, BlockOf(scope)))
    [] s.s = "while" -> CompileWhile(s, scope)
    [] s.s = "for" ->
         ForEach(CompileIterable(s.iterable, scope),
                 Binds(s.target, scope) \o CompileBody(s.body, BlockOf(scope)))
         \o CompileBody(s.orelse, BlockOf(scope))
    [] s.s = "return" ->
         IF scope.place # "function" THEN Rejection("return outside function")
         ELSE IF s.value = Absent THEN <<Op("RETURN_NONE")>>
         ELSE Compile(s.value, scope) \o <<Op("RETURN_VALUE")>>
    [] s.s = "yield" ->
         IF scope.place # "function" THEN Rejection("yield outside a generator function")
         ELSE OrNone(s.value, scope) \o <<Op("YIELD_VALUE")>>
    [] s.s = "raise" -> OrNone(s.value, scope) \o <<Op("RAISE")>>
    [] s.s = "def" -> CompileFunction(s, scope) \o <<I("STORE_GLOBAL", s.name)>>
    [] s.s = "class" -> CompileClass(s, scope) \o <<I("STORE_GLOBAL", s.name)>>
    [] s.s = "import" -> <<I("IMPORT_NAME", s.alias.name)>> \o StoreName(AliasName(s.alias), scope)
    [] s.s = "import_from" -> CompileImportFrom(s, scope)
    [] OTHER -> <<>>

(* The statement to compile after the one at index (from 0).  A bug of the *)
(* code: the names of a from-import are counted in the same variable as the*)
(* statements.                                                             *)
Following(s, index) == IF s.s = "import_from" THEN Len(s.aliases) + 1 ELSE index + 1
(* The indexes of the statements as they are compiled, until the end of the*)
(* block, or until one comes again: then that goes on for ever, until      *)
(* there is no memory.                                                     *)
Visited(ss) ==
  LET walk[n \in 0..Len(ss)] ==
        IF n = 0 THEN <<0>>
        ELSE LET index == Last(walk[n - 1])
             IN IF index >= Len(ss) THEN walk[n - 1]
                ELSE Append(walk[n - 1], Following(ss[index + 1], index))
  IN walk[Len(ss)]
CompileInOrder(ss, order, scope) ==
  IF Last(order) < Len(ss) THEN Rejection("out of memory")
  ELSE FlattenSeq([i \in 1..Len(order) - 1 |-> CompileStatement(ss[order[i] + 1], scope)])
CompileBody(ss, scope) == CompileInOrder(ss, Visited(ss), scope)

(* py68_compile_module.                                                    *)
CompileModule(ss) ==
  IF Refuses(ss) THEN CodeObject("", Rejection("not supported"), 0, ModuleScope, FALSE)
  ELSE CodeObject("", CompileBody(ss, ModuleScope) \o <<Op("HALT")>>, 0, ModuleScope, FALSE)
=============================================================================
