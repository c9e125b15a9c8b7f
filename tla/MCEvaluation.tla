---------------------------- MODULE MCEvaluation ----------------------------
(***************************************************************************)
(* The programs that are checked: every expression of two levels, in a     *)
(* function and in a module, and every two statements after each other,    *)
(* within each other, in a function, in a generator and in a module.  p is *)
(* a parameter, x a local variable, g and h are globals.                   *)
(***************************************************************************)
EXTENDS Evaluation

P == Name("p")
G == Name("g")
X == Name("x")
Two == Lit(<<"int", 2>>)
Y == CompFor("y", P, <<>>)
Z == CompFor("z", G, <<>>)

(* The expressions in which e is evaluated, next to others.                *)
Around(e) ==
  {Unary("not", e), Unary("-", e), Binary("-", e, P), Binary("<", P, e), Binary("not in", G, e),
   Binary("and", e, X), Binary("and", X, e), Binary("or", e, G), Binary("or", P, e),
   IfExp(e, X, G), IfExp(P, e, X), IfExp(G, P, e),
   Call(e, <<P, G>>), Call(G, <<e, X>>), Call(G, <<X, e>>),
   Index(e, P), Index(G, e), Slice(e, P, X), Slice(G, e, Absent), Slice(P, Absent, e),
   Attribute(e, "b"),
   Display("list", <<e, P>>), Display("tuple", <<G, e>>), Display("set", <<P, e>>),
   Dict(<<<<e, P>>, <<G, X>>>>), Dict(<<<<P, e>>>>),
   Comprehension("listcomp", e, Absent, <<CompFor("y", P, <<Name("y"), X>>)>>),
   Comprehension("listcomp", Name("y"), Absent, <<CompFor("y", e, <<>>)>>),
   Comprehension("listcomp", Name("y"), Absent, <<CompFor("y", P, <<e>>), CompFor("w", Name("y"), <<>>)>>),
   Comprehension("setcomp", Name("y"), Absent, <<Y, CompFor("w", e, <<G>>)>>),
   Comprehension("setcomp", e, Absent, <<CompFor("y", Call(Name("range"), <<G, X>>), <<>>)>>),
   Comprehension("dictcomp", e, Name("y"), <<Y>>),
   Comprehension("dictcomp", P, e, <<Y, CompFor("w", Name("y"), <<>>)>>),
   Comprehension("genexp", e, Absent, <<CompFor("z", P, <<X, Name("z")>>)>>),
   Comprehension("genexp", Binary("+", X, Name("z")), Absent, <<CompFor("z", e, <<>>)>>),
   Comprehension("genexp", Name("v"), Absent, <<Z, CompFor("v", e, <<P>>)>>),
   Comprehension("genexp", P, Absent, <<CompFor("z", X, <<e>>), CompFor("v", Name("z"), <<>>)>>),
   Joined(<<Lit(<<"str", "a">>), Formatted(e, "", Absent), Formatted(P, "r", Absent)>>),
   Formatted(e, "r", Joined(<<Lit(<<"str", ">">>), Formatted(P, "", Absent)>>)),
   Formatted(G, "a", Formatted(e, "", Absent)), Formatted(P, "", e), Joined(<<>>)}
Shallow == Around(G) \cup Around(X)
Deep == UNION {Around(e) : e \in Around(G)}

Value(e) == Valued("expr", e)
Let(x, e) == Assignment(Name(x), e)
Def(body) == <<Function("f", <<"p">>, body)>>
Expressions ==
  {Def(<<Let("x", G), Valued("return", e)>>) : e \in Deep \cup Shallow}
  \cup {<<Value(e)>> : e \in Shallow}
  \cup {<<Value(Binary("is not", e, e))>> : e \in {Binary(op, G, P) :
          op \in {"+", "*", "/", "//", "%", "==", "!=", "<=", ">", ">=", "in", "is"}}}
  \cup {<<Value(Unary("+", G))>>,
        Def(<<Let("x", Comprehension("listcomp", Comprehension("genexp", Binary("+", Name("y"), Name("z")),
              Absent, <<Z>>), Absent, <<Y>>))>>)}

F == Call(G, <<P>>)
PQ == Display("tuple", <<P, Name("q")>>)
Plain ==
  {Value(F), Let("x", F), Let("p", X), Assignment(Index(F, X), G), Assignment(Attribute(F, "b"), G),
   Assignment(PQ, F), Assignment(Display("tuple", <<X, Name("x")>>), Comprehension("listcomp", X, Absent, <<Y>>)),
   Augmented("+", X, F), Augmented("*", Index(F, G), F), Augmented("//", Attribute(F, "b"), X),
   Augmented("-", Name("h"), Comprehension("setcomp", Name("y"), Absent, <<Y>>)),
   Valued("raise", X), Valued("raise", Absent), Simple("pass"),
   Import(Alias("h", "")), Import(Alias("h", "x"))}
Loops(body, orelse) ==
  {Conditional(F, body, orelse), WhileLoop(G, body, orelse),
   ForLoop(X, F, body, orelse),
   ForLoop(PQ, Call(Name("range"), <<P, G, Two>>), body, orelse)}
Compound == UNION {Loops(<<s>>, <<>>) \cup Loops(<<Let("x", P)>>, <<s>>) : s \in Plain}
Returns == {Valued("return", X), Valued("return", Absent), Valued("return", Name("y"))}
Yields2 == {Valued("yield", X), Valued("yield", Absent)}

Functions2 ==
  {Def(<<s, t>>) : s \in Plain \cup Compound, t \in Returns}
  \cup {Def(<<s, t>>) : s \in Plain, t \in Plain}
  \cup {Def(<<Let("x", P), s, Valued("return", X)>>) :
          s \in UNION {Loops(<<t>>, <<Valued("return", P)>>) : t \in UNION {Loops(<<u>>, <<>>) : u \in Plain}}}
  \cup {Def(<<s, y, t>>) : s \in {Value(F), Let("x", F)}, y \in Yields2, t \in Plain}
  \cup {Def(<<y>>) : y \in UNION {Loops(<<z, Let("p", F)>>, <<z>>) : z \in Yields2}}
Modules ==
  {<<s, t>> : s \in Plain \cup Compound, t \in {Let("x", F), Valued("raise", F)}}
Classes ==
  {<<Class("C", base, <<Simple("pass"), Let("a", e), Function("m", <<"p", "x">>, <<Let("y", X), Valued("return", e)>>)>>),
     Value(Name("C"))>> :
     base \in {Absent, F}, e \in {G, X, Comprehension("genexp", X, Absent, <<CompFor("z", F, <<P>>)>>)}}
(* A from-import before which there are as many statements as it has names.*)
FromImports ==
  {<<Value(G), ImportFrom("m", <<Alias("a", x)>>), Value(Name("a"))>> : x \in {"", "x"}}
  \cup {<<Value(G), Value(F), ImportFrom("m", <<Alias("a", ""), Alias("b", "x")>>), Value(X)>>}
(* From-imports in branches and loops: some paths that meet have left the  *)
(* same number of operands, others not.                                    *)
FromM == ImportFrom("m", <<Alias("a", "x")>>)
OneLeft == <<Value(F), FromM>>
TwoLeft == <<Value(F), Value(X), ImportFrom("m", <<Alias("a", ""), Alias("x", "")>>)>>
Branching ==
  {Conditional(G, body, orelse) :
     body \in {OneLeft, TwoLeft, Append(OneLeft, Valued("raise", X))},
     orelse \in {<<>>, OneLeft, <<Value(F), FromM, Let("x", F)>>, <<Valued("raise", G)>>}}
  \cup UNION {Loops(body, orelse) :
     body \in {OneLeft, Append(OneLeft, Valued("raise", X)),
               <<Conditional(P, OneLeft, OneLeft)>>, <<Conditional(P, OneLeft, <<Valued("raise", G)>>)>>},
     orelse \in {<<>>, OneLeft}}
FromBranches ==
  {<<s, Value(X)>> : s \in Branching}
  \cup {Def(<<s, t>>) : s \in Branching, t \in Returns}
  \cup {Def(<<s, Valued("yield", X)>>) : s \in Branching}
  \cup {<<Class("C", Absent, <<Function("m", <<"p">>, <<s, Valued("yield", X)>>)>>)>> : s \in Branching}
Refused ==
  {Def(<<Simple("pass"), Function("k", <<>>, <<Simple("pass")>>)>>),
   <<Function("f", <<"p", "p">>, <<Simple("pass")>>)>>,
   <<Conditional(G, Def(<<Simple("pass")>>), <<>>)>>,
   <<Class("C", Absent, <<Value(G)>>)>>}

MCPrograms == Expressions \cup Functions2 \cup Modules \cup Classes \cup FromImports \cup FromBranches \cup Refused
FromPrograms ==
  {<<Value(G), ImportFrom("m", <<Alias("a", ""), Alias("b", "")>>), Value(Name("a")), Value(Name("b"))>>}
  \cup {<<ImportFrom("m", <<Alias("a", "")>>), s, Value(Name("a"))>> : s \in Plain}
=============================================================================
