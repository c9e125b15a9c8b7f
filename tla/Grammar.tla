------------------------------- MODULE Grammar -------------------------------
(***************************************************************************)
(* The reference for the parser: the grammar of the language, read as      *)
(* productions.  The trees of a sequence of tokens are those of every way  *)
(* to split it that a production allows; nothing is said of an order in    *)
(* which tokens are read, of precedences or of what is looked for ahead.   *)
(* The productions are those of docs/grammar.ebnf and of the implementation*)
(* brief.  Where the parser is known to differ from them the production is *)
(* the parser's, and says so.                                              *)
(***************************************************************************)
EXTENDS Parser, SequencesExt

From(s, p) == SubSeq(s, p, Len(s))
Until(s, p) == SubSeq(s, 1, p - 1)
Is(s, kinds) == Len(s) = Len(kinds) /\ \A i \in DOMAIN s : s[i].kind = kinds[i]
SpellingIn(s, p) == s[p].text
FirstKind(s) == KindIn(s, 1)
LastKind(s) == KindIn(s, Len(s))

(* How many groups or blocks are open before each token.                   *)
Opening == Openers \cup {"indent"}
Closing == Closers \cup {"dedent"}
DepthAt(s, p) ==
  Cardinality({q \in 1..(p - 1) : s[q].kind \in Opening})
  - Cardinality({q \in 1..(p - 1) : s[q].kind \in Closing})
(* The places of tokens of some kinds that are outside every group.        *)
Outer(s, kinds) == {p \in DOMAIN s : s[p].kind \in kinds /\ DepthAt(s, p) = 0}
OuterSeq(s, kinds) == SetToSortSeq(Outer(s, kinds), <)

(* All the sequences with one element of each set.                         *)
Selections(sets) == {f \in [DOMAIN sets -> UNION Range(sets)] : \A i \in DOMAIN sets : f[i] \in sets[i]}
(* The parts of s between places, and those from each of some places to    *)
(* the next.                                                               *)
Between(s, cuts) == [i \in 1..(Len(cuts) - 1) |-> SubSeq(s, cuts[i] + 1, cuts[i + 1] - 1)]
PartsFrom(s, starts) ==
  [i \in DOMAIN starts |->
     SubSeq(s, starts[i], IF i = Len(starts) THEN Len(s) ELSE starts[i + 1] - 1)]
Parted(s, kind) == Between(s, <<0>> \o OuterSeq(s, {kind}) \o <<Len(s) + 1>>)
(* A last, empty part is none ("[a,]").                                    *)
WithoutLast(parts) ==
  IF Len(parts) > 1 /\ parts[Len(parts)] = <<>> THEN SubSeq(parts, 1, Len(parts) - 1) ELSE parts
Listed(s) == IF s = <<>> THEN <<>> ELSE WithoutLast(Parted(s, ","))

-----------------------------------------------------------------------------
(* Expressions.                                                            *)

Below ==                     \* the level of the operands, for each level
  [or |-> "and", and |-> "not", not |-> "comparison", comparison |-> "sum", sum |-> "product",
   product |-> "unary", unary |-> "postfix"]
OperatorsOf ==
  [or |-> {"or"}, and |-> {"and"}, comparison |-> {"==", "!=", "<", "<=", ">", ">=", "in", "is", "not"},
   sum |-> {"+", "-"}, product |-> {"*", "/", "//", "%"}]
PrefixesOf == [not |-> {"not"}, unary |-> {"+", "-"}]

RECURSIVE Trees(_, _)
AnyExpression(s) == Trees("expression", s)
EntryTrees(s) ==
  UNION {AnyExpression(Until(s, q)) \X AnyExpression(From(s, q + 1)) : q \in Outer(s, {":"})}

(* left operator right, the operators of a level to the left.              *)
Infix(level, s) ==
  UNION {LET op == OperatorAt([tokens |-> s], p)
         IN {Binary(op, l, r) : l \in Trees(level, Until(s, p)),
                                r \in Trees(Below[level], From(s, p + Width(op)))} :
         p \in {q \in Outer(s, OperatorsOf[level]) \ {1} : OperatorAt([tokens |-> s], q) # "none"}}
Prefix(level, s) ==
  IF FirstKind(s) \notin PrefixesOf[level] THEN {}
  ELSE {Unary(FirstKind(s), x) : x \in Trees(level, From(s, 2))}

(* comp_for and comp_if, to the right.                                     *)
Filters(parts) == Selections([i \in DOMAIN parts |-> Trees("or", From(parts[i], 2))])
Clause(s, starts) ==
  IF ~(FirstKind(s) = "for" /\ KindIn(s, 2) = "name" /\ KindIn(s, 3) = "in") THEN {}
  ELSE {CompFor(SpellingIn(s, 2), it, ifs) :
          it \in Trees("or", SubSeq(s, 4, IF starts = <<>> THEN Len(s) ELSE starts[1] - 1)),
          ifs \in Filters(PartsFrom(s, starts))}
Clauses(parts) == Selections([i \in DOMAIN parts |-> Clause(parts[i], OuterSeq(parts[i], {"if"}))])
(* From the first for at p on.                                             *)
ClausesFrom(s, p, fors) ==
  IF \E q \in fors : q < p THEN {} ELSE Clauses(PartsFrom(s, SetToSortSeq(fors, <)))
Comprehended(kind, s, entry) ==
  UNION {{Comprehension(kind, x[1], x[2], c) :
            c \in ClausesFrom(s, p, Outer(s, {"for"})),
            x \in IF entry THEN EntryTrees(Until(s, p)) ELSE AnyExpression(Until(s, p)) \X {Absent}} :
         p \in Outer(s, {"for"})}

ListsOf(parts) == Selections([i \in DOMAIN parts |-> AnyExpression(parts[i])])
Lists(s) == ListsOf(Listed(s))
EntriesOf(parts) == Selections([i \in DOMAIN parts |-> EntryTrees(parts[i])])
Entries(s) == EntriesOf(Listed(s))

(* What stands between brackets of a kind.                                 *)
Bracketed(opener, s) ==
  CASE opener = "[" ->
         {Display("list", xs) : xs \in Lists(s)} \cup Comprehended("listcomp", s, FALSE)
    [] opener = "(" ->
         (IF s # <<>> /\ Outer(s, {","}) = {} THEN AnyExpression(s)
          ELSE {Display("tuple", xs) : xs \in Lists(s)})
         \cup Comprehended("genexp", s, FALSE)
    [] opener = "{" ->
         {Dict(xs) : xs \in Entries(s)}
         \cup (IF s = <<>> THEN {} ELSE {Display("set", xs) : xs \in Lists(s)})
         \cup Comprehended("setcomp", s, FALSE) \cup Comprehended("dictcomp", s, TRUE)

(* A formatted string: characters, doubled braces, and fields.  The pieces *)
(* are single characters and fields, as the parser's would be if it did not*)
(* put characters together.                                                *)
Wholly(t) ==
  IF t.ok /\ Len(t.tokens) > 2 THEN AnyExpression(SubSeq(t.tokens, 1, Len(t.tokens) - 2)) ELSE {}
FieldPieces(text) ==
  LET expressions(p) ==
        Wholly(Tokenize(Trimmed(Until(text, p))))
      end == Len(text) + 1
      bang == {p \in DOMAIN text : text[p] = "!" /\ At(text, p + 1) \in {"s", "r", "a"}}
      plain(p) == {"{", "}"} \cap Range(From(text, p)) = {}
      spec(p) == Lit(<<"str", From(text, p + 1)>>)
  IN {Formatted(x, "", Absent) : x \in expressions(end)}
     \cup UNION {{Formatted(x, "", spec(p)) : x \in expressions(p)} :
                 p \in {q \in DOMAIN text : text[q] = ":" /\ plain(q)}}
     \cup UNION {{Formatted(x, text[p + 1], Absent) : x \in expressions(p)} :
                 p \in {q \in bang : q + 1 = Len(text)}}
     \cup UNION {{Formatted(x, text[p + 1], spec(p + 2)) : x \in expressions(p)} :
                 p \in {q \in bang : At(text, q + 2) = ":" /\ plain(q + 2)}}
RECURSIVE Pieces(_)
Pieces(text) ==
  LET c == At(text, 1)
      AndThen(pieces, rest) == {<<x>> \o y : x \in pieces, y \in Pieces(rest)}
  IN CASE text = <<>> -> {<<>>}
       [] c \in {"{", "}"} /\ At(text, 2) = c -> AndThen({c}, From(text, 3))
       [] c = "{" ->
            UNION {AndThen(FieldPieces(SubSeq(text, 2, q - 1)), From(text, q + 1)) :
                   q \in {r \in DOMAIN text : text[r] = "}"}}
       [] c = "}" -> {}
       [] OTHER -> AndThen({c}, From(text, 2))
(* The parts of the parser's tree as pieces.                               *)
PiecesOf(parts) ==
  FlattenSeq([i \in DOMAIN parts |-> IF parts[i].e = "lit" THEN parts[i].value[2] ELSE <<parts[i]>>])

Atom(s) ==
  CASE Is(s, <<"name">>) -> {Name(SpellingIn(s, 1))}
    [] Len(s) = 1 /\ FirstKind(s) \in Literals -> {Literal(s[1])}
    [] Len(s) >= 2 /\ FirstKind(s) \in Openers /\ LastKind(s) \in Closers /\ Opener[LastKind(s)] = FirstKind(s) ->
         Bracketed(FirstKind(s), SubSeq(s, 2, Len(s) - 1))
    [] OTHER -> {}

(* [expression] ":" [expression]; the parser wants two colons where there  *)
(* is no first expression, and reads one more as a second slice.           *)
Optional(s) == IF s = <<>> THEN {Absent} ELSE AnyExpression(s)
Subscripts(container, s) ==
  {Index(container, i) : i \in AnyExpression(s)}
  \cup UNION {{Slice(container, x, y) : x \in IF q = 1 THEN {} ELSE AnyExpression(Until(s, q)),
                                       y \in Optional(From(s, q + 1))} : q \in Outer(s, {":"})}
  \cup IF KindIn(s, 1) = ":" /\ KindIn(s, 2) = ":"
       THEN {Slice(container, Absent, y) : y \in Optional(From(s, 3))} ELSE {}
Suffixed(s) ==
  UNION {LET inner == SubSeq(s, p + 1, Len(s) - 1)
         IN UNION {IF s[p].kind = "("
                   THEN {Call(f, xs) : xs \in Lists(inner)}
                        \cup {Call(f, <<g>>) : g \in Comprehended("genexp", inner, FALSE)}
                   ELSE Subscripts(f, inner) : f \in Trees("postfix", Until(s, p))} :
         p \in {q \in Outer(s, {"(", "["}) \ {1} :
                  LastKind(s) \in Closers /\ Opener[LastKind(s)] = s[q].kind}}
  \cup (IF Len(s) >= 3 /\ LastKind(s) = "name" /\ KindIn(s, Len(s) - 1) = "."
        THEN {Attribute(x, SpellingIn(s, Len(s))) : x \in Trees("postfix", Until(s, Len(s) - 1))}
        ELSE {})

(* or_test ["if" or_test "else" expression]                                *)
Conditionals(s) ==
  UNION {{IfExp(b, c, o) : b \in Trees("or", Until(s, p)),
                           c \in Trees("or", SubSeq(s, p + 1, q - 1)),
                           o \in AnyExpression(From(s, q + 1))} :
         <<p, q>> \in Outer(s, {"if"}) \X Outer(s, {"else"})}

(* Tokens that no expression has.                                          *)
NotInExpressions ==
  {"newline", "indent", "dedent", "=", "pass", "def", "class", "return", "yield", "while", "try",
   "except", "finally", "elif", "raise", "import", "from", "as", "with", "break", "continue"}
Trees(level, s) ==
  IF s = <<>> \/ \E i \in DOMAIN s : s[i].kind \in NotInExpressions THEN {}
  ELSE CASE level = "expression" -> Trees("or", s) \cup Conditionals(s)
         [] level = "postfix" -> Atom(s) \cup Suffixed(s)
         [] level \in DOMAIN PrefixesOf -> Prefix(level, s) \cup Trees(Below[level], s)
         [] OTHER -> Infix(level, s) \cup Trees(Below[level], s)
-----------------------------------------------------------------------------
(* Statements.  A statement's tokens include the newline that ends it.     *)

RECURSIVE Statements(_, _)
RECURSIVE StatementTrees(_, _)

(* The places where a statement may end.  Every statement of the documents *)
(* ends with its line (Python68K_Full_Agent_Implementation_Brief.md:793);  *)
(* this follows the parser, which asks for no newline after a yield        *)
(* (parser_statement.c:743-760): [yield 1 yield 2] is two statements.      *)
Ends(s) ==
  {p \in DOMAIN s : /\ DepthAt(s, p + 1) = 0
                    /\ \/ s[p].kind \in {"newline", "dedent"}
                       \/ \E i \in 1..p : s[i].kind = "yield"}
(* NEWLINE INDENT statements DEDENT, or one statement.  The brief (line    *)
(* 840) has a simple statement there; this follows the parser, which takes *)
(* one of any kind (parser_statement.c:937-981): [if a: if b: c].          *)
Suites(s, c) ==
  {<<x>> : x \in StatementTrees(s, c)}
  \cup IF Len(s) > 2 /\ KindIn(s, 1) = "newline" /\ KindIn(s, 2) = "indent" /\ LastKind(s) = "dedent"
       THEN Statements(SubSeq(s, 3, Len(s) - 1), c) ELSE {}
(* What a colon divides into a head, whose trees H gives, and a suite.     *)
Suited(s, c, H(_)) ==
  UNION {H(Until(s, p)) \X Suites(From(s, p + 1), c) : p \in Outer(s, {":"})}
NoHead(s) == IF s = <<>> THEN {Absent} ELSE {}
(* The ways to cut s before one of some keywords, or not at all.           *)
Cuts(s, keywords) == Outer(s, keywords) \cup {Len(s) + 1}
ElseTrees(s, c) ==
  IF s = <<>> THEN {<<>>} ELSE {x[2] : x \in Suited(From(s, 2), c, NoHead)}

TupleTrees(s) ==
  IF Outer(s, {","}) = {} THEN AnyExpression(s)
  ELSE IF s = <<>> THEN {} ELSE {Display("tuple", xs) : xs \in Lists(s)}
NameTrees(s) == IF Is(s, <<"name">>) THEN {Name(SpellingIn(s, 1))} ELSE {}
NameLists(s) == {xs \in Lists(s) : \A i \in DOMAIN xs : xs[i].e = "name"}
TargetTrees(s) ==
  IF s = <<>> THEN {}
  ELSE IF Outer(s, {","}) = {} THEN NameTrees(s) ELSE {Display("tuple", xs) : xs \in NameLists(s)}
ForTargets(s) ==
  TargetTrees(s) \cup IF FirstKind(s) = "(" /\ LastKind(s) = ")" THEN TargetTrees(SubSeq(s, 2, Len(s) - 1)) ELSE {}
Named(kind, s) ==            \* [as NAME] and the like
  IF s = <<>> THEN {""} ELSE IF Is(s, <<kind, "name">>) THEN {SpellingIn(s, 2)} ELSE {}

RECURSIVE IfTrees(_, _)
IfTrees(s, c) ==
  UNION {{Conditional(x[1], x[2], o) :
            x \in Suited(SubSeq(s, 2, p - 1), c, AnyExpression),
            o \in IF KindIn(s, p) = "elif" THEN {<<y>> : y \in IfTrees(From(s, p), c)}
                  ELSE ElseTrees(From(s, p), c)} : p \in Cuts(s, {"elif", "else"}) \ {1}}
WhileTrees(s, c) ==
  UNION {{WhileLoop(x[1], x[2], o) : x \in Suited(SubSeq(s, 2, p - 1), InLoop(c), AnyExpression),
                                     o \in ElseTrees(From(s, p), c)} : p \in Cuts(s, {"else"})}
ForHeads(s) ==
  UNION {ForTargets(Until(s, p)) \X AnyExpression(From(s, p + 1)) : p \in Outer(s, {"in"})}
ForTrees(s, c) ==
  UNION {{ForLoop(x[1][1], x[1][2], x[2], o) : x \in Suited(SubSeq(s, 2, p - 1), InLoop(c), ForHeads),
                                               o \in ElseTrees(From(s, p), c)} : p \in Cuts(s, {"else"})}
Parameters(s) ==
  IF KindIn(s, 1) = "name" /\ KindIn(s, 2) = "(" /\ LastKind(s) = ")"
  THEN NameTrees(Until(s, 2)) \X NameLists(SubSeq(s, 3, Len(s) - 1)) ELSE {}
DefTrees(s) ==
  {Function(x[1][1].name, [i \in DOMAIN x[1][2] |-> x[1][2][i].name], x[2]) :
     x \in Suited(From(s, 2), InFunction, Parameters)}
Bases(s) ==
  IF Is(s, <<"name">>) \/ Is(s, <<"name", "(", ")">>) THEN {<<SpellingIn(s, 1), Absent>>}
  ELSE IF Len(s) > 3 /\ KindIn(s, 1) = "name" /\ KindIn(s, 2) = "(" /\ LastKind(s) = ")"
  THEN {<<SpellingIn(s, 1), x>> : x \in AnyExpression(SubSeq(s, 3, Len(s) - 1))} ELSE {}
ClassTrees(s, c) ==
  {Class(x[1][1], x[1][2], x[2]) :
     x \in {y \in Suited(From(s, 2), c, Bases) : \A i \in DOMAIN y[2] : InClass(y[2][i])}}
AsHeads(s) ==
  AnyExpression(s) \X {""}
  \cup UNION {AnyExpression(Until(s, p)) \X Named("as", From(s, p)) : p \in Outer(s, {"as"})}
ExceptHeads(s) == AsHeads(s) \cup IF s = <<>> THEN {<<Absent, "">>} ELSE {}
Handlers(parts, c) ==
  Selections([i \in DOMAIN parts |->
    {Except(x[1][1], x[1][2], x[2]) : x \in Suited(From(parts[i], 2), c, ExceptHeads)}])
HandlersIn(s, c) == Handlers(PartsFrom(s, OuterSeq(s, {"except"})), c)
TryTrees(s, c) ==
  UNION {{TryBlock(b[2], h, f) :
            b \in Suited(SubSeq(s, 2, pq[1] - 1), c, NoHead),
            h \in HandlersIn(SubSeq(s, pq[1], pq[2] - 1), c), f \in ElseTrees(From(s, pq[2]), c)} :
         pq \in {r \in Cuts(s, {"except", "finally"}) \X Cuts(s, {"finally"}) :
                   /\ r[1] <= r[2] /\ r[1] <= Len(s)
                   /\ r[1] < r[2] => s[r[1]].kind = "except"
                   /\ \A i \in Outer(s, {"except"}) : i >= r[1]}}
WithTrees(s, c) ==
  {WithBlock(x[1][1], x[1][2], x[2]) : x \in Suited(From(s, 2), c, AsHeads)}

Aliases(s) ==
  UNION {{Alias(SpellingIn(s, 1), y) : y \in Named("as", From(s, 2))} :
         z \in IF FirstKind(s) = "name" THEN {1} ELSE {}}
AliasLists(parts) == Selections([i \in DOMAIN parts |-> Aliases(parts[i])])
FromTrees(s) ==
  IF ~(Len(s) > 3 /\ KindIn(s, 2) = "name" /\ KindIn(s, 3) = "import") THEN {}
  ELSE {ImportFrom(SpellingIn(s, 2), as) : as \in AliasLists(Parted(From(s, 4), ","))}
AssignTrees(s) ==
  UNION {{Assignment(t, x) :
            t \in {y \in TupleTrees(Until(s, p)) : y.e \in {"name", "index", "attribute"} \/ IsNameTuple(y)},
            x \in TupleTrees(From(s, p + 1))} : p \in Outer(s, {"="})}
AugmentedTrees(s) ==
  UNION {{Augmented(AugmentedOps[s[p].kind], t, x) :
            t \in {y \in AnyExpression(Until(s, p)) : y.e \in {"name", "index", "attribute"}},
            x \in AnyExpression(From(s, p + 1))} : p \in Outer(s, DOMAIN AugmentedOps)}

(* What may come after [return].  The documents have an expression, or     *)
(* nothing, and call [return a, b] a syntax error (docs/grammar.ebnf:33,   *)
(* docs/decisions.md:321 and 623).  This follows the parser                *)
(* (parser_statement.c:725-741) and tests/unit/test_statements.c:72-105,   *)
(* which have it return a tuple.                                           *)
ReturnTrees(s) == IF s = <<>> THEN {Absent} ELSE TupleTrees(s)
(* What may come after [yield].  docs/grammar.ebnf:54 has an expression;   *)
(* this follows the parser (parser_statement.c:743-759) and the tests      *)
(* (docs/testing.md:27), which also have a bare one.                       *)
YieldTrees(s) == Optional(s)

(* Statements on one line, without the newline.                            *)
SimpleTrees(s, c) ==
  LET rest == From(s, 2)
  IN CASE FirstKind(s) = "import" -> {Import(a) : a \in Aliases(rest)}
       [] FirstKind(s) = "from" -> FromTrees(s)
       [] FirstKind(s) = "raise" -> {Valued("raise", x) : x \in Optional(rest)}
       [] FirstKind(s) = "return" ->
            IF c.function THEN {Valued("return", x) : x \in ReturnTrees(rest)} ELSE {}
       [] FirstKind(s) \in {"break", "continue"} ->
            IF rest = <<>> /\ c.loops > 0 THEN {Simple(FirstKind(s))} ELSE {}
       [] FirstKind(s) = "pass" -> IF rest = <<>> THEN {Simple("pass")} ELSE {}
       [] OTHER -> AssignTrees(s) \cup AugmentedTrees(s) \cup {Valued("expr", x) : x \in AnyExpression(s)}
CompoundTrees(s, c) ==
  CASE FirstKind(s) = "if" -> IfTrees(s, c)
    [] FirstKind(s) = "while" -> WhileTrees(s, c)
    [] FirstKind(s) = "for" -> ForTrees(s, c)
    [] FirstKind(s) = "def" -> DefTrees(s)
    [] FirstKind(s) = "class" -> ClassTrees(s, c)
    [] FirstKind(s) = "try" -> TryTrees(s, c)
    [] FirstKind(s) = "with" -> WithTrees(s, c)
    [] FirstKind(s) = "yield" ->
         IF c.function THEN {Valued("yield", x) : x \in YieldTrees(From(s, 2))} ELSE {}
    [] OTHER -> {}
StatementTrees(s, c) ==
  CompoundTrees(s, c)
  \cup IF LastKind(s) = "newline" THEN SimpleTrees(SubSeq(s, 1, Len(s) - 1), c) ELSE {}
Statements(s, c) ==
  CASE s = <<>> -> {<<>>}
    [] FirstKind(s) = "newline" -> Statements(From(s, 2), c)
    [] OTHER ->
         UNION {{<<x>> \o y : x \in StatementTrees(Until(s, p + 1), c), y \in Statements(From(s, p + 1), c)} :
                p \in Ends(s)}
(* The trees of a whole text's tokens, up to the eof.                      *)
Modules(tokens) == Statements(SubSeq(tokens, 1, Len(tokens) - 1), Outside)
=============================================================================
