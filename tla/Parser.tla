------------------------------- MODULE Parser -------------------------------
(***************************************************************************)
(* The parsers of expressions (parser_expression.c, precedence climbing)   *)
(* and of statements (parser_statement.c, recursive descent).  A parse     *)
(* function takes the tokens and a position and gives the tree it found    *)
(* and the position after it; position 0 is a syntax error.                *)
(***************************************************************************)
EXTENDS Integers, Sequences, Syntax, Tokenizer

Node(tree, next) == [tree |-> tree, next |-> next]
SyntaxError == Node(Absent, 0)
Failed(r) == r.next = 0
(* Go on with K from a node, unless it is an error.                        *)
Then(r, K(_)) == IF Failed(r) THEN r ELSE K(r)

Kind(g, p) == KindIn(g.tokens, p)
Spelling(g, p) == g.tokens[p].text
(* The node of r, if a token of this kind follows it, and the token passed.*)
Expect(g, r, kind) ==
  IF ~Failed(r) /\ Kind(g, r.next) = kind THEN [r EXCEPT !.next = @ + 1] ELSE SyntaxError
(* A name at p.                                                            *)
ParseName(g, p) ==
  IF Kind(g, p) = "name" THEN Node(Name(Spelling(g, p)), p + 1) ELSE SyntaxError

-----------------------------------------------------------------------------
(* Expressions.                                                            *)

Comparisons == {"==", "!=", "<", "<=", ">", ">=", "in", "not in", "is", "is not"}
Precedence(op) ==
  CASE op = "or" -> 1
    [] op = "and" -> 2
    [] op \in Comparisons -> 3
    [] op \in {"+", "-"} -> 4
    [] op \in {"*", "/", "//", "%"} -> 5
    [] OTHER -> 0
(* The binary operator at p, which two tokens may spell.                   *)
OperatorAt(g, p) ==
  CASE Kind(g, p) = "not" /\ Kind(g, p + 1) = "in" -> "not in"
    [] Kind(g, p) = "is" /\ Kind(g, p + 1) = "not" -> "is not"
    [] Kind(g, p) = "not" -> "none"
    [] OTHER -> Kind(g, p)
Width(op) == IF op \in {"not in", "is not"} THEN 2 ELSE 1

(* py68_integer_value: the one value beyond the positive range wraps.      *)
LiteralValue(number) ==
  IF IntegerValue(number) = IntLimit THEN -IntLimit ELSE IntegerValue(number)
Literal(token) ==
  CASE token.kind = "integer" -> Lit(<<"int", LiteralValue(token.text)>>)
    [] token.kind = "float" -> Lit(<<"float", token.text>>)
    [] token.kind = "string" -> Lit(<<"str", token.text>>)
    [] token.kind = "True" -> Lit(<<"bool", TRUE>>)
    [] token.kind = "False" -> Lit(<<"bool", FALSE>>)
    [] token.kind = "None" -> Lit(<<"none">>)
Literals == {"integer", "float", "string", "True", "False", "None"}

(* Where an expression or an or_test is read within another.               *)
ParseExpression(g, p) == g.rule["expression", p]
ParseOrTest(g, p) == g.rule["or_test", p]

(* The clauses of a comprehension: their iterables and filters are         *)
(* or_tests, so that an if after one is a filter.                          *)
RECURSIVE ParseIfs(_, _)
ParseIfs(g, r) ==
  IF Kind(g, r.next) # "if" THEN r
  ELSE Then(ParseOrTest(g, r.next + 1), LAMBDA f :
         ParseIfs(g, Node([r.tree EXCEPT !.ifs = Append(@, f.tree)], f.next)))
ParseClause(g, p) ==
  Then(Expect(g, ParseName(g, p + 1), "in"), LAMBDA x :
    Then(ParseOrTest(g, x.next), LAMBDA it :
      ParseIfs(g, Node(CompFor(x.tree.name, it.tree, <<>>), it.next))))
RECURSIVE ParseFors(_, _, _)
ParseFors(g, p, clauses) ==
  IF Kind(g, p) # "for" THEN Node(clauses, p)
  ELSE Then(ParseClause(g, p), LAMBDA c : ParseFors(g, c.next, Append(clauses, c.tree)))
ParseComprehension(g, kind, elt, value, p, closer) ==
  Then(Expect(g, ParseFors(g, p, <<>>), closer), LAMBDA fors :
    Node(Comprehension(kind, elt, value, fors.tree), fors.next))

(* An element of a display, an argument, or an entry of a dict.            *)
ParseItem(g, p, entry) ==
  IF ~entry THEN ParseExpression(g, p)
  ELSE Then(Expect(g, ParseExpression(g, p), ":"), LAMBDA k :
         Then(ParseExpression(g, k.next), LAMBDA v : Node(<<k.tree, v.tree>>, v.next)))
(* What follows the items so far: the end, or a comma and then the end or  *)
(* an item.                                                                *)
RECURSIVE ParseRest(_, _, _, _, _)
ParseRest(g, items, p, closer, entry) ==
  CASE Kind(g, p) = closer -> Node(items, p + 1)
    [] Kind(g, p) = "," /\ Kind(g, p + 1) = closer -> Node(items, p + 2)
    [] Kind(g, p) = "," ->
         Then(ParseItem(g, p + 1, entry), LAMBDA i :
           ParseRest(g, Append(items, i.tree), i.next, closer, entry))
    [] OTHER -> SyntaxError

ParseDisplay(g, kind, first, p, closer) ==
  Then(ParseRest(g, <<first>>, p, closer, FALSE), LAMBDA r :
    Node(Display(kind, r.tree), r.next))

ParseList(g, p) ==
  IF Kind(g, p + 1) = "]" THEN Node(Display("list", <<>>), p + 2)
  ELSE Then(ParseExpression(g, p + 1), LAMBDA first :
         IF Kind(g, first.next) = "for"
         THEN ParseComprehension(g, "listcomp", first.tree, Absent, first.next, "]")
         ELSE ParseDisplay(g, "list", first.tree, first.next, "]"))

(* A tuple, a generator expression, or an expression in parentheses.       *)
ParseParenthesis(g, p) ==
  IF Kind(g, p + 1) = ")" THEN Node(Display("tuple", <<>>), p + 2)
  ELSE Then(ParseExpression(g, p + 1), LAMBDA first :
         CASE Kind(g, first.next) = "for" ->
                ParseComprehension(g, "genexp", first.tree, Absent, first.next, ")")
           [] Kind(g, first.next) = "," -> ParseDisplay(g, "tuple", first.tree, first.next, ")")
           [] OTHER -> Expect(g, first, ")"))

ParseEntries(g, first) ==
  Then(ParseRest(g, <<first.tree>>, first.next, "}", TRUE), LAMBDA r :
    Node(Dict(r.tree), r.next))
ParseBraces(g, p) ==
  IF Kind(g, p + 1) = "}" THEN Node(Dict(<<>>), p + 2)
  ELSE Then(ParseExpression(g, p + 1), LAMBDA first :
         CASE Kind(g, first.next) = ":" ->
                Then(ParseExpression(g, first.next + 1), LAMBDA v :
                  IF Kind(g, v.next) = "for"
                  THEN ParseComprehension(g, "dictcomp", first.tree, v.tree, v.next, "}")
                  ELSE ParseEntries(g, Node(<<first.tree, v.tree>>, v.next)))
           [] Kind(g, first.next) = "for" ->
                ParseComprehension(g, "setcomp", first.tree, Absent, first.next, "}")
           [] OTHER -> ParseDisplay(g, "set", first.tree, first.next, "}"))

-----------------------------------------------------------------------------
(* Formatted strings.                                                      *)

(* Where the replacement field of a text whose expression begins at p ends:*)
(* the expression ends before end, the field at the brace at close.  Only  *)
(* braces nest; quotes and brackets are not looked at.                     *)
Field(end, conversion, spec, close) ==
  [end |-> end, conversion |-> conversion, spec |-> spec, close |-> close]
NoField == Field(0, "", Absent, 0)
SpecField(text, colon, end, conversion) ==
  LET close == Past(text, colon + 1, {c \in {text[i] : i \in DOMAIN text} : c \notin {"{", "}"}})
  IN IF At(text, close) # "}" THEN NoField
     ELSE Field(end, conversion, Lit(<<"str", SubSeq(text, colon + 1, close - 1)>>), close)
ConversionField(text, p) ==
  CASE At(text, p + 1) \notin {"s", "r", "a"} -> NoField
    [] At(text, p + 2) = ":" -> SpecField(text, p + 2, p, At(text, p + 1))
    [] At(text, p + 2) = "}" -> Field(p, At(text, p + 1), Absent, p + 2)
    [] OTHER -> NoField
(* A bug to detect: the first closing brace ends the field.                *)
RECURSIVE FieldUnnested(_, _, _)
FieldUnnested(text, p, depth) ==
  CASE At(text, p) = "" -> NoField
    [] At(text, p) = "}" -> Field(p, "", Absent, p)
    [] At(text, p) = "!" -> ConversionField(text, p)
    [] At(text, p) = ":" -> SpecField(text, p, p, "")
    [] OTHER -> FieldUnnested(text, p + 1, depth)
RECURSIVE FieldFrom(_, _, _)
FieldFrom(text, p, depth) ==
  LET c == At(text, p)
  IN CASE c = "" -> NoField
       [] c = "{" -> FieldFrom(text, p + 1, depth + 1)
       [] c = "}" /\ depth > 0 -> FieldFrom(text, p + 1, depth - 1)
       [] c = "}" /\ depth = 0 -> Field(p, "", Absent, p)
       [] c = "!" /\ depth = 0 -> ConversionField(text, p)
       [] c = ":" /\ depth = 0 -> SpecField(text, p, p, "")
       [] OTHER -> FieldFrom(text, p + 1, depth)

(* The expression of a field is tokenized on its own, without the blanks   *)
(* around it, and must be followed by the end.                             *)
Trimmed(text) ==
  LET kept == {i \in DOMAIN text : text[i] \notin Spaces}
  IN IF kept = {} THEN <<>>
     ELSE SubSeq(text, CHOOSE i \in kept : \A j \in kept : i <= j,
                       CHOOSE i \in kept : \A j \in kept : j <= i)
TokensOrNone(t) ==
  IF t.ok /\ \A i \in DOMAIN t.tokens : t.tokens[i].kind # "fstring" THEN t.tokens ELSE <<>>
FieldTokens(text) == TokensOrNone(Tokenize(Trimmed(text)))
ParseWhole(g) == Expect(g, Expect(g, ParseExpression(g, 1), "newline"), "eof")

(* The parts of a formatted string; doubled braces stand for one.          *)
Text(parts, text, from, to) ==
  IF from = to THEN parts ELSE Append(parts, Lit(<<"str", SubSeq(text, from, to - 1)>>))
RECURSIVE Parts(_, _, _, _, _)
(* What follows the parts before a brace whose field is this one.          *)
FieldParts(g, text, p, before, field) ==
  IF field = NoField THEN SyntaxError
  ELSE Then(g.field[SubSeq(text, p + 1, field.end - 1)], LAMBDA v :
         Parts(g, text, field.close + 1, field.close + 1,
               Append(before, Formatted(v.tree, field.conversion, field.spec))))
Parts(g, text, p, from, parts) ==
  LET c == At(text, p)
      before == Text(parts, text, from, p)
  IN CASE c = "" -> Node(Joined(before), p)
       [] c \in {"{", "}"} /\ At(text, p + 1) = c ->
            Parts(g, text, p + 2, p + 2, Text(before, text, p, p + 1))
       [] c = "}" -> SyntaxError
       [] c = "{" -> FieldParts(g, text, p, before, FieldFrom(text, p + 1, 0))
       [] OTHER -> Parts(g, text, p + 1, from, parts)
ParseFString(g, p) ==
  Then(Parts(g, Spelling(g, p), 1, 1, <<>>), LAMBDA f : Node(f.tree, p + 1))

-----------------------------------------------------------------------------
ParsePrimary(g, p) ==
  CASE Kind(g, p) \in Literals -> Node(Literal(g.tokens[p]), p + 1)
    [] Kind(g, p) = "fstring" -> ParseFString(g, p)
    [] Kind(g, p) = "name" -> ParseName(g, p)
    [] Kind(g, p) = "[" -> ParseList(g, p)
    [] Kind(g, p) = "(" -> ParseParenthesis(g, p)
    [] Kind(g, p) = "{" -> ParseBraces(g, p)
    [] OTHER -> SyntaxError

(* A generator expression may be a call's only argument.                   *)
ParseArguments(g, p) ==
  IF Kind(g, p) = ")" THEN Node(<<>>, p + 1)
  ELSE Then(ParseExpression(g, p), LAMBDA first :
         IF Kind(g, first.next) = "for"
         THEN Then(ParseComprehension(g, "genexp", first.tree, Absent, first.next, ")"),
                   LAMBDA x : Node(<<x.tree>>, x.next))
         ELSE ParseRest(g, <<first.tree>>, first.next, ")", FALSE))

(* The end of a slice that begins with start, from p on.                   *)
ParseSliceEnd(g, container, start, p) ==
  IF Kind(g, p) = "]" THEN Node(Slice(container, start, Absent), p + 1)
  ELSE Then(Expect(g, ParseExpression(g, p), "]"), LAMBDA end :
         Node(Slice(container, start, end.tree), end.next))
(* A slice without a start has to begin with two colons.                   *)
ParseSubscript(g, container, p) ==
  CASE Kind(g, p) = ":" /\ Kind(g, p + 1) = ":" -> ParseSliceEnd(g, container, Absent, p + 2)
    [] Kind(g, p) = ":" -> SyntaxError
    [] OTHER ->
         Then(ParseExpression(g, p), LAMBDA i :
           CASE Kind(g, i.next) = "]" -> Node(Index(container, i.tree), i.next + 1)
             [] Kind(g, i.next) = ":" -> ParseSliceEnd(g, container, i.tree, i.next + 1)
             [] OTHER -> SyntaxError)

RECURSIVE ParseSuffixes(_, _)
ParseSuffixes(g, r) ==
  Then(r, LAMBDA node :
    CASE Kind(g, node.next) = "(" ->
           ParseSuffixes(g, Then(ParseArguments(g, node.next + 1), LAMBDA a :
                               Node(Call(node.tree, a.tree), a.next)))
      [] Kind(g, node.next) = "[" ->
           ParseSuffixes(g, ParseSubscript(g, node.tree, node.next + 1))
      [] Kind(g, node.next) = "." ->
           ParseSuffixes(g, Then(ParseName(g, node.next + 1), LAMBDA x :
                               Node(Attribute(node.tree, x.tree.name), x.next)))
      [] OTHER -> node)
ParsePostfix(g, p) == ParseSuffixes(g, ParsePrimary(g, p))

RECURSIVE ParsePrecedence(_, _, _)
RECURSIVE ParseUnary(_, _)
ParseUnary(g, p) ==
  IF Kind(g, p) \notin {"+", "-"} THEN ParsePostfix(g, p)
  ELSE Then(ParseUnary(g, p + 1), LAMBDA x : Node(Unary(Kind(g, p), x.tree), x.next))

(* The operators that follow an operand and bind at least as tightly as    *)
(* minimum, all of them to the left.                                       *)
RECURSIVE ParseOperators(_, _, _)
ParseOperators(g, r, minimum) ==
  Then(r, LAMBDA left :
    LET op == OperatorAt(g, left.next)
    IN IF Precedence(op) < minimum THEN left
       ELSE ParseOperators(g,
              Then(ParsePrecedence(g, left.next + Width(op), Precedence(op) + 1),
                   LAMBDA right : Node(Binary(op, left.tree, right.tree), right.next)),
              minimum))
(* A bug to detect: a prefix not is taken wherever an operand is.          *)
ParseOperandAnywhere(g, p, minimum) ==
  IF Kind(g, p) = "not"
  THEN Then(ParsePrecedence(g, p + 1, 3), LAMBDA x : Node(Unary("not", x.tree), x.next))
  ELSE ParseUnary(g, p)
(* A prefix not binds less tightly than a comparison.                      *)
ParseOperand(g, p, minimum) ==
  IF Kind(g, p) = "not" /\ minimum <= 3 /\ Kind(g, p + 1) # "in"
  THEN Then(ParsePrecedence(g, p + 1, 3), LAMBDA x : Node(Unary("not", x.tree), x.next))
  ELSE ParseUnary(g, p)
ParsePrecedence(g, p, minimum) == ParseOperators(g, ParseOperand(g, p, minimum), minimum)

ParseConditional(g, p) ==
  Then(ParseOrTest(g, p), LAMBDA body :
    IF Kind(g, body.next) # "if" THEN body
    ELSE Then(Expect(g, ParseOrTest(g, body.next + 1), "else"), LAMBDA condition :
           Then(ParseExpression(g, condition.next), LAMBDA orelse :
             Node(IfExp(body.tree, condition.tree, orelse.tree), orelse.next))))

(* The rules of the tokens ts as functions of a position; field gives the  *)
(* expression that the text of a replacement field holds.                  *)
Reader(ts, field) ==
  LET rule[x \in {"expression", "or_test"} \X Nat] ==
        LET g == [tokens |-> ts, rule |-> rule, field |-> field]
        IN IF x[1] = "or_test" THEN ParsePrecedence(g, x[2], 1) ELSE ParseConditional(g, x[2])
  IN [tokens |-> ts, rule |-> rule, field |-> field]
ParseField(text) ==
  IF Trimmed(text) = <<>> THEN SyntaxError ELSE ParseWhole(Reader(FieldTokens(text), <<>>))
GrammarOf(ts) == Reader(ts, [text \in Seq(STRING) |-> ParseField(text)])

-----------------------------------------------------------------------------
(* Statements.  c tells whether a function is around and how many loops    *)
(* are, within that function.                                              *)

Outside == [function |-> FALSE, loops |-> 0]
InLoop(c) == [c EXCEPT !.loops = @ + 1]
InFunction == [function |-> TRUE, loops |-> 0]

LineEnds == {"newline", "dedent", "eof", "none"}
AugmentedOps == [op \in {"+=", "-=", "*=", "/=", "//=", "%="} |->
  CASE op = "+=" -> "+" [] op = "-=" -> "-" [] op = "*=" -> "*" [] op = "/=" -> "/"
    [] op = "//=" -> "//" [] op = "%=" -> "%"]
(* py68_statement_needs_newline: not for a yield.                          *)
NeedsNewline(s) ==
  s.s \in {"assign", "augassign", "return", "break", "continue", "pass", "raise", "import",
           "import_from", "expr"}

RECURSIVE ParseStatement(_, _, _)
RECURSIVE ParseBlock(_, _, _, _)

(* The statements of an indented suite, up to the dedent.                  *)
ParseBlock(g, p, c, body) ==
  CASE Kind(g, p) = "dedent" -> Node(body, p + 1)
    [] Kind(g, p) \in {"eof", "none"} -> SyntaxError
    [] Kind(g, p) = "newline" -> ParseBlock(g, p + 1, c, body)
    [] OTHER ->
         Then(ParseStatement(g, p, c), LAMBDA s :
           CASE Kind(g, s.next) = "newline" ->
                  ParseBlock(g, s.next + 1, c, Append(body, s.tree))
             [] Kind(g, s.next) = "dedent" \/ ~NeedsNewline(s.tree) ->
                  ParseBlock(g, s.next, c, Append(body, s.tree))
             [] OTHER -> SyntaxError)
(* py68_parse_suite, after its colon: a block, or one statement of any kind*)
(* on the line.                                                            *)
EndOfLine(g, s) ==
  IF NeedsNewline(s.tree) THEN Expect(g, s, "newline") ELSE s
ParseSuite(g, p, c) ==
  IF Kind(g, p) = "newline"
  THEN IF Kind(g, p + 1) = "indent" THEN ParseBlock(g, p + 2, c, <<>>) ELSE SyntaxError
  ELSE Then(ParseStatement(g, p, c), LAMBDA s :
         Then(EndOfLine(g, s), LAMBDA end : Node(<<end.tree>>, end.next)))
(* The colon and the suite after the node r, and what K makes of them.     *)
SuiteAfter(g, r, c, K(_, _)) ==
  Then(Expect(g, r, ":"), LAMBDA head :
    Then(ParseSuite(g, head.next, c), LAMBDA body : Node(K(head.tree, body.tree), body.next)))
Keyword(p) == Node(Absent, p + 1)
(* The suite of an optional clause, or none.                               *)
ParseClauseSuite(g, p, keyword, c) ==
  IF Kind(g, p) # keyword THEN Node(<<>>, p)
  ELSE SuiteAfter(g, Keyword(p), c, LAMBDA head, body : body)

(* An expression, or several with commas, which make a tuple.              *)
RECURSIVE ParseTupleRest(_, _)
ParseTupleRest(g, r) ==
  IF Kind(g, r.next) # "," THEN r
  ELSE IF Kind(g, r.next + 1) \in LineEnds THEN [r EXCEPT !.next = @ + 1]
  ELSE Then(ParseExpression(g, r.next + 1), LAMBDA x :
         ParseTupleRest(g, Node(Append(r.tree, x.tree), x.next)))
ParseExpressionList(g, p) ==
  Then(ParseExpression(g, p), LAMBDA first :
    IF Kind(g, first.next) # "," THEN first
    ELSE Then(ParseTupleRest(g, Node(<<first.tree>>, first.next)), LAMBDA xs :
           Node(Display("tuple", xs.tree), xs.next)))

(* Names with commas between them, from the first; a lone comma may end    *)
(* them.                                                                   *)
RECURSIVE ParseNames(_, _)
ParseNames(g, r) ==
  CASE Kind(g, r.next) # "," -> r
    [] Kind(g, r.next + 1) = "name" ->
         ParseNames(g, Node(Append(r.tree, Name(Spelling(g, r.next + 1))), r.next + 2))
    [] Kind(g, r.next + 1) = "*" -> SyntaxError
    [] OTHER -> [r EXCEPT !.next = @ + 1]
ParseNameTuple(g, p) ==
  Then(ParseName(g, p), LAMBDA x : ParseNames(g, Node(<<x.tree>>, x.next)))
(* A target: one name, or a tuple of names.                                *)
ParseTarget(g, p) ==
  Then(ParseName(g, p), LAMBDA x :
    IF Kind(g, x.next) # "," THEN x
    ELSE Then(ParseNameTuple(g, p), LAMBDA xs : Node(Display("tuple", xs.tree), xs.next)))
ParseForTarget(g, p) ==
  IF Kind(g, p) = "(" THEN Expect(g, ParseTarget(g, p + 1), ")") ELSE ParseTarget(g, p)

-----------------------------------------------------------------------------
(* One operator per keyword.                                               *)

ParseAlias(g, p) ==
  Then(ParseName(g, p), LAMBDA x :
    IF Kind(g, x.next) # "as" THEN Node(Alias(x.tree.name, ""), x.next)
    ELSE Then(ParseName(g, x.next + 1), LAMBDA as :
           Node(Alias(x.tree.name, as.tree.name), as.next)))
ParseImport(g, p) ==
  Then(ParseAlias(g, p + 1), LAMBDA a : Node(Import(a.tree), a.next))
RECURSIVE ParseAliases(_, _, _)
ParseAliases(g, p, aliases) ==
  Then(ParseAlias(g, p), LAMBDA a :
    IF Kind(g, a.next) = "," THEN ParseAliases(g, a.next + 1, Append(aliases, a.tree))
    ELSE Node(Append(aliases, a.tree), a.next))
ParseFrom(g, p) ==
  Then(Expect(g, ParseName(g, p + 1), "import"), LAMBDA m :
    Then(ParseAliases(g, m.next, <<>>), LAMBDA as :
      Node(ImportFrom(m.tree.name, as.tree), as.next)))

(* raise, return and yield: nothing may follow them on the line.           *)
ParseRaise(g, p) ==
  IF Kind(g, p + 1) \in LineEnds THEN Node(Valued("raise", Absent), p + 1)
  ELSE Then(ParseExpression(g, p + 1), LAMBDA x : Node(Valued("raise", x.tree), x.next))
ParseResult(g, p, c, x) ==
  CASE ~c.function -> SyntaxError
    [] Kind(g, p + 1) = "newline" -> Node(Valued(Kind(g, p), Absent), p + 1)
    [] OTHER -> Then(x, LAMBDA value : Node(Valued(Kind(g, p), value.tree), value.next))
ParseReturn(g, p, c) == ParseResult(g, p, c, ParseExpressionList(g, p + 1))
ParseYield(g, p, c) == ParseResult(g, p, c, ParseExpression(g, p + 1))

ParseIf(g, p, c) ==
  SuiteAfter(g, ParseExpression(g, p + 1), c, LAMBDA x, body : Conditional(x, body, <<>>))
(* elif and else make the alternative of the if before them.               *)
RECURSIVE ParseIfChain(_, _, _)
ParseIfChain(g, p, c) ==
  Then(ParseIf(g, p, c), LAMBDA s :
    IF Kind(g, s.next) = "elif"
    THEN Then(ParseIfChain(g, s.next, c), LAMBDA alternative :
           Node([s.tree EXCEPT !.orelse = <<alternative.tree>>], alternative.next))
    ELSE Then(ParseClauseSuite(g, s.next, "else", c), LAMBDA orelse :
           Node([s.tree EXCEPT !.orelse = orelse.tree], orelse.next)))

(* The body of a loop is in the loop, its else clause is not.              *)
WithElse(g, loop, c) ==
  Then(loop, LAMBDA s :
    Then(ParseClauseSuite(g, s.next, "else", c), LAMBDA orelse :
      Node([s.tree EXCEPT !.orelse = orelse.tree], orelse.next)))
ParseWhile(g, p, c) ==
  WithElse(g, SuiteAfter(g, ParseExpression(g, p + 1), InLoop(c),
                          LAMBDA x, body : WhileLoop(x, body, <<>>)), c)
ParseFor(g, p, c) ==
  Then(Expect(g, ParseForTarget(g, p + 1), "in"), LAMBDA target :
    WithElse(g, SuiteAfter(g, ParseExpression(g, target.next), InLoop(c),
                            LAMBDA it, body : ForLoop(target.tree, it, body, <<>>)), c))

(* A function is around its body, and no loop outside it is.               *)
ParseParameters(g, p) ==
  IF Kind(g, p) = ")" THEN Node(<<>>, p + 1)
  ELSE Expect(g, ParseNameTuple(g, p), ")")
ParseDef(g, p) ==
  Then(Expect(g, ParseName(g, p + 1), "("), LAMBDA x :
    SuiteAfter(g, ParseParameters(g, x.next), InFunction, LAMBDA xs, body :
      Function(x.tree.name, [i \in DOMAIN xs |-> xs[i].name], body)))

InClass(s) ==
  s.s \in {"pass", "def"} \/ (s.s = "assign" /\ s.target.e = "name")
ParseBase(g, p) ==
  CASE Kind(g, p) # "(" -> Node(Absent, p)
    [] Kind(g, p + 1) = ")" -> Node(Absent, p + 2)
    [] OTHER -> Expect(g, ParseExpression(g, p + 1), ")")
ParseClass(g, p, c) ==
  Then(ParseName(g, p + 1), LAMBDA x :
    Then(SuiteAfter(g, ParseBase(g, x.next), c, LAMBDA base, body :
           Class(x.tree.name, base, body)), LAMBDA class :
      IF \A i \in DOMAIN class.tree.body : InClass(class.tree.body[i]) THEN class
      ELSE SyntaxError))

(* The name after as, if there is one.                                     *)
ParseAs(g, p) ==
  IF Kind(g, p) = "as" THEN ParseName(g, p + 1) ELSE Node(Name(""), p)
ParseHandler(g, p, c) ==
  IF Kind(g, p + 1) = ":"
  THEN SuiteAfter(g, Keyword(p), c, LAMBDA head, body : Except(Absent, "", body))
  ELSE Then(ParseExpression(g, p + 1), LAMBDA type :
         SuiteAfter(g, ParseAs(g, type.next), c, LAMBDA x, body :
           Except(type.tree, x.name, body)))
RECURSIVE ParseHandlers(_, _, _, _)
ParseHandlers(g, p, c, handlers) ==
  IF Kind(g, p) # "except" THEN Node(handlers, p)
  ELSE Then(ParseHandler(g, p, c), LAMBDA h :
         ParseHandlers(g, h.next, c, Append(handlers, h.tree)))
ParseTry(g, p, c) ==
  Then(SuiteAfter(g, Keyword(p), c, LAMBDA head, body : body), LAMBDA body :
    Then(ParseHandlers(g, body.next, c, <<>>), LAMBDA handlers :
      Then(ParseClauseSuite(g, handlers.next, "finally", c), LAMBDA final :
        IF handlers.tree = <<>> /\ final.tree = <<>> THEN SyntaxError
        ELSE Node(TryBlock(body.tree, handlers.tree, final.tree), final.next))))
ParseWith(g, p, c) ==
  Then(ParseExpression(g, p + 1), LAMBDA context :
    SuiteAfter(g, ParseAs(g, context.next), c, LAMBDA x, body :
      WithBlock(context.tree, x.name, body)))

(* Assignments.  Several names on the left are looked for ahead; what else *)
(* can be a target is found after it was parsed as an expression.          *)
UnpackAhead(g, p) ==
  /\ Kind(g, p) = "name" /\ Kind(g, p + 1) = ","
  /\ \E q \in (p + 2)..Len(g.tokens) :
       Kind(g, q) = "=" /\ \A i \in (p + 2)..(q - 1) : Kind(g, i) \in {",", "name"}
IsNameTuple(x) ==
  x.e = "tuple" /\ x.elements # <<>> /\ \A i \in DOMAIN x.elements : x.elements[i].e = "name"
AssignTo(g, target, p) ==
  Then(ParseExpressionList(g, p), LAMBDA value :
    Node(Assignment(target, value.tree), value.next))
AugmentedTo(g, target, p) ==
  Then(ParseExpression(g, p + 1), LAMBDA value :
    Node(Augmented(AugmentedOps[Kind(g, p)], target, value.tree), value.next))
ParseSimple(g, p) ==
  IF UnpackAhead(g, p)
  THEN Then(Expect(g, ParseTarget(g, p), "="), LAMBDA target :
         AssignTo(g, target.tree, target.next))
  ELSE Then(ParseExpression(g, p), LAMBDA x :
         CASE Kind(g, x.next) = "=" ->
                IF x.tree.e \in {"name", "index", "attribute"} \/ IsNameTuple(x.tree)
                THEN AssignTo(g, x.tree, x.next + 1) ELSE SyntaxError
           [] Kind(g, x.next) \in DOMAIN AugmentedOps ->
                IF x.tree.e \in {"name", "index", "attribute"}
                THEN AugmentedTo(g, x.tree, x.next) ELSE SyntaxError
           [] OTHER -> Node(Valued("expr", x.tree), x.next))

ParseStatement(g, p, c) ==
  CASE Kind(g, p) = "import" -> ParseImport(g, p)
    [] Kind(g, p) = "from" -> ParseFrom(g, p)
    [] Kind(g, p) = "raise" -> ParseRaise(g, p)
    [] Kind(g, p) = "with" -> ParseWith(g, p, c)
    [] Kind(g, p) = "try" -> ParseTry(g, p, c)
    [] Kind(g, p) = "if" -> ParseIfChain(g, p, c)
    [] Kind(g, p) = "while" -> ParseWhile(g, p, c)
    [] Kind(g, p) = "for" -> ParseFor(g, p, c)
    [] Kind(g, p) = "def" -> ParseDef(g, p)
    [] Kind(g, p) = "class" -> ParseClass(g, p, c)
    [] Kind(g, p) = "return" -> ParseReturn(g, p, c)
    [] Kind(g, p) = "yield" -> ParseYield(g, p, c)
    [] Kind(g, p) \in {"break", "continue"} ->
         IF c.loops = 0 THEN SyntaxError ELSE Node(Simple(Kind(g, p)), p + 1)
    [] Kind(g, p) = "pass" -> Node(Simple("pass"), p + 1)
    [] Kind(g, p) = "unsupported" -> SyntaxError
    [] OTHER -> ParseSimple(g, p)

RECURSIVE ParseStatements(_, _, _)
ParseStatements(g, p, body) ==
  CASE Kind(g, p) \in {"eof", "none"} -> Node(body, p)
    [] Kind(g, p) = "newline" -> ParseStatements(g, p + 1, body)
    [] OTHER ->
         Then(ParseStatement(g, p, Outside), LAMBDA s :
           Then(EndOfLine(g, s), LAMBDA end : ParseStatements(g, end.next, Append(body, end.tree))))
ParseModule(ts) == ParseStatements(GrammarOf(ts), 1, <<>>)
=============================================================================
