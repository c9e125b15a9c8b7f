----------------------------- MODULE Tokenizer -----------------------------
(***************************************************************************)
(* The tokenizer (tokenizer.c).  A text is a sequence of elements: letters *)
(* and words, digits, spaces, line ends and punctuation; CR LF is one line *)
(* end, as py68_advance_newline has it.  A token is [kind, text]: the kind *)
(* of a keyword or an operator is its spelling.                            *)
(***************************************************************************)
EXTENDS Integers, Sequences, FiniteSets, TLC, Numbers

Spaces == {" ", "\t"}
Quotes == {"'", "\""}
Digits == {"0", "1", "2", "8", "9"}
Keywords ==
  {"if", "elif", "else", "while", "for", "in", "def", "return", "break", "continue", "pass",
   "and", "or", "not", "True", "False", "None", "try", "except", "finally", "raise", "with",
   "import", "from", "as", "is", "yield", "class"}
Unsupported ==
  {"lambda", "nonlocal", "async", "await", "match", "case", "global", "eval", "exec"}
Names == {"a", "b", "c", "e", "f", "g", "n", "o", "q", "r", "s", "u", "x", "y", "z", "_"}
NameStart == Names \cup Keywords \cup Unsupported
NameContinue == NameStart \cup Digits
Hexes == Digits \cup {"a", "b", "c", "e", "f"}
Openers == {"(", "[", "{"}
Closers == {")", "]", "}"}
Opener == [c \in Closers |-> CASE c = ")" -> "(" [] c = "]" -> "[" [] c = "}" -> "{"]
Operators ==
  {"//=", "//", "/=", "+=", "-=", "*=", "%=", "==", "!=", "<=", ">=", ".", ":", ",",
   "+", "-", "*", "/", "%", "=", "<", ">"} \cup Openers \cup Closers
StringPrefixes == {"fr", "rf", "b", "u"}

Token(kind, spelling) == [kind |-> kind, text |-> spelling]
Mark(kind) == Token(kind, "")

-----------------------------------------------------------------------------
(* Reading elements.                                                       *)

At(text, p) == IF p \in DOMAIN text THEN text[p] ELSE ""
(* What the elements from p up to q, q not included, spell.                *)
Spelled(text, p, q) ==
  LET s[i \in p..q] == IF i = p THEN "" ELSE s[i - 1] \o text[i - 1] IN s[q]
(* The first position from p on whose element is outside a set.            *)
Past(text, p, set) ==
  CHOOSE q \in p..(Len(text) + 1) : At(text, q) \notin set /\ \A i \in p..(q - 1) : text[i] \in set
LineEnd(text, p) ==
  CHOOSE q \in p..(Len(text) + 1) : At(text, q) \in {"\n", ""} /\ \A i \in p..(q - 1) : text[i] # "\n"

(* What is found at a position: a token and where the rest begins.         *)
Found(token, end) == [token |-> token, end |-> end]
Bad == Found(Mark("error"), 0)

(* py68_scan_quoted_string, from the opening quote at p.                   *)
EscapeEnd(text, p) ==
  CASE At(text, p) \in {"\\", "n", "r", "t"} \cup Quotes -> p + 1
    [] At(text, p) = "x" /\ At(text, p + 1) \in Hexes /\ At(text, p + 2) \in Hexes -> p + 3
    [] OTHER -> 0
Quoted(text, p, kind) ==
  LET from[q \in 0..(Len(text) + 4)] ==
        CASE q = 0 \/ At(text, q) \in {"", "\n"} -> Bad
          [] At(text, q) = text[p] -> Found(Token(kind, SubSeq(text, p + 1, q - 1)), q + 1)
          [] At(text, q) = "\\" -> from[EscapeEnd(text, q + 1)]
          [] OTHER -> from[q + 1]
  IN from[p + 1]

(* A name, a keyword, or a string with a prefix.                           *)
KeywordOf(word) ==
  IF word \in Keywords THEN Token(word, word)
  ELSE IF word \in Unsupported THEN Token("unsupported", word)
  ELSE Token("name", word)
Word(text, p) ==
  LET end == Past(text, p, NameContinue)
      word == Spelled(text, p, end)
  IN CASE At(text, p) = "f" /\ At(text, p + 1) \in Quotes -> Quoted(text, p + 1, "fstring")
       [] At(text, end) \in Quotes /\ word \in StringPrefixes -> Bad
       [] OTHER -> Found(KeywordOf(word), end)

(* Numbers.  py68_validate_integer: no leading zero, underscores between   *)
(* digits only, the digits of the base, a value up to the limit.  The      *)
(* letter of a prefix, a digit or an exponent is the same in upper case.   *)
BaseOf(number) ==
  IF At(number, 1) # "0" THEN 10
  ELSE CASE At(number, 2) = "x" -> 16 [] At(number, 2) = "b" -> 2 [] At(number, 2) = "o" -> 8
         [] OTHER -> 10
DigitsOf(number) == IF BaseOf(number) = 10 THEN number ELSE SubSeq(number, 3, Len(number))
DigitValue(c) ==
  CASE c \in Digits -> CHOOSE n \in 0..9 : ToString(n) = c
    [] c = "a" -> 10 [] c = "b" -> 11 [] c = "c" -> 12 [] c = "e" -> 14 [] c = "f" -> 15
    [] OTHER -> 99
(* A bug to detect: the digit that is added is left out of the check.      *)
AddDigitLate(value, base, digit) ==
  IF value < 0 \/ digit >= base \/ value > IntLimit \div base THEN -1 ELSE value * base + digit
(* The value of the digits so far, or -1 for none that is in range.        *)
AddDigit(value, base, digit) ==
  IF value < 0 \/ digit >= base \/ value > (IntLimit - digit) \div base THEN -1
  ELSE value * base + digit
IntegerValue(number) ==
  LET digits == DigitsOf(number)
      value[i \in 0..Len(digits)] ==
        CASE i = 0 -> 0
          [] digits[i] = "_" -> value[i - 1]
          [] OTHER -> AddDigit(value[i - 1], BaseOf(number), DigitValue(digits[i]))
  IN value[Len(digits)]
ValidInteger(number) ==
  LET digits == DigitsOf(number)
  IN /\ ~(At(number, 1) = "0" /\ At(number, 2) \in Digits)
     /\ digits # <<>>
     /\ digits[1] # "_" /\ digits[Len(digits)] # "_"
     /\ \A i \in 1..(Len(digits) - 1) : ~(digits[i] = "_" /\ digits[i + 1] = "_")
     /\ IntegerValue(number) >= 0

(* Where the digits of a number end, and whether they are those of a float.*)
Digital(text, p) == Past(text, p, Digits \cup {"_"})
Exponent(text, p) ==
  IF At(text, p) # "e" THEN p
  ELSE Past(text, IF At(text, p + 1) \in {"+", "-"} THEN p + 2 ELSE p + 1, Digits)
Fraction(text, p) ==
  IF At(text, p) = "." /\ At(text, p + 1) \in Digits THEN Digital(text, p + 1) ELSE p
NumberAt(text, p) == At(text, p) \in Digits \/ (At(text, p) = "." /\ At(text, p + 1) \in Digits)
Number(text, p) ==
  LET prefixed == At(text, p) = "0" /\ At(text, p + 1) \in {"x", "b", "o"}
      whole == IF prefixed THEN Past(text, p, NameContinue) ELSE Digital(text, p)
      end == IF prefixed THEN whole ELSE Exponent(text, Fraction(text, whole))
      number == SubSeq(text, p, end - 1)
  IN CASE end > whole -> Found(Token("float", number), end)
       [] ValidInteger(number) -> Found(Token("integer", number), end)
       [] OTHER -> Bad

(* The longest operator that begins at p.                                  *)
Operator(text, p) ==
  LET ends == {q \in (p + 1)..(p + 3) : q <= Len(text) + 1 /\ Spelled(text, p, q) \in Operators}
      end == CHOOSE q \in ends : \A r \in ends : r <= q
  IN IF ends = {} THEN Bad ELSE Found(Token(Spelled(text, p, end), ""), end)

Lexeme(text, p) ==
  CASE text[p] \in NameStart -> Word(text, p)
    [] NumberAt(text, p) -> Number(text, p)
    [] text[p] \in Quotes -> Quoted(text, p, "string")
    [] OTHER -> Operator(text, p)

-----------------------------------------------------------------------------
(* The loop of py68_tokenize.  at_line_start is set by every line end, also*)
(* by one inside brackets, and looked at outside brackets only.            *)

Start == [position |-> 1, tokens |-> <<>>, indents |-> <<0>>, groups |-> <<>>,
          atLineStart |-> TRUE, content |-> FALSE, ok |-> TRUE]

Top(stack) == stack[Len(stack)]
Pop(stack) == SubSeq(stack, 1, Len(stack) - 1)
Fail(t) == [t EXCEPT !.ok = FALSE, !.position = 0]
Emit(t, token) == [t EXCEPT !.tokens = Append(@, token)]

(* A bug to detect: a line closes one level at most.                       *)
DedentOnce(t, width) ==
  IF width >= Top(t.indents) THEN t ELSE Emit([t EXCEPT !.indents = Pop(@)], Mark("dedent"))
(* The levels that a line of this width closes.                            *)
RECURSIVE Dedent(_, _)
Dedent(t, width) ==
  IF width >= Top(t.indents) THEN t
  ELSE Dedent(Emit([t EXCEPT !.indents = Pop(@)], Mark("dedent")), width)
Indent(t, width) ==
  IF width > Top(t.indents) THEN Emit([t EXCEPT !.indents = Append(@, width)], Mark("indent"))
  ELSE Dedent(t, width)
LineBegun(t, p, width) ==
  IF Top(t.indents) # width THEN Fail(t)
  ELSE [t EXCEPT !.position = p, !.atLineStart = FALSE, !.content = FALSE]
(* A line whose first element but spaces is at p.                          *)
LineAt(t, text, p) ==
  CASE p > Len(text) -> [t EXCEPT !.position = p]
    [] text[p] = "\t" -> Fail(t)
    [] text[p] = "#" -> [t EXCEPT !.position = LineEnd(text, p)]
    [] text[p] = "\n" -> [t EXCEPT !.position = p + 1]
    [] OTHER -> LineBegun(Indent(t, p - t.position), p, p - t.position)
LineStart(t, text) == LineAt(t, text, Past(text, t.position, {" "}))

NewLine(t) ==
  LET ended == IF t.groups = <<>> /\ t.content THEN Emit(t, Mark("newline")) ELSE t
  IN [ended EXCEPT !.position = t.position + 1, !.atLineStart = TRUE,
                   !.content = IF t.groups = <<>> THEN FALSE ELSE t.content]

(* A bracket opens or closes a group; a closing one must match.            *)
Grouped(t, token) ==
  CASE token.kind \in Openers -> [t EXCEPT !.groups = Append(@, token.kind)]
    [] token.kind \notin Closers -> t
    [] t.groups # <<>> /\ Top(t.groups) = Opener[token.kind] -> [t EXCEPT !.groups = Pop(@)]
    [] OTHER -> Fail(t)
Taken(t, found) ==
  IF found = Bad THEN Fail(t)
  ELSE Grouped([Emit(t, found.token) EXCEPT !.position = found.end, !.content = TRUE], found.token)
Take(t, text) == Taken(t, Lexeme(text, t.position))

Step(t, text) ==
  LET c == text[t.position]
  IN CASE t.atLineStart /\ t.groups = <<>> -> LineStart(t, text)
       [] c = "\n" -> NewLine(t)
       [] c \in Spaces -> [t EXCEPT !.position = @ + 1]
       [] c = "#" -> [t EXCEPT !.position = LineEnd(text, t.position)]
       [] OTHER -> Take(t, text)

RECURSIVE Scan(_, _)
Scan(t, text) == IF t.position \in DOMAIN text THEN Scan(Step(t, text), text) ELSE t

Ended(t) == IF t.content THEN Emit(t, Mark("newline")) ELSE t
Finish(t) ==
  IF t.ok THEN [Dedent(Ended(t), 0) EXCEPT !.tokens = Append(@, Mark("eof")), !.ok = t.groups = <<>>]
  ELSE t
Tokenize(text) == Finish(Scan(Start, text))

KindIn(tokens, p) == IF p \in DOMAIN tokens THEN tokens[p].kind ELSE "none"
=============================================================================
