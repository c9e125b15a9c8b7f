-------------------------------- MODULE Text --------------------------------
(***************************************************************************)
(* Texts, typed one fragment at a time, and what the tokenizer, the parser *)
(* and the methods of strings make of each: every property compares them   *)
(* with a definition of the same thing that says what is to be found and   *)
(* not how.                                                                *)
(***************************************************************************)
EXTENDS Grammar, Strings, Words

CONSTANTS Families,                  \* the kinds of texts
          Fragments,                 \* of each family, what is typed
          Bound                      \* of each family, how many fragments a text has

VARIABLES family, text, typed
vars == <<family, text, typed, operands, subject>>

(* A text whose tokens are rejected already is not typed further, where    *)
(* its trees are what the family is about.                                 *)
OfTrees == {"operators", "conditions", "displays", "suffixes", "clauses", "lines", "blocks", "loops", "tries"}
Init ==
  /\ family \in Families /\ text = <<>> /\ typed = 0 /\ NoOperands
  /\ subject = IF family = "search" THEN <<>> ELSE None
Type ==
  \E f \in Fragments[family] :
    /\ typed < Bound[family]
    /\ family \in OfTrees => Scan(Start, text).ok
    /\ text' = text \o f
    /\ typed' = typed + 1
    /\ UNCHANGED <<family, operands, subject>>
(* Two families have operands and a subject in place of texts.             *)
Compute == family = "words" /\ TakeOperand /\ UNCHANGED <<family, text, typed, subject>>
Extend == family = "search" /\ Len(subject) < Bound[family] /\ Lengthen /\ UNCHANGED <<family, text, typed, operands>>
Next == Type \/ Compute \/ Extend
Spec == Init /\ [][Next]_vars

UpTo(set, n) == UNION {[1..k -> set] : k \in 0..n}

-----------------------------------------------------------------------------
(* Tokens.                                                                 *)

SplitAt(s, c) ==
  Between(s, <<0>> \o SetToSortSeq({p \in DOMAIN s : s[p] = c}, <) \o <<Len(s) + 1>>)
Lines(s) == SplitAt(s, "\n")
LineWidth(line) == Past(line, 1, {" "}) - 1
LineText(line) == SubSeq(line, LineWidth(line) + 1, Len(line))
Uncommented(line) == SubSeq(line, 1, Past(line, 1, Range(line) \ {"#"}) - 1)
IsBlank(line) == LineText(Uncommented(line)) = <<>>
Balance(line) ==
  LET count(set) == Cardinality({p \in DOMAIN Uncommented(line) : line[p] \in set})
  IN count(Openers) - count(Closers)
(* Some line but the last leaves a group open.                             *)
SpansLines(s) == LET ls == Lines(s) IN \E i \in 1..(Len(ls) - 1) : Balance(ls[i]) > 0

(* The levels that are open after the lines up to i, of these widths.      *)
Levels(widths, i) ==
  {0} \cup {widths[j] : j \in {k \in 1..i : \A l \in k..i : widths[l] >= widths[k]}}
(* What a line adds: the change of level, its own tokens, its end.         *)
LineTokens(widths, i, own) ==
  LET before == Levels(widths, i - 1)
      closed == {w \in before : w > widths[i]}
  IN (IF widths[i] > Greatest(before) THEN <<Mark("indent")>>
      ELSE [k \in 1..Cardinality(closed) |-> Mark("dedent")])
     \o own.tokens
LayoutOf(s) ==
  LET ls == SelectSeq(Lines(s), LAMBDA l : ~IsBlank(l))
      widths == [i \in DOMAIN ls |-> LineWidth(ls[i])]
      own == [i \in DOMAIN ls |-> Tokenize(LineText(ls[i]))]
      body == [i \in DOMAIN ls |-> LineTokens(widths, i, [own[i] EXCEPT !.tokens = SubSeq(@, 1, Len(@) - 1)])]
      open == Levels(widths, Len(ls)) \ {0}
  IN IF /\ \A i \in DOMAIN Lines(s) : At(LineText(Lines(s)[i]), 1) # "\t"
        /\ \A i \in DOMAIN ls : own[i].ok
        /\ \A i \in DOMAIN ls : LET before == Levels(widths, i - 1)
                                IN widths[i] \in before \/ widths[i] > Greatest(before)
     THEN Value(FlattenSeq(body) \o [k \in 1..Cardinality(open) |-> Mark("dedent")] \o <<Mark("eof")>>)
     ELSE Raised("SyntaxError")

(* The tokens of a text are those of its lines, each on its own, with the  *)
(* indents and dedents that the widths of the lines define: the levels open*)
(* after a line are the widths of the lines that no later one has gone     *)
(* below.  A text is rejected if a line is, if a tab indents one, or if one*)
(* dedents to a width that is not open.  Left out are the texts in which a *)
(* group is closed on a later line than it was opened on: the tokens after *)
(* it are wrong, and NewlinesInGroupsIgnored alone is about them.          *)
(* (tokenizer.c:311-430, 728-767)                                          *)
TokensAsLayout ==
  family = "layout" /\ ~SpansLines(text) =>
    LET t == Tokenize(text)
        l == LayoutOf(text)
    IN t.ok = l.ok /\ (t.ok => t.tokens = l.value)

(* A line end inside brackets means no more than a blank: "Newlines inside *)
(* parentheses or brackets are non-significant"                            *)
(* (Python68K_Full_Agent_Implementation_Brief.md:945).                     *)
JoinedLines(s) ==
  LET depth(p) == Cardinality({q \in 1..(p - 1) : s[q] \in Openers})
                  - Cardinality({q \in 1..(p - 1) : s[q] \in Closers})
  IN [p \in DOMAIN s |-> IF s[p] = "\n" /\ depth(p) > 0 THEN " " ELSE s[p]]
NewlinesInGroupsIgnored ==
  LET joined == Tokenize(JoinedLines(text))
  IN joined.ok => Tokenize(text).tokens = joined.tokens

(* Numbers: the digits between underscores, and what they are worth.       *)
Power(base, n) == LET p[i \in 0..n] == IF i = 0 THEN 1 ELSE base * p[i - 1] IN p[n]
WellFormed(number) ==
  LET digits == DigitsOf(number)
      allowed == CASE BaseOf(number) = 16 -> Hexes [] BaseOf(number) = 2 -> {"0", "1"}
                   [] BaseOf(number) = 8 -> Digits \ {"8", "9"} [] OTHER -> Digits
  IN /\ \A part \in Range(SplitAt(digits, "_")) : part # <<>> /\ Range(part) \subseteq allowed
     /\ BaseOf(number) = 10 => ~(At(number, 1) = "0" /\ At(number, 2) \in Digits)
Written(number) ==
  LET digits == SelectSeq(DigitsOf(number), LAMBDA c : c # "_")
      n == Len(digits)
      worth[i \in 0..n] ==
        IF i = 0 THEN 0 ELSE worth[i - 1] + DigitValue(digits[i]) * Power(BaseOf(number), n - i)
  IN worth[n]
(* A text is one integer exactly if its digits are those of its base, with *)
(* underscores between digits only, and what is written is not beyond the  *)
(* limit; and the value in the tree is then the one that is written, but   *)
(* for the limit itself, which wraps.  (tokenizer.c:154-213, 516-590,      *)
(* parser_expression.c:114-157)                                            *)
LiteralsExact ==
  family = "number" =>
    LET t == Tokenize(text)
        one == /\ t.ok /\ Len(t.tokens) = 3
               /\ t.tokens[1].kind = "integer" /\ t.tokens[1].text = text
        written == Written(text)
    IN /\ one <=> (text # <<>> /\ WellFormed(text) /\ written <= IntLimit)
       /\ one => ParseModule(t.tokens).tree[1].value
                   = Lit(<<"int", IF written = IntLimit THEN -IntLimit ELSE written>>)

-----------------------------------------------------------------------------
(* Trees.                                                                  *)

(* The parser finds a tree exactly where the grammar has one, and it is    *)
(* one of the grammar's; an expression has no second one.  What the parser *)
(* does with precedences and with tokens looked at ahead thus decides      *)
(* nothing that the grammar does not.  Where the parser takes what the     *)
(* documents do not have, or call an error, Grammar has it too: [return a, *)
(* b], a bare yield, statements after a yield on its line, and compound    *)
(* statements in a suite of one line (ReturnTrees, YieldTrees, Ends,       *)
(* Suites).  (parser_expression.c, parser_statement.c)                     *)
ParsesGrammar ==
  family \in OfTrees =>
    LET t == Tokenize(text)
        r == ParseModule(t.tokens)
        trees == Modules(t.tokens)
    IN t.ok => /\ Failed(r) <=> trees = {}
               /\ ~Failed(r) => r.tree \in trees
               /\ family \in {"operators", "conditions", "displays", "suffixes"} => Cardinality(trees) <= 1

(* A formatted string is parsed into the characters and the fields that it *)
(* is written with; it is rejected where there is no such reading, or where*)
(* an expression has a colon or an exclamation mark of its own.            *)
(* (parser_expression.c:264-600)                                           *)
FormatsAsWritten ==
  family = "format" =>
    LET r == Parts(GrammarOf(<<>>), text, 1, 1, <<>>)
        readings == Pieces(text)
    IN IF Failed(r) THEN readings = {} \/ {"!", ":"} \cap Range(text) # {}
       ELSE PiecesOf(r.tree.parts) \in readings
-----------------------------------------------------------------------------
(* Strings.                                                                *)

(* The parts of a split.  From the left, a separator that ends a part is   *)
(* the first in it; only the last part may have one, when the splits ran   *)
(* out.  From the right, the mirror image.                                 *)
Reversed(s) == [i \in 1..Len(s) |-> s[Len(s) + 1 - i]]
LeftParts(parts, sep, maxsplit) ==
  LET n == Len(parts)
  IN /\ maxsplit >= 0 => n <= maxsplit + 1
     /\ \A i \in 1..(n - 1) : Least(Places(parts[i] \o sep, sep, None, None)) = Len(parts[i])
     /\ n # maxsplit + 1 => Places(parts[n], sep, None, None) = {}
RightParts(parts, sep, maxsplit) ==
  LeftParts([i \in DOMAIN parts |-> Reversed(Reversed(parts)[i])], Reversed(sep), maxsplit)
(* Splitting and joining with the separator give the string back; the parts*)
(* are as many as there can be; partition is a split in two, and what      *)
(* replace gives is what split gives joined with the replacement, in the   *)
(* buffer that was measured for it.  (string_methods.c:678-1150)           *)
SplitsRejoin ==
  subject # None =>
    \A sep \in Subs, n \in -1..2 :
      LET left == SplitCommon(subject, sep, n, FALSE)
          right == SplitCommon(subject, sep, n, TRUE)
          once(r) == SplitCommon(subject, sep, 1, r).value
      IN /\ left.ok = (sep # <<>>) /\ right.ok = (sep # <<>>)
         /\ left.ok => /\ StringJoin(sep, left.value) = subject /\ LeftParts(left.value, sep, n)
                       /\ StringJoin(sep, right.value) = subject /\ RightParts(right.value, sep, n)
                       /\ Partition(subject, sep, FALSE).value
                            = IF Len(once(FALSE)) = 1 THEN <<subject, <<>>, <<>>>>
                              ELSE <<once(FALSE)[1], sep, once(FALSE)[2]>>
                       /\ Partition(subject, sep, TRUE).value
                            = IF Len(once(TRUE)) = 1 THEN <<<<>>, <<>>, subject>>
                              ELSE <<once(TRUE)[1], sep, once(TRUE)[2]>>
         /\ \A new \in {<<>>, <<"n">>, <<"n", "n", "x">>} :
              LET replaced == StringReplace(subject, sep, new, n)
              IN /\ left.ok => replaced = StringJoin(new, left.value)
                 /\ Len(replaced) <= ReplaceCapacity(subject, sep, new)

(* Blanks: the words of a text are its longest runs without one.  With a   *)
(* limit the rest begins with a word.  strip takes all there is at an end  *)
(* and nothing else.  The lines of splitlines, with their ends, are the    *)
(* text, and end exactly where a line end is.  (string_methods.c:492-680,  *)
(* 847-895)                                                                *)
WordsOf(s) ==
  LET starts == {p \in DOMAIN s : s[p] \notin Blanks /\ (p = 1 \/ s[p - 1] \in Blanks)}
  IN [i \in 1..Cardinality(starts) |-> SetToSortSeq(starts, <)[i]]
WordEnd(s, p) == Past(s, p, Range(s) \ Blanks)
LineEnding(line) ==
  CASE Len(line) > 1 /\ SubSeq(line, Len(line) - 1, Len(line)) = <<"\r", "\n">> -> 2
    [] line # <<>> /\ line[Len(line)] \in LineEndings -> 1
    [] OTHER -> 0
BlanksRecognised ==
  family = "blanks" =>
    /\ \A n \in -1..2 :
         LET words == WordsOf(text)
             all == SplitCommon(text, None, n, FALSE).value
         IN /\ Len(all) = IF n < 0 \/ n >= Len(words) THEN Len(words) ELSE n + 1
            /\ \A i \in DOMAIN all :
                 all[i] = IF i = n + 1 THEN SubSeq(text, words[i], Len(text))
                          ELSE SubSeq(text, words[i], WordEnd(text, words[i]) - 1)
    /\ \A l, r \in BOOLEAN :
         LET trimmed == StripImpl(text, Blanks, l, r)
             from == IF l THEN Past(text, 1, Blanks) ELSE 1
             to == IF r THEN Len(text) + 1 - Past(Reversed(text), 1, Blanks) ELSE Len(text)
         IN trimmed = SubSeq(text, from, to)
    /\ LET kept == SplitLines(text, 0, TRUE)
           lines == SplitLines(text, 0, FALSE)
       IN /\ FlattenSeq(kept) = text
          /\ Len(lines) = Len(kept)
          /\ \A i \in DOMAIN kept :
               /\ kept[i] # <<>>
               /\ i < Len(kept) => LineEnding(kept[i]) > 0
               /\ lines[i] = SubSeq(kept[i], 1, Len(kept[i]) - LineEnding(kept[i]))
               /\ Range(lines[i]) \cap LineEndings = {}
               /\ i < Len(kept) => ~(kept[i][Len(kept[i])] = "\r" /\ kept[i + 1][1] = "\n")

(* Both, as one property of what splits strings.                           *)
(* (string_methods.c:492-1150)                                             *)
SplitsExact == SplitsRejoin /\ BlanksRecognised

(* repr and ascii write a literal that the tokenizer takes as one string   *)
(* and that reads as the string it was written for.  (string_methods.c:    *)
(* 1600-1660, tokenizer.c:225-257, string.c:64-113)                        *)
ReprReads ==
  family = "escapes" =>
    \A high \in BOOLEAN :
      LET written == ReprEscape(text, high)
          read == Quoted(written, 1, "string")
      IN /\ read.end = Len(written) + 1
         /\ NewFromEscaped(read.token.text) = text
         /\ high => Range(written) \cap High = {}

(* translate gives the text with each character replaced, whatever the     *)
(* lengths, unless the buffer is exactly full when a single character comes*)
(* (then it fails: string_methods.c:1400, 1434).  maketrans gives the table*)
(* that does what its strings say.  (string_methods.c:1355-1443, 1662-1736)*)
Tables == [{"a", "b"} -> {<<>>, <<"x">>, Copies("x", 5), Copies("x", 9)}]
Images(s, table) ==
  FlattenSeq([i \in DOMAIN s |-> IF s[i] \in DOMAIN table THEN table[s[i]] ELSE <<s[i]>>])
FullAt(s, table) ==
  \E i \in 0..(Len(s) - 1) :
    \E capacity \in {4 * Len(s) + 1, 8 * Len(s) + 8, 8 * Len(s) + 12, 16 * Len(s) + 22,
                     16 * Len(s) + 26, 16 * Len(s) + 30, 16 * Len(s) + 34} :
      Len(Images(SubSeq(s, 1, i), table)) = capacity
TranslatesAll ==
  family = "translate" =>
    /\ \A table \in Tables :
         LET t == Translate(text, table)
         IN IF t.ok THEN t.value = Images(text, table) ELSE FullAt(text, table)
    /\ \A from \in UpTo({"a", "b"}, 2), to \in UpTo({"x", "n"}, 2), delete \in UpTo({"b"}, 1) :
         LET made == MakeTrans(from, to, delete)
         IN /\ made.ok = (Len(from) = Len(to))
            /\ made.ok => Translate(text, made.value).value
                            = FlattenSeq([i \in DOMAIN text |->
                                LET places == {p \in DOMAIN from : from[p] = text[i]}
                                IN IF text[i] \in Range(delete) THEN <<>>
                                   ELSE IF places = {} THEN <<text[i]>> ELSE <<to[Greatest(places)]>>])

(* What the methods that change cases give is what the methods that ask    *)
(* for them find; what is padded has the width, its text in place and, in  *)
(* zfill, its sign first; no tab is left, and what followed one is at a    *)
(* multiple of the size.  (string_methods.c:159-265, 1168-1353, 1445-1600) *)
FormsRecognised ==
  family = "forms" =>
    LET letters == Range(text) \cap Alpha # {}
        starts(s, x) == Len(x) <= Len(s) /\ MatchAt(s, x, 0)
    IN /\ \A mode \in {"upper", "lower", "title"} :
            Classifier(MapCase(text, mode), mode) <=> letters
       /\ MapCase(MapCase(text, "swapcase"), "swapcase") = text
       /\ Classifier(text, "alnum") <=> text # <<>> /\ Range(text) \subseteq Alpha \cup Decimals
       /\ Classifier(text, "identifier") => Classifier(text, "printable")
       /\ \A width \in 0..6 :
            /\ \A mode \in {"ljust", "rjust", "center"} :
                 LET padded == Pad(text, width, "*", mode)
                     before == SkipWhile(padded, 0, {"*"})
                 IN /\ Len(padded) = IF width < Len(text) THEN Len(text) ELSE width
                    /\ StripImpl(padded, {"*"}, TRUE, TRUE) = text
                    /\ text # <<>> => before = CASE mode = "ljust" -> 0
                                              [] mode = "rjust" -> Len(padded) - Len(text)
                                              [] mode = "center" -> (Len(padded) - Len(text)) \div 2
            /\ LET filled == ZFill(text, width)
                   signed == text # <<>> /\ text[1] \in {"-", "+"}
               IN /\ Len(filled) = IF width < Len(text) THEN Len(text) ELSE width
                  /\ signed => filled[1] = text[1] /\ "-" \notin Range(SubSeq(filled, 2, Len(filled) - Len(text) + 1))
                  /\ StringContains(filled, IF signed THEN SubSeq(text, 2, Len(text)) ELSE text)
       /\ \A size \in 1..4 :
            LET ls == Lines(text)
                expanded == ExpandTabs(text, size)
            IN /\ "\t" \notin Range(expanded)
               /\ \A i \in DOMAIN text : text[i] = "\t" =>
                    LET column == Len(Lines(ExpandTabs(SubSeq(text, 1, i), size))[Len(Lines(SubSeq(text, 1, i)))])
                    IN column > 0 /\ column % size = 0
=============================================================================
