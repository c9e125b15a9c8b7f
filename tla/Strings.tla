------------------------------- MODULE Strings -------------------------------
(***************************************************************************)
(* The methods of strings that do not search (string_methods.c), their     *)
(* escapes (string.c) and format and repr (builtin_text.c).                *)
(***************************************************************************)
EXTENDS Search, TLC

Lower == {"a", "b", "n", "x", "f"}
Upper == {"A", "B"}
Decimals == {"0", "1", "2"}
Blanks == {" ", "\t", "\n", "\r"}
LineEndings == {"\n", "\r"}
(* Two bytes that are not printable, and one above 127.                    *)
Controls == {"^a", "^b"}
High == {"^h"}
Alpha == Lower \cup Upper
ToUpper(c) == CASE c = "a" -> "A" [] c = "b" -> "B" [] OTHER -> c
ToLower(c) == CASE c = "A" -> "a" [] c = "B" -> "b" [] OTHER -> c

CharAt(s, p) == s[p + 1]
Copies(c, n) == [i \in 1..n |-> c]

(* One character.                                                          *)
StringGetChar(s, i) ==
  LET p == IF i < 0 THEN i + Len(s) ELSE i
  IN IF p < 0 \/ p >= Len(s) THEN Raised("IndexError") ELSE Value(Cut(s, p, p + 1))

-----------------------------------------------------------------------------
(* Trimming, splitting, joining.                                           *)

StripImpl(s, chars, left, right) ==
  LET start[p \in 0..Len(s)] ==
        IF left /\ p < Len(s) /\ CharAt(s, p) \in chars THEN start[p + 1] ELSE p
      end[p \in 0..Len(s)] ==
        IF right /\ p > start[0] /\ CharAt(s, p - 1) \in chars THEN end[p - 1] ELSE p
  IN Cut(s, start[0], end[Len(s)])
RemovePrefix(s, x) ==
  IF Len(x) <= Len(s) /\ MatchAt(s, x, 0) THEN Cut(s, Len(x), Len(s)) ELSE s
RemoveSuffix(s, x) ==
  IF Len(x) <= Len(s) /\ MatchAt(s, x, Len(s) - Len(x)) THEN Cut(s, 0, Len(s) - Len(x)) ELSE s

Reached(splits, maxsplit) == maxsplit >= 0 /\ splits >= maxsplit
(* Where the characters from p on stop being in a set.                     *)
SkipWhile(s, p, chars) ==
  LET q[i \in 0..Len(s)] == IF i < Len(s) /\ CharAt(s, i) \in chars THEN q[i + 1] ELSE i IN q[p]
RECURSIVE SplitBlanks(_, _, _, _)
SplitBlanks(s, p, splits, maxsplit) ==
  LET start == SkipWhile(s, p, Blanks)
      end == SkipWhile(s, start, {CharAt(s, i) : i \in 0..(Len(s) - 1)} \ Blanks)
  IN CASE start >= Len(s) -> <<>>
       [] Reached(splits, maxsplit) -> <<Cut(s, start, Len(s))>>
       [] OTHER -> <<Cut(s, start, end)>> \o SplitBlanks(s, end, splits + 1, maxsplit)
RECURSIVE SplitLeft(_, _, _, _, _)
SplitLeft(s, sep, start, splits, maxsplit) ==
  LET found == FindBytes(s, sep, start, Len(s))
  IN IF Reached(splits, maxsplit) \/ found < 0 THEN <<Cut(s, start, Len(s))>>
     ELSE <<Cut(s, start, found)>> \o SplitLeft(s, sep, found + Len(sep), splits + 1, maxsplit)
(* A bug to detect: the part before the first separator is lost if empty.  *)
SplitRightShort(s, sep, end, splits, maxsplit) ==
  LET found == RFindBytes(s, sep, 0, end)
  IN IF Reached(splits, maxsplit) \/ found <= 0 THEN <<Cut(s, 0, end)>>
     ELSE <<Cut(s, 0, found), Cut(s, found + Len(sep), end)>>
RECURSIVE SplitRight(_, _, _, _, _)
SplitRight(s, sep, end, splits, maxsplit) ==
  LET found == RFindBytes(s, sep, 0, end)
  IN CASE Reached(splits, maxsplit) \/ found < 0 -> <<Cut(s, 0, end)>>
       [] found = 0 -> <<<<>>, Cut(s, Len(sep), end)>>
       [] OTHER -> Append(SplitRight(s, sep, found, splits + 1, maxsplit), Cut(s, found + Len(sep), end))
(* split and rsplit; without a separator both go from the left.            *)
SplitCommon(s, sep, maxsplit, fromRight) ==
  CASE sep = None -> Value(SplitBlanks(s, 0, 0, maxsplit))
    [] sep = <<>> -> Raised("ValueError")
    [] fromRight -> Value(SplitRight(s, sep, Len(s), 0, maxsplit))
    [] OTHER -> Value(SplitLeft(s, sep, 0, 0, maxsplit))

RECURSIVE SplitLines(_, _, _)
SplitLines(s, p, keepends) ==
  LET end == SkipWhile(s, p, {CharAt(s, i) : i \in 0..(Len(s) - 1)} \ LineEndings)
      pair == end + 2 <= Len(s) /\ Cut(s, end, end + 2) = <<"\r", "\n">>
      next == IF end = Len(s) THEN end ELSE IF pair THEN end + 2 ELSE end + 1
  IN IF p >= Len(s) THEN <<>>
     ELSE <<Cut(s, p, IF keepends THEN next ELSE end)>> \o SplitLines(s, next, keepends)

Partition(s, sep, fromRight) ==
  LET found == IF fromRight THEN RFindBytes(s, sep, 0, Len(s)) ELSE FindBytes(s, sep, 0, Len(s))
  IN CASE sep = <<>> -> Raised("ValueError")
       [] found < 0 /\ fromRight -> Value(<<<<>>, <<>>, s>>)
       [] found < 0 -> Value(<<s, <<>>, <<>>>>)
       [] OTHER -> Value(<<Cut(s, 0, found), sep, Cut(s, found + Len(sep), Len(s))>>)

StringJoin(sep, parts) ==
  LET joined[i \in 0..Len(parts)] ==
        CASE i = 0 -> <<>> [] i = 1 -> parts[1] [] OTHER -> joined[i - 1] \o sep \o parts[i]
  IN joined[Len(parts)]

-----------------------------------------------------------------------------
(* Replacing and padding.  The result is written to a buffer whose size is *)
(* computed first.                                                         *)

ReplaceCapacity(s, old, new) ==
  CASE Len(new) <= Len(old) -> Len(s) + 1
    [] old = <<>> -> Len(s) * (Len(new) + 1) + Len(new) + 1
    [] OTHER -> Len(s) + (Len(s) \div Len(old) + 1) * (Len(new) - Len(old)) + 1
RECURSIVE ReplaceFrom(_, _, _, _, _)
ReplaceFrom(s, old, new, p, count) ==
  LET found == FindBytes(s, old, p, Len(s))
  IN CASE count = 0 -> Cut(s, p, Len(s))
       [] old = <<>> /\ p = Len(s) -> new
       [] old = <<>> -> new \o <<CharAt(s, p)>> \o ReplaceFrom(s, old, new, p + 1, count - 1)
       [] found < 0 -> Cut(s, p, Len(s))
       [] OTHER -> Cut(s, p, found) \o new \o ReplaceFrom(s, old, new, found + Len(old), count - 1)
StringReplace(s, old, new, count) == ReplaceFrom(s, old, new, 0, count)

(* center, ljust, rjust and zfill.                                         *)
Pad(s, width, fill, mode) ==
  LET pad == width - Len(s)
      left == CASE mode = "center" -> pad \div 2 [] mode = "ljust" -> 0 [] mode = "rjust" -> pad
  IN IF width <= Len(s) THEN s ELSE Copies(fill, left) \o s \o Copies(fill, pad - left)
(* A bug to detect: the zeros come before the sign.                        *)
ZFillSigned(s, width) == IF width <= Len(s) THEN s ELSE Copies("0", width - Len(s)) \o s
ZFill(s, width) ==
  LET sign == IF s # <<>> /\ s[1] \in {"+", "-"} THEN 1 ELSE 0
  IN IF width <= Len(s) THEN s
     ELSE Cut(s, 0, sign) \o Copies("0", width - Len(s)) \o Cut(s, sign, Len(s))

ExpandTabs(s, tabsize) ==
  LET expand[i \in 0..Len(s)] ==       \* the text so far and its last column
        IF i = 0 THEN [text |-> <<>>, column |-> 0]
        ELSE LET e == expand[i - 1]
                 spaces == IF tabsize <= 0 THEN 0 ELSE tabsize - (e.column % tabsize)
             IN IF s[i] = "\t"
                THEN [text |-> e.text \o Copies(" ", spaces), column |-> e.column + spaces]
                ELSE [text |-> Append(e.text, s[i]),
                      column |-> IF s[i] \in LineEndings THEN 0 ELSE e.column + 1]
  IN expand[Len(s)].text

(* translate, with a table from characters to strings: a single character  *)
(* stands for its integer code, and <<>> for None, which deletes.  The     *)
(* buffer is four times the text and one more; it grows for a replacement  *)
(* that does not fit, not for a code or a character that is kept.          *)
TranslateGrown(capacity, x) == capacity * 2 + Len(x) + 1
Translate(s, table) ==
  LET done[i \in 0..Len(s)] ==
        IF i = 0 THEN [text |-> <<>>, capacity |-> Len(s) * 4 + 1, ok |-> TRUE]
        ELSE LET t == done[i - 1]
                 mapped == s[i] \in DOMAIN table
                 x == IF mapped THEN table[s[i]] ELSE <<s[i]>>
                 fits == Len(t.text) + Len(x) <= t.capacity
             IN [text |-> t.text \o x,
                 capacity |-> IF mapped /\ ~fits THEN TranslateGrown(t.capacity, x) ELSE t.capacity,
                 ok |-> t.ok /\ (fits \/ (mapped /\ Len(x) # 1))]
  IN IF done[Len(s)].ok THEN Value(done[Len(s)].text) ELSE Raised("MemoryError")
(* A bug to detect: of a character given twice, the first counts.          *)
MakeTransFirst(from, to, delete) ==
  LET first(c) == CHOOSE i \in DOMAIN from : from[i] = c /\ \A j \in DOMAIN from : from[j] = c => j >= i
      deleted == {delete[i] : i \in DOMAIN delete}
  IN IF Len(from) # Len(to) THEN Raised("ValueError")
     ELSE Value([c \in {from[i] : i \in DOMAIN from} \cup deleted |->
                  IF c \in deleted THEN <<>> ELSE <<to[first(c)]>>])
(* maketrans with two strings, and a third of characters to delete.        *)
MakeTrans(from, to, delete) ==
  LET last(c) == CHOOSE i \in DOMAIN from : from[i] = c /\ \A j \in DOMAIN from : from[j] = c => j <= i
      deleted == {delete[i] : i \in DOMAIN delete}
  IN IF Len(from) # Len(to) THEN Raised("ValueError")
     ELSE Value([c \in {from[i] : i \in DOMAIN from} \cup deleted |->
                  IF c \in deleted THEN <<>> ELSE <<to[last(c)]>>])

-----------------------------------------------------------------------------
(* Cases and classes of characters.                                        *)

MapCase(s, mode) ==
  [i \in DOMAIN s |->
     CASE mode = "upper" -> ToUpper(s[i])
       [] mode = "lower" -> ToLower(s[i])
       [] mode = "capitalize" -> IF i = 1 THEN ToUpper(s[i]) ELSE ToLower(s[i])
       [] mode = "swapcase" -> IF s[i] \in Upper THEN ToLower(s[i]) ELSE ToUpper(s[i])
       [] mode = "title" -> IF i > 1 /\ s[i - 1] \in Alpha THEN ToLower(s[i]) ELSE ToUpper(s[i])]
CharIn(c, first, kind) ==
  CASE kind = "alnum" -> c \in Alpha \cup Decimals
    [] kind = "alpha" -> c \in Alpha
    [] kind = "ascii" -> c \notin High
    [] kind = "digit" -> c \in Decimals
    [] kind = "identifier" -> c \in Alpha \cup {"_"} \/ (~first /\ c \in Decimals)
    [] kind = "lower" -> c \notin Upper
    [] kind = "upper" -> c \notin Lower
    [] kind = "printable" -> c \notin Controls \cup High \cup (Blanks \ {" "})
    [] kind = "space" -> c \in Blanks
(* A title: an upper case letter follows no letter, a lower case one does. *)
TitleAt(s, i) ==
  LET follows == i > 1 /\ s[i - 1] \in Alpha
  IN (s[i] \in Upper => ~follows) /\ (s[i] \in Lower => follows)
Classifier(s, kind) ==
  LET cased == CASE kind = "lower" -> Lower [] kind = "upper" -> Upper [] kind = "title" -> Alpha
                 [] OTHER -> {}
  IN IF s = <<>> THEN kind \in {"ascii", "printable"}
     ELSE /\ \A i \in DOMAIN s : IF kind = "title" THEN TitleAt(s, i) ELSE CharIn(s[i], i = 1, kind)
          /\ kind \in {"lower", "upper", "title"} => \E i \in DOMAIN s : s[i] \in cased

-----------------------------------------------------------------------------
(* Escapes: what repr and ascii write, and what a literal reads.           *)

HexOf(c) == CASE c = "^a" -> <<"0", "1">> [] c = "^b" -> <<"1", "f">> [] c = "^h" -> <<"8", "0">>
(* A bug to detect: a backslash is not escaped.                            *)
AppendEscapeBare(c, escapeHigh) ==
  CASE c = "'" -> <<"\\", c>>
    [] c \in Controls \/ (escapeHigh /\ c \in High) -> <<"\\", "x">> \o HexOf(c)
    [] OTHER -> <<c>>
AppendEscape(c, escapeHigh) ==
  CASE c \in {"\\", "'"} -> <<"\\", c>>
    [] c = "\n" -> <<"\\", "n">>
    [] c = "\t" -> <<"\\", "t">>
    [] c = "\r" -> <<"\\", "r">>
    [] c \in Controls \/ (escapeHigh /\ c \in High) -> <<"\\", "x">> \o HexOf(c)
    [] OTHER -> <<c>>
ReprEscape(s, escapeHigh) ==
  LET written[i \in 0..Len(s)] ==
        IF i = 0 THEN <<>> ELSE written[i - 1] \o AppendEscape(s[i], escapeHigh)
  IN <<"'">> \o written[Len(s)] \o <<"'">>

FromHex(digits) ==
  IF \E c \in Controls \cup High : HexOf(c) = digits
  THEN CHOOSE c \in Controls \cup High : HexOf(c) = digits ELSE "?"
NewFromEscaped(data) ==
  LET rest(p) == Len(data) - p
      read[p \in 0..(Len(data) + 3)] ==
        CASE p >= Len(data) -> <<>>
          [] CharAt(data, p) # "\\" -> <<CharAt(data, p)>> \o read[p + 1]
          [] rest(p) = 1 -> <<"?">>
          [] OTHER ->
               LET c == CharAt(data, p + 1)
               IN CASE c \in {"\\", "'", "\""} -> <<c>> \o read[p + 2]
                    [] c = "n" -> <<"\n">> \o read[p + 2]
                    [] c = "r" -> <<"\r">> \o read[p + 2]
                    [] c = "t" -> <<"\t">> \o read[p + 2]
                    [] c = "x" /\ rest(p) >= 4 -> <<FromHex(Cut(data, p + 2, p + 4))>> \o read[p + 4]
                    [] OTHER -> <<"?">>
  IN read[0]
=============================================================================
