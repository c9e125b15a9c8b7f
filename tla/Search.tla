-------------------------------- MODULE Search --------------------------------
(***************************************************************************)
(* Searching in strings (string_methods.c, string.c), and what is to be    *)
(* found.  A string is a sequence of characters; positions count from 0, as*)
(* in the code, so that Cut(s, a, b) is what a copy of b - a bytes from    *)
(* s->data + a is.                                                         *)
(***************************************************************************)
EXTENDS Integers, Sequences, FiniteSets

CONSTANTS None,                      \* an argument that was not given
          Characters,                \* what a string has that is searched
          Subs, Offsets              \* what is looked for, and from where to where
ASSUME SearchAssumption == None \notin Int /\ Subs \subseteq Seq(Characters) /\ Offsets \subseteq Int

Value(v) == [ok |-> TRUE, value |-> v]
Raised(kind) == [ok |-> FALSE, value |-> kind]

Cut(s, a, b) == SubSeq(s, a + 1, b)

-----------------------------------------------------------------------------
(* The methods.                                                            *)

ClampIndex(i, length) ==
  IF i < 0 THEN (IF i + length < 0 THEN 0 ELSE i + length) ELSE IF i > length THEN length ELSE i
Window(s, start, end) ==
  LET a == ClampIndex(IF start = None THEN 0 ELSE start, Len(s))
      b == ClampIndex(IF end = None THEN Len(s) ELSE end, Len(s))
  IN [start |-> a, end |-> IF b < a THEN a ELSE b]
MatchAt(s, sub, p) == Cut(s, p, p + Len(sub)) = sub

FindBytes(s, sub, start, end) ==
  LET from[p \in start..(end + 1)] ==
        IF p + Len(sub) > end THEN -1 ELSE IF MatchAt(s, sub, p) THEN p ELSE from[p + 1]
  IN IF sub = <<>> THEN start ELSE from[start]
(* A bug to detect: the search begins one place too early.                 *)
RFindBytesShort(s, sub, start, end) ==
  LET back[p \in start..end] ==
        IF p > start /\ MatchAt(s, sub, p - 1) THEN p - 1
        ELSE IF p <= start + 1 THEN -1 ELSE back[p - 1]
  IN IF sub = <<>> THEN end ELSE IF Len(sub) > end - start THEN -1 ELSE back[end - Len(sub)]
RFindBytes(s, sub, start, end) ==
  LET back[p \in start..end] ==
        IF MatchAt(s, sub, p) THEN p ELSE IF p = start THEN -1 ELSE back[p - 1]
  IN IF sub = <<>> THEN end ELSE IF Len(sub) > end - start THEN -1 ELSE back[end - Len(sub)]

StringFind(s, sub, start, end) ==
  LET w == Window(s, start, end) IN FindBytes(s, sub, w.start, w.end)
StringRFind(s, sub, start, end) ==
  LET w == Window(s, start, end) IN RFindBytes(s, sub, w.start, w.end)
StringIndex(found) == IF found < 0 THEN Raised("ValueError") ELSE Value(found)
(* Occurrences that do not overlap, counted from p on.                     *)
CountFrom(s, sub, start, end) ==
  LET from[p \in start..(end + 1)] ==
        LET found == FindBytes(s, sub, p, end)
        IN IF p + Len(sub) > end \/ found < 0 THEN 0 ELSE 1 + from[found + Len(sub)]
  IN from[start]
StringCount(s, sub, start, end) ==
  LET w == Window(s, start, end)
  IN IF sub = <<>> THEN w.end - w.start + 1 ELSE CountFrom(s, sub, w.start, w.end)

PrefixAt(s, x, w) == Len(x) <= w.end - w.start /\ MatchAt(s, x, w.start)
SuffixAt(s, x, w) == Len(x) <= w.end - w.start /\ MatchAt(s, x, w.end - Len(x))
(* startswith and endswith of one string or of a tuple of them.            *)
StartsWith(s, prefixes, start, end) ==
  LET w == Window(s, start, end) IN \E i \in DOMAIN prefixes : PrefixAt(s, prefixes[i], w)
EndsWith(s, suffixes, start, end) ==
  LET w == Window(s, start, end) IN \E i \in DOMAIN suffixes : SuffixAt(s, suffixes[i], w)
StringContains(s, sub) ==
  sub = <<>> \/ \E p \in 0..(Len(s) - Len(sub)) : MatchAt(s, sub, p)

(* A slice.                                                                *)
StringSlice(s, start, end) ==
  LET w == Window(s, start, end) IN Cut(s, w.start, w.end)

-----------------------------------------------------------------------------
(* A string that is searched, one character longer with every step; None   *)
(* where nothing is.                                                       *)

VARIABLE subject

Lengthen == subject # None /\ \E c \in Characters : subject' = Append(subject, c)
SearchSpec == subject \in {<<>>, None} /\ [][Lengthen]_subject

Least(set) == CHOOSE n \in set : \A m \in set : n <= m
Greatest(set) == CHOOSE n \in set : \A m \in set : n >= m

(* The places of sub in s between two offsets, of which a negative one     *)
(* counts from the end.                                                    *)
Offset(s, i) == IF i < 0 THEN i + Len(s) ELSE i
Places(s, sub, start, end) ==
  {p \in 0..(Len(s) - Len(sub)) : /\ MatchAt(s, sub, p)
                                  /\ start # None => p >= Offset(s, start)
                                  /\ end # None => p + Len(sub) <= Offset(s, end)}
Apart(places, n) == \A p, q \in places : p < q => q - p >= n

FindsExact(s, sub, start, end) ==
  LET places == Places(s, sub, start, end)
  IN /\ StringFind(s, sub, start, end) = Least(places \cup IF places = {} THEN {-1} ELSE {})
     /\ StringRFind(s, sub, start, end) = Greatest(places \cup {-1})
     /\ StringIndex(StringFind(s, sub, start, end)).ok <=> places # {}
     /\ StringContains(s, sub) <=> Places(s, sub, None, None) # {}
CountsMost(s, sub, start, end) ==
  StringCount(s, sub, start, end)
    = Greatest({Cardinality(p) : p \in {q \in SUBSET Places(s, sub, start, end) : Apart(q, Len(sub))}})
SliceExact(s, start, end) ==
  LET window == StringSlice(s, start, end)
  IN window = [i \in 1..Len(window) |-> s[Least(Places(s, <<>>, start, None)) + i]]
EndsExact(s, sub, start, end) ==
  LET window == StringSlice(s, start, end)
  IN /\ StartsWith(s, <<sub>>, start, end) <=> Places(window, sub, 0, Len(sub)) # {}
     /\ EndsWith(s, <<sub>>, start, end) <=> Places(window, sub, -Len(sub), None) # {}

(* find and index give the first place of a substring that is not empty,   *)
(* rfind the last, count the most that do not overlap; startswith and      *)
(* endswith say whether the first or the last place there can be is one.   *)
(* (string_methods.c:98-490)                                               *)
SearchesExact ==
  subject # None =>
    \A sub \in Subs \ {<<>>}, start \in {None} \cup Offsets, end \in {None} \cup Offsets :
      /\ FindsExact(subject, sub, start, end)
      /\ CountsMost(subject, sub, start, end)
      /\ SliceExact(subject, start, end)
      /\ EndsExact(subject, sub, start, end)
=============================================================================
