------------------------------- MODULE MCText -------------------------------
(***************************************************************************)
(* The texts that are checked: of each family, what is typed, and how many *)
(* times.  A fragment may be several elements, so that a few of them make  *)
(* the shortest text in which the interesting case happens.                *)
(***************************************************************************)
EXTENDS Text

Typed == [
  layout |->
    [bound |-> 5, fragments |->
      {<<"a">>, <<"(">>, <<")">>, <<"#">>,
       <<" ">>, <<"\n">>, <<"\t">>, <<"\n", " ">>,
       <<"\n", " ", " ">>}],
  number |->
    [bound |-> 5, fragments |->
      {<<"0">>, <<"1">>, <<"2">>, <<"8">>, <<"a">>,
       <<"_">>, <<"0", "x">>, <<"0", "b">>, <<"1", "0">>, <<"0", "o">>}],
  operators |->
    [bound |-> 5, fragments |->
      {<<"a">>, <<" ", "not", " ">>, <<"-">>, <<"(">>,
       <<")">>, <<"=", "=", "a">>, <<"+", "a">>, <<"*", "a">>,
       <<" ", "or", " ", "a">>}],
  conditions |->
    [bound |-> 5, fragments |->
      {<<"a">>, <<" ", "if", " ">>, <<" ", "else", " ">>, <<" ", "if", " ", "a", " ", "else", " ", "a">>,
       <<" ", "not", " ", "in", " ", "a">>, <<"(">>, <<")">>, <<" ", "and", " ", "a">>}],
  displays |->
    [bound |-> 5, fragments |->
      {<<"a">>, <<"[">>, <<"(">>, <<"{">>,
       <<"]">>, <<")">>, <<"}">>, <<",", "a">>,
       <<":", "a">>, <<" ", "for", " ", "x", " ", "in", " ", "a">>, <<" ", "if", " ", "a">>, <<",">>}],
  suffixes |->
    [bound |-> 5, fragments |->
      {<<"a">>, <<"(">>, <<")">>, <<"[">>,
       <<"]">>, <<":">>, <<".", "b">>, <<",">>,
       <<"a", " ", "for", " ", "x", " ", "in", " ", "a">>}],
  clauses |->
    [bound |-> 4, fragments |->
      {<<"if", " ", "a", ":">>, <<"else", ":">>, <<" ", "pass">>, <<"\n">>,
       <<"while", " ", "a", ":">>, <<" ", "break">>, <<"yield", " ", "a">>, <<"return", " ", "a", ",", "a">>,
       <<"def", " ", "f", "(", "x", ")", ":">>, <<" ", "raise">>, <<"import", " ", "a", " ", "as", " ", "b">>, <<"\n", " ">>,
       <<"from", " ", "a", " ", "import", " ", "b", ",", "c">>}],
  lines |->
    [bound |-> 5, fragments |->
      {<<"x">>, <<",">>, <<"=">>, <<"+", "=">>,
       <<"(">>, <<")">>, <<"[", "a", "]">>, <<".", "b">>,
       <<"\n">>}],
  blocks |->
    [bound |-> 5, fragments |->
      {<<"if", " ", "a", ":", "\n">>, <<" ", "pass", "\n">>, <<"elif", " ", "a", ":", "\n">>, <<"else", ":", "\n">>,
       <<" ", " ", "a", "\n">>, <<" ", "if", " ", "a", ":", "\n">>, <<" ", "else", ":", "\n">>}],
  loops |->
    [bound |-> 4, fragments |->
      {<<"def", " ", "f", "(", ")", ":", "\n">>, <<" ", "return", " ", "a", "\n">>, <<"while", " ", "a", ":", "\n">>, <<" ", "break", "\n">>,
       <<" ", " ", "break", "\n">>, <<" ", "while", " ", "a", ":", "\n">>, <<" ", "def", " ", "f", "(", ")", ":", "\n">>, <<"else", ":", "\n">>,
       <<" ", "for", " ", "x", " ", "in", " ", "a", ":", "\n">>}],
  tries |->
    [bound |-> 4, fragments |->
      {<<"try", ":", "\n">>, <<" ", "a", "\n">>, <<"except", ":", "\n">>, <<"except", " ", "a", " ", "as", " ", "x", ":", "\n">>,
       <<"finally", ":", "\n">>, <<"with", " ", "a", " ", "as", " ", "x", ":", "\n">>, <<"try", ":", " ", "a", "\n">>, <<"class", " ", "x", "(", "a", ")", ":", "\n">>,
       <<" ", "def", " ", "f", "(", "x", ")", ":", "a", "\n">>, <<" ", "x", "=", "a", "\n">>}],
  format |->
    [bound |-> 5, fragments |->
      {<<"{">>, <<"}">>, <<"a">>, <<"!">>,
       <<"r">>, <<":">>, <<"[">>, <<"[", "{">>,
       <<"}", "]">>}],
  words |->
    [bound |-> 0, fragments |-> {}],
  search |->
    [bound |-> 5, fragments |-> {}],
  blanks |->
    [bound |-> 5, fragments |->
      {<<"a">>, <<" ">>, <<"\n">>, <<"\r">>}],
  escapes |->
    [bound |-> 4, fragments |->
      {<<"a">>, <<"\\">>, <<"'">>, <<"\n">>,
       <<"x">>, <<"0">>, <<"1">>, <<"^a">>,
       <<"^h">>}],
  translate |->
    [bound |-> 4, fragments |->
      {<<"a">>, <<"b">>, <<"n">>}],
  forms |->
    [bound |-> 4, fragments |->
      {<<"a">>, <<"A">>, <<"0">>, <<"-">>,
       <<"\t">>, <<"\n">>}]]
(* What is searched, for what, and between which places.                   *)
MCCharacters == {"a", "b"}
MCSubs == UpTo(MCCharacters, 2)
MCOffsets == -3..4

MCFamilies == DOMAIN Typed
MCFragments == [f \in MCFamilies |-> Typed[f].fragments]
MCBound == [f \in MCFamilies |-> Typed[f].bound]

(* The family of brackets over several lines.                              *)
Groups ==
  {<<"a">>, <<"=">>, <<"(">>, <<")">>, <<"\n">>, <<"\n", " ">>, <<",">>}
GroupFamilies == {"groups"}
GroupFragments == [f \in GroupFamilies |-> Groups]
GroupBound == [f \in GroupFamilies |-> 7]
=============================================================================
