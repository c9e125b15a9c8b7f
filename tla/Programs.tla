------------------------------ MODULE Programs ------------------------------
(***************************************************************************)
(* The programs that the interpreter is checked on: every combination of a *)
(* transfer of control, what it is wrapped in, a loop, and a caller.       *)
(***************************************************************************)
EXTENDS Integers, Sequences, Compiler

P(n) == Expr(CallOf(Native("print"), <<Lit(Num(n))>>))
Show(e) == Expr(CallOf(Native("print"), <<e>>))
RaiseT(t) == Raise(Lit(Type(t)))
Fault(t) == Expr(CallOf(Native("fault"), <<Lit(Type(t))>>))
NextOf(x) == CallOf(Native("next"), <<Name(x)>>)
NextOr(x, n) == CallOf(Native("next"), <<Name(x), Lit(Num(n))>>)
ListOf(x) == CallOf(Native("list"), <<Name(x)>>)
F == CallOf(Fun("f"), <<>>)

Acts == <<Pass, Break, Continue, Return(Lit(Num(7))), RaiseT("ValueError"),
          RaiseT("MyError"), Fault("KeyError")>>
(* The transfer happens in every round of the loop, or only in the second. *)
Guards == <<TRUE, FALSE>>
Act(a, g) == IF Guards[g] THEN If(Equal(Name("x"), Lit(Num(1))), <<Acts[a]>>) ELSE Acts[a]

Excepts == << <<>>,
              <<Handler("ValueError", <<P(3)>>)>>,
              <<Handler("any", <<P(3)>>)>>,
              <<Handler("MyError", <<P(3)>>), Handler("ValueError", <<P(4)>>)>>,
              <<Handler("any", <<P(3), Raise(Lit(None))>>)>>,
              <<Handler("ValueError", <<Break>>)>>,
              <<Handler("KeyError", <<Return(Lit(Num(5)))>>)>> >>
Finals == << <<>>, <<P(6)>> >>

(* What surrounds the transfer: nothing, a with statement, a try statement.*)
Wraps == {<<"bare", 1, 1>>, <<"with", 1, 1>>}
         \cup (({"try"} \X (DOMAIN Excepts) \X (DOMAIN Finals)) \ {<<"try", 1, 1>>})
Wrap(w, ss) ==
  CASE w[1] = "bare" -> ss
    [] w[1] = "with" -> <<With(ss)>>
    [] w[1] = "try" -> <<Try(ss, Excepts[w[2]], Finals[w[3]])>>

LoopOf(l, ss) ==
  IF l = "for" THEN <<For("x", RangeOf(3), ss, <<P(2)>>)>>
  ELSE <<Assign("x", Lit(Num(1))), Assign("y", Lit(Num(1))),
         While(Equal(Name("y"), Lit(Num(1))), <<Assign("y", Lit(Num(0)))>> \o ss, <<P(2)>>)>>

(* In a function every round prints, in a generator it yields.             *)
Emit(k) == IF k = "fun" THEN Show(Name("x")) ELSE Yield(Name("x"))

Callers ==
  [fun   |-> <<Try(<<Show(F)>>, <<Handler("ValueError", <<P(8)>>)>>, <<>>), P(9)>>,
   loop  |-> <<For("y", F, <<Show(Name("y"))>>, <<P(8)>>), P(9)>>,
   stop  |-> <<Try(<<For("y", F, <<Show(Name("y")), If(Equal(Name("y"), Lit(Num(1))), <<Break>>)>>,
                         <<P(8)>>)>>, <<Handler("any", <<P(7)>>)>>, <<>>), P(9)>>,
   next  |-> <<Assign("g", F),
               Try(<<Show(NextOf("g")), For("y", Name("g"), <<Show(Name("y"))>>, <<>>),
                     Show(NextOr("g", 0)), Show(NextOf("g"))>>,
                   <<Handler("StopIteration", <<P(8)>>)>>, <<P(9)>>)>>,
   list  |-> <<Assign("g", F), Try(<<Show(ListOf("g"))>>, <<Handler("ValueError", <<P(8)>>)>>, <<>>),
               Show(ListOf("g"))>>]

(* inner: the wrapped transfer is in the loop; outer: the loop is wrapped. *)
Ids(inner, outer, callers) ==
  ({"inner"} \X inner \X {"for", "while"} \X (DOMAIN Acts) \X (DOMAIN Guards) \X callers)
  \cup ({"outer"} \X outer \X {"for", "while"} \X (DOMAIN Acts) \X (DOMAIN Guards) \X callers)

Wrapped(id) ==
  LET w == id[2]
      act == <<Emit(IF id[6] = "fun" THEN "fun" ELSE "gen"), Act(id[4], id[5])>>
      body == IF id[1] = "inner"
              THEN LoopOf(id[3], Wrap(w, act) \o <<P(0)>>)
              ELSE Wrap(w, LoopOf(id[3], act \o <<P(0)>>))
  IN [main |-> Callers[id[6]], funs |-> [f |-> body \o <<P(1)>>]]

(* Programs of other shapes: recursion to the limit, a generator that      *)
(* consumes another, an exception through both, two generators in turn,    *)
(* and errors of single instructions.                                      *)
Emits(n) == Yield(Lit(Num(n)))
H == CallOf(Fun("h"), <<>>)
Caught(ss, t) == <<Try(ss, <<Handler(t, <<P(8)>>)>>, <<P(9)>>), P(1)>>
Specials ==
  [recursion |-> [main |-> Caught(<<Expr(F)>>, "RecursionError"),
                  funs |-> [f |-> <<P(2), Try(<<Expr(F)>>, <<>>, <<P(3)>>)>>]],
   nested    |-> [main |-> <<For("y", F, <<Show(Name("y"))>>, <<P(8)>>)>>,
                  funs |-> [f |-> <<For("x", H, <<Yield(Name("x"))>>, <<>>), Emits(2)>>,
                            h |-> <<Try(<<Emits(0), Emits(1)>>, <<>>, <<P(6)>>)>>]],
   through   |-> [main |-> Caught(<<For("y", F, <<Show(Name("y"))>>, <<>>)>>, "ValueError"),
                  funs |-> [f |-> <<For("x", H, <<Yield(Name("x"))>>, <<>>)>>,
                            h |-> <<With(<<Emits(0), RaiseT("MyError")>>)>>]],
   turns     |-> [main |-> <<Assign("g", F), Assign("h", H)>>
                           \o Caught(<<Show(NextOf("g")), Show(NextOf("h")), Show(NextOf("g")),
                                       Show(ListOf("h")), Show(NextOf("g"))>>, "StopIteration"),
                  funs |-> [f |-> <<For("x", RangeOf(2), <<Yield(Name("x"))>>, <<>>)>>,
                            h |-> <<Emits(5), Try(<<Emits(6), Fault("KeyError")>>,
                                                  <<Handler("any", <<Emits(7)>>)>>, <<>>)>>]],
   collect   |-> [main |-> <<Assign("g", F)>> \o Caught(<<Show(ListOf("g"))>>, "KeyError"),
                  funs |-> [f |-> <<For("x", H, <<Yield(Name("x"))>>, <<>>), Fault("KeyError")>>,
                            h |-> <<Emits(4), P(5)>>]],
   levels    |-> [main |-> <<Expr(F),
                             Try(<<Try(<<RaiseT("KeyError")>>, <<Handler("any", <<P(3)>>)>>, <<>>), P(4),
                                   RaiseT("MyError")>>,
                                 <<Handler("KeyError", <<P(5)>>), Handler("ValueError", <<P(6)>>)>>,
                                 <<P(7)>>)>>,
                  funs |-> [f |-> <<Try(<<Try(<<Fault("KeyError")>>, <<Handler("any", <<P(0)>>)>>, <<P(1)>>)>>,
                                        <<Handler("any", <<P(2)>>)>>, <<>>)>>]],
   name      |-> [main |-> Caught(<<Show(Name("y"))>>, "NameError"), funs |-> [f |-> <<>>]],
   call      |-> [main |-> Caught(<<Expr(CallOf(Num(3), <<>>))>>, "TypeError"),
                  funs |-> [f |-> <<>>]]]

(* Small programs of the documented language that go wrong, in Python:     *)
(*   def f(): for x in range(3): return 7                                  *)
(*   print(f())                                                            *)
(* and                                                                     *)
(*   for x in range(3): try: break except ValueError: print(3)             *)
(*   raise ValueError                                                      *)
(* and                                                                     *)
(*   try: for x in range(3): break  finally: print(6)                      *)
(* and                                                                     *)
(*   try: raise MyError except MyError: print(3)                           *)
(*   try: int("zz") except MyError: print(1) except ValueError: print(2)   *)
(* and                                                                     *)
(*   try: raise KeyError except KeyError: raise MyError  finally: print(6) *)
NoFuns == [f |-> <<>>]
Faulty ==
  [return_in_for    |-> [main |-> <<Show(F)>>,
                         funs |-> [f |-> <<For("x", RangeOf(3), <<Return(Lit(Num(7)))>>, <<>>)>>]],
   break_in_try     |-> [main |-> <<For("x", RangeOf(3), <<Try(<<Break>>, Excepts[2], <<>>)>>, <<>>),
                                    RaiseT("ValueError")>>, funs |-> NoFuns],
   break_finally    |-> [main |-> <<Try(<<For("x", RangeOf(3), <<Break>>, <<>>)>>, <<>>, Finals[2])>>,
                         funs |-> NoFuns],
   sticky_exception |-> [main |-> <<Try(<<RaiseT("MyError")>>, <<Handler("MyError", <<P(3)>>)>>, <<>>),
                                    Try(<<Fault("ValueError")>>,
                                        <<Handler("MyError", <<P(1)>>), Handler("ValueError", <<P(2)>>)>>,
                                        <<>>)>>, funs |-> NoFuns],
   raise_in_handler |-> [main |-> <<Try(<<RaiseT("KeyError")>>, <<Handler("KeyError", <<RaiseT("MyError")>>)>>,
                                        Finals[2])>>, funs |-> NoFuns]]

Build(id) ==
  CASE id[1] = "special" -> Specials[id[2]]
    [] id[1] = "faulty" -> Faulty[id[2]]
    [] OTHER -> Wrapped(id)

-----------------------------------------------------------------------------
(* The programs for which the compiler's inlining is right.                *)

Context == [loop |-> "none", live |-> 0, outer |-> FALSE, final |-> FALSE,
            with |-> FALSE, for |-> FALSE, risky |-> FALSE]

(* c.live: try blocks entered since the innermost loop began; c.outer: a   *)
(* finally clause outside that loop; c.risky: in a handler whose try       *)
(* statement has a finally clause.                                         *)
RECURSIVE Supported(_, _, _)
Supported(ss, gen, c) ==
  \A i \in DOMAIN ss :
    LET s == ss[i]
        inLoop == [c EXCEPT !.loop = s.s, !.live = 0, !.outer = c.outer \/ c.final,
                            !.final = FALSE, !.for = c.for \/ s.s = "for"]
    IN CASE s.s \in {"break", "continue"} -> c.live = 0 /\ ~c.outer
         [] s.s \in {"return", "return_none"} -> ~c.with /\ (c.for => gen)
         [] s.s = "raise" -> ~c.risky
         [] s.s = "if" -> Supported(s.body, gen, c) /\ Supported(s.orelse, gen, c)
         [] s.s \in {"for", "while"} ->
              Supported(s.body, gen, inLoop) /\ Supported(s.orelse, gen, c)
         [] s.s = "with" -> Supported(s.body, gen, [c EXCEPT !.live = @ + 1, !.with = TRUE])
         [] s.s = "try" ->
              LET fin == c.final \/ s.final # <<>>
              IN /\ Supported(s.body, gen, [c EXCEPT !.live = @ + 1, !.final = fin])
                 /\ \A h \in DOMAIN s.handlers :
                      Supported(s.handlers[h].body, gen,
                                [c EXCEPT !.final = fin, !.risky = @ \/ s.final # <<>>])
                 /\ Supported(s.final, gen, c)
         [] OTHER -> TRUE

Good(program) ==
  /\ Supported(program.main, FALSE, Context)
  /\ \A f \in DOMAIN program.funs :
       Supported(program.funs[f], Yields(program.funs[f]), Context)

(* A break needs a loop around it.                                         *)
RECURSIVE Placed(_, _)
Placed(ss, inLoop) ==
  \A i \in DOMAIN ss :
    LET s == ss[i]
    IN CASE s.s \in {"break", "continue"} -> inLoop
         [] s.s = "if" -> Placed(s.body, inLoop) /\ Placed(s.orelse, inLoop)
         [] s.s \in {"for", "while"} -> Placed(s.body, TRUE) /\ Placed(s.orelse, inLoop)
         [] s.s = "with" -> Placed(s.body, inLoop)
         [] s.s = "try" ->
              /\ Placed(s.body, inLoop) /\ Placed(s.final, inLoop)
              /\ \A h \in DOMAIN s.handlers : Placed(s.handlers[h].body, inLoop)
         [] OTHER -> TRUE

AllIds == {id \in Ids(Wraps, Wraps, DOMAIN Callers) : Placed(Wrapped(id).funs.f, FALSE)}
GoodIds == {id \in AllIds : Good(Wrapped(id))} \cup ({"special"} \X (DOMAIN Specials))
=============================================================================
