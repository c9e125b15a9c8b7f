----------------------------- MODULE Reference -----------------------------
(***************************************************************************)
(* What a program means, by recursion on its tree: the control flow of     *)
(* Python, with which docs/compatibility.md promises agreement for the     *)
(* documented subset.  Nothing here knows of bytecode, frames or try       *)
(* blocks.                                                                 *)
(*                                                                         *)
(* Executing statements gives the events of the execution, in order: what  *)
(* is printed and, in a generator, what is yielded; and how it ended.  A   *)
(* generator is the sequence of events still to come, of which its         *)
(* consumer takes those up to the next yield.                              *)
(***************************************************************************)
EXTENDS Integers, Sequences, FiniteSetsExt, Compiler

Ok == <<"ok">>
Thrown(t) == <<"exc", t>>
Printed(v) == <<"print", v>>
Yielded(v) == <<"yield", v>>
Stop == <<"stop">>

Result(sig, ev, env) == [sig |-> sig, ev |-> ev, env |-> env]
(* r and then q.                                                           *)
Then(r, q) == [q EXCEPT !.ev = r.ev \o @]
Value(v, ev, env) == Result(<<"value", v>>, ev, env)

Subtype(t, of) == of \in {t, "Exception"} \cup (IF t = "MyError" THEN {"ValueError"} ELSE {})

(* Take the events up to the next yield or the end.                        *)
Pull(future) ==
  LET n == CHOOSE i \in DOMAIN future :
             future[i][1] # "print" /\ \A j \in 1..i - 1 : future[j][1] = "print"
      rest == SubSeq(future, n + 1, Len(future))
  IN [ev |-> SubSeq(future, 1, n - 1), last |-> future[n],
      rest |-> IF rest = <<>> THEN <<Stop>> ELSE rest]

IsYield(v) == v[1] = "yield"
Collected(future) ==
  LET ys == SelectSeq(future, IsYield) IN [i \in DOMAIN ys |-> ys[i][2]]
IsPrint(v) == v[1] = "print"

RECURSIVE Exec(_, _, _)
RECURSIVE Eval(_, _, _)

(* A call of a function of the program, with ctx.depth activations live.   *)
Called(r, env) ==
  CASE r.sig[1] = "exc" -> Result(r.sig, r.ev, env)
    [] r.sig[1] = "return" -> Value(r.sig[2], r.ev, env)
    [] OTHER -> Value(None, r.ev, env)
Generator(r, env) ==
  Value(<<"gen", Append(r.ev, IF r.sig[1] = "exc" THEN r.sig ELSE Stop)>>, <<>>, env)

Fresh(env) == [x \in DOMAIN env |-> <<"unbound">>]
Invoke(body, env, ctx) ==
  IF Yields(body) THEN Generator(Exec(body, Fresh(env), [ctx EXCEPT !.handled = "none"]), env)
  ELSE IF ctx.depth >= ctx.limit THEN Result(Thrown("RecursionError"), <<>>, env)
  ELSE Called(Exec(body, Fresh(env), [ctx EXCEPT !.depth = @ + 1]), env)

(* next and list take their generator from a variable, which then holds    *)
(* what is left of it.                                                     *)
Rest(args, env, future) ==
  IF args[1].e = "name" THEN [env EXCEPT ![args[1].name] = <<"gen", future>>] ELSE env

TakeNext(args, p, env) ==
  CASE p.last[1] = "yield" -> Value(p.last[2], p.ev, Rest(args, env, p.rest))
    [] p.last = Stop /\ Len(args) = 2 -> Value(args[2].value, p.ev, Rest(args, env, <<Stop>>))
    [] p.last = Stop /\ Len(args) = 1 ->
         Result(Thrown("StopIteration"), p.ev, Rest(args, env, <<Stop>>))
    [] OTHER -> Result(p.last, p.ev, Rest(args, env, <<Stop>>))

TakeAll(args, future, env) ==
  Result(IF future[Len(future)] = Stop THEN <<"value", <<"list", Collected(future)>>>>
         ELSE future[Len(future)],
         SelectSeq(future, IsPrint), Rest(args, env, <<Stop>>))

Builtin(name, args, a) ==
  CASE a.sig[1] = "exc" -> a
    [] name = "print" -> Value(None, Append(a.ev, Printed(a.sig[2])), a.env)
    [] name = "fault" -> Result(Thrown(a.sig[2][2]), a.ev, a.env)
    [] name = "next" -> Then(a, TakeNext(args, Pull(a.sig[2][2]), a.env))
    [] name = "list" -> Then(a, TakeAll(args, a.sig[2][2], a.env))

Same(l, r) ==
  IF r.sig[1] = "exc" THEN Then(l, r)
  ELSE Then(l, Value(<<"bool", l.sig[2] = r.sig[2]>>, r.ev, r.env))
EqualTo(l, right, ctx) ==
  IF l.sig[1] = "exc" THEN l ELSE Same(l, Eval(right, l.env, ctx))

Eval(e, env, ctx) ==
  CASE e.e = "lit" -> Value(e.value, <<>>, env)
    [] e.e = "name" -> IF env[e.name] = <<"unbound">>
                       THEN Result(Thrown("NameError"), <<>>, env)
                       ELSE Value(env[e.name], <<>>, env)
    [] e.e = "range" -> Value(<<"range", 0, e.stop.value[2]>>, <<>>, env)
    [] e.e = "equal" -> EqualTo(Eval(e.left, env, ctx), e.right, ctx)
    [] e.e = "call" ->
         CASE e.callee.value[1] = "native" ->
                Builtin(e.callee.value[2], e.args, Eval(e.args[1], env, ctx))
           [] e.callee.value[1] = "fun" -> Invoke(ctx.funs[e.callee.value[2]], env, ctx)
           [] OTHER -> Result(Thrown("TypeError"), <<>>, env)

True(v) == v \notin {None, Num(0), <<"bool", FALSE>>}

RECURSIVE Loop(_, _, _, _)
(* One round of a for loop over it: a range, a generator of the loop's own,*)
(* or the variable that holds the generator; p is what it gives next.      *)
Advance(v) ==
  IF v[1] = "gen" THEN Pull(v[2])
  ELSE [ev |-> <<>>, rest |-> v[2] + 1,
        last |-> IF v[2] < v[3] THEN Yielded(Num(v[2])) ELSE Stop]
Left(v, p) == IF v[1] = "gen" THEN <<"gen", p.rest>> ELSE <<"range", p.rest, v[3]>>

Turn(s, it, p, env, ctx) ==
  CASE p.last = Stop -> Then(p, Exec(s.orelse, env, ctx))
    [] p.last[1] = "exc" -> Result(p.last, p.ev, env)
    [] OTHER -> Loop(s, it, Then(p, Exec(s.body, [env EXCEPT ![s.name] = p.last[2]], ctx)),
                     ctx)

RoundOf(s, v, p, name, env, ctx) ==
  IF name # "" THEN Turn(s, <<"name", name>>, p, [env EXCEPT ![name] = Left(v, p)], ctx)
  ELSE Turn(s, Left(v, p), p, env, ctx)
RoundOn(s, v, name, env, ctx) == RoundOf(s, v, Advance(v), name, env, ctx)
Round(s, it, env, ctx) ==
  IF it[1] = "name" THEN RoundOn(s, env[it[2]], it[2], env, ctx)
  ELSE RoundOn(s, it, "", env, ctx)

(* After the body: leave the loop or go round again.                       *)
Test(s, c, ctx) ==
  CASE c.sig[1] = "exc" -> c
    [] c.sig[1] # "exc" /\ True(c.sig[2]) -> Loop(s, Stop, Then(c, Exec(s.body, c.env, ctx)), ctx)
    [] OTHER -> Then(c, Exec(s.orelse, c.env, ctx))

Loop(s, it, r, ctx) ==
  CASE r.sig = <<"break">> -> [r EXCEPT !.sig = Ok]
    [] r.sig \in {Ok, <<"continue">>} ->
         Then(r, IF s.s = "for" THEN Round(s, it, r.env, ctx)
                 ELSE Test(s, Eval(s.condition, r.env, ctx), ctx))
    [] OTHER -> r

(* The first handler that takes the exception of b, if there is one.       *)
Handled(s, b, ctx) ==
  LET matching == {i \in DOMAIN s.handlers : b.sig[1] = "exc" /\
                     (s.handlers[i].type = "any" \/ Subtype(b.sig[2], s.handlers[i].type))}
  IN IF matching = {} THEN b
     ELSE Then(b, Exec(s.handlers[Min(matching)].body, b.env,
                       [ctx EXCEPT !.handled = b.sig[2]]))

(* The finally clause runs in every case, and its own transfer wins.       *)
Finally(r, f) == Then(r, [f EXCEPT !.sig = IF @ = Ok THEN r.sig ELSE @])
ThenFinally(s, r, ctx) == Finally(r, Exec(s.final, r.env, ctx))
ExecTry(s, b, ctx) == ThenFinally(s, Handled(s, b, ctx), ctx)

(* The end of a statement whose expression came to v.                      *)
Finish(s, v) ==
  CASE v.sig[1] = "exc" -> v
    [] s.s = "expr" -> [v EXCEPT !.sig = Ok]
    [] s.s = "assign" -> Result(Ok, v.ev, [v.env EXCEPT ![s.name] = v.sig[2]])
    [] s.s = "return" -> [v EXCEPT !.sig = <<"return", v.sig[2]>>]
    [] s.s = "yield" -> Result(Ok, Append(v.ev, Yielded(v.sig[2])), v.env)

Branch(s, c, ctx) ==
  IF c.sig[1] = "exc" THEN c
  ELSE Then(c, Exec(IF True(c.sig[2]) THEN s.body ELSE s.orelse, c.env, ctx))

Start(s, it, ctx) ==
  IF it.sig[1] = "exc" THEN it
  ELSE Then(it, Round(s, IF s.iterable.e = "name"
                         THEN <<"name", s.iterable.name>> ELSE it.sig[2], it.env, ctx))

Exec1(s, env, ctx) ==
  CASE s.s \in {"expr", "assign", "return", "yield"} -> Finish(s, Eval(s.value, env, ctx))
    [] s.s = "if" -> Branch(s, Eval(s.condition, env, ctx), ctx)
    [] s.s = "while" -> Loop(s, Stop, Result(Ok, <<>>, env), ctx)
    [] s.s = "for" -> Start(s, Eval(s.iterable, env, ctx), ctx)
    [] s.s \in {"break", "continue"} -> Result(<<s.s>>, <<>>, env)
    [] s.s = "return_none" -> Result(<<"return", None>>, <<>>, env)
    [] s.s = "raise" ->
         Result(Thrown(IF s.value = Lit(None) THEN ctx.handled ELSE s.value.value[2]),
                <<>>, env)
    [] s.s = "try" -> ExecTry(s, Exec(s.body, env, ctx), ctx)
    [] s.s = "with" ->
         LET b == Exec(s.body, env, ctx)
         IN [b EXCEPT !.ev = <<Printed(<<"enter">>)>> \o @ \o <<Printed(<<"exit">>)>>]
    [] s.s = "pass" -> Result(Ok, <<>>, env)

Exec(ss, env, ctx) ==
  IF ss = <<>> THEN Result(Ok, <<>>, env)
  ELSE LET r == Exec1(Head(ss), env, ctx)
       IN IF r.sig = Ok THEN Then(r, Exec(Tail(ss), r.env, ctx)) ELSE r

(* What the program prints, and the exception that ends it if one does.    *)
Meaning(program, locals, limit) ==
  LET r == Exec(program.main, locals,
                [funs |-> program.funs, handled |-> "none", depth |-> 1, limit |-> limit])
  IN [out |-> [i \in DOMAIN r.ev |-> r.ev[i][2]],
      end |-> IF r.sig[1] = "exc" THEN r.sig[2] ELSE "halted"]
=============================================================================
