------------------------------ MODULE Compiler ------------------------------
(***************************************************************************)
(* The statement compiler (compiler.c) for the constructs that move        *)
(* control: if, while, for, break, continue, return, yield, raise, try,    *)
(* with.  A program is a tree in the shape of the AST; compiling it gives  *)
(* a sequence of the instructions of Bytecode.                             *)
(***************************************************************************)
EXTENDS Integers, Sequences, Bytecode

(* Expressions.                                                            *)
Lit(v) == [e |-> "lit", value |-> v]
Name(x) == [e |-> "name", name |-> x]
Equal(l, r) == [e |-> "equal", left |-> l, right |-> r]
CallOf(callee, args) == [e |-> "call", callee |-> Lit(callee), args |-> args]
RangeOf(n) == [e |-> "range", stop |-> Lit(Num(n))]

(* Statements.                                                             *)
Expr(e) == [s |-> "expr", value |-> e]
Assign(x, e) == [s |-> "assign", name |-> x, value |-> e]
If(e, ss) == [s |-> "if", condition |-> e, body |-> ss, orelse |-> <<>>]
While(e, ss, els) == [s |-> "while", condition |-> e, body |-> ss, orelse |-> els]
For(x, e, ss, els) ==
  [s |-> "for", name |-> x, iterable |-> e, body |-> ss, orelse |-> els]
Break == [s |-> "break"]
Continue == [s |-> "continue"]
Pass == [s |-> "pass"]
Return(e) == [s |-> "return", value |-> e]
ReturnNone == [s |-> "return_none"]
Yield(e) == [s |-> "yield", value |-> e]
Raise(e) == [s |-> "raise", value |-> e]
Handler(t, ss) == [type |-> t, body |-> ss]
Try(ss, hs, fin) == [s |-> "try", body |-> ss, handlers |-> hs, final |-> fin]
With(ss) == [s |-> "with", context |-> Lit(Manager), body |-> ss]

RECURSIVE CompileExpr(_)
CompileExpr(e) ==
  CASE e.e = "lit" -> <<I("LOAD", e.value)>>
    [] e.e = "name" -> <<I("LOAD_NAME", e.name)>>
    [] e.e = "equal" -> CompileExpr(e.left) \o CompileExpr(e.right) \o <<Op("EQUAL")>>
    [] e.e = "range" -> CompileExpr(e.stop)
    [] e.e = "call" ->
         LET arg[i \in 0..Len(e.args)] ==
               IF i = 0 THEN CompileExpr(e.callee)
               ELSE arg[i - 1] \o CompileExpr(e.args[i])
         IN arg[Len(e.args)] \o <<I("CALL", Len(e.args))>>

(* py68_compile_iterable.                                                  *)
CompileIterable(e) == CompileExpr(e) \o <<I("RANGE_INIT", 1)>>

(* Py68LoopContext.  A break is emitted as a jump without a target, which  *)
(* py68_loop_context_patch_breaks fills in when the loop's end is known.   *)
NoLoop == [target |-> 0, pop_on_break |-> FALSE]
Patch(code, end) ==
  [i \in DOMAIN code |-> IF code[i].op = "BREAK" THEN I("JUMP", end) ELSE code[i]]

(* break takes the iterator of a for loop off the stack.                   *)
PopOnBreak(loop) == IF loop.pop_on_break THEN <<Op("POP")>> ELSE <<>>

(* A bug to detect: an unmatched exception skips the finally clause.       *)
UnmatchedWithoutFinally(fin) == <<Op("RAISE")>>
(* After the last handler: run the finally clause and raise what is still  *)
(* on the stack.                                                           *)
Unmatched(fin) == fin \o <<Op("RAISE")>>

RECURSIVE CompileStatements(_, _, _, _)

(* py68_compile_finally_chain: the finally clauses of every enclosing try  *)
(* statement of the function, inlined before a transfer of control.        *)
RECURSIVE FinallyChain(_, _, _)
FinallyChain(at, loop, trys) ==
  IF trys = <<>> THEN <<>>
  ELSE LET c == CompileStatements(Head(trys), at, loop, Tail(trys))
       IN c \o FinallyChain(at + Len(c), loop, Tail(trys))

CompileLoop(s, at, loop, trys) ==
  LET isFor == s.s = "for"
      init == IF isFor THEN CompileIterable(s.iterable) ELSE <<>>
      start == at + Len(init)
      test == IF isFor THEN <<>> ELSE CompileExpr(s.condition)
      bind == IF isFor THEN <<I("STORE_NAME", s.name)>> ELSE <<>>
      bodyAt == start + Len(test) + 1 + Len(bind)
      body == CompileStatements(s.body, bodyAt,
                [target |-> start, pop_on_break |-> isFor], trys)
      end == bodyAt + Len(body) + 1
      els == CompileStatements(s.orelse, end, loop, trys)
  IN init \o test \o <<I(IF isFor THEN "RANGE_NEXT" ELSE "JUMP_IF_FALSE", end)>>
     \o bind \o Patch(body, end + Len(els)) \o <<I("JUMP", start)>> \o els

(* One except clause: its code ends in a jump to done, and a type that     *)
(* does not match falls to the code after it.                              *)
CompileHandler(h, at, done, loop, trys) ==
  LET check == IF h.type = "any" THEN 0 ELSE 2
      body == CompileStatements(h.body, at + check + 1, loop, trys)
      next == at + check + 1 + Len(body) + 1
  IN (IF h.type = "any" THEN <<>>
      ELSE <<I("LOAD", Type(h.type)), I("CHECK_EXCEPT", next)>>)
     \o <<Op("POP")>> \o body \o <<I("JUMP", done)>>

RECURSIVE CompileHandlers(_, _, _, _, _)
CompileHandlers(hs, at, done, loop, trys) ==
  IF hs = <<>> THEN <<>>
  ELSE LET c == CompileHandler(Head(hs), at, done, loop, trys)
       IN c \o CompileHandlers(Tail(hs), at + Len(c), done, loop, trys)

(* The finally clause is on the chain for the body and the handlers.       *)
CompileTry(s, at, loop, trys) ==
  LET child == <<s.final>> \o trys
      body == CompileStatements(s.body, at + 1, loop, child)
      handlersAt == at + 1 + Len(body) + 2
      handlers(done) == CompileHandlers(s.handlers, handlersAt, done, loop, child)
      finalAt == handlersAt + Len(handlers(0))
      unmatched == Unmatched(CompileStatements(s.final, finalAt, loop, trys))
      end == finalAt + Len(unmatched)
  IN <<I("SETUP_TRY", handlersAt)>> \o body \o <<Op("POP_TRY"), I("JUMP", end)>>
     \o handlers(end) \o unmatched \o CompileStatements(s.final, end, loop, trys)

CallExit == <<Op("LOAD_EXIT"), I("LOAD", None), I("LOAD", None), I("LOAD", None),
              I("CALL", 3), Op("POP")>>
(* A bug to detect: __exit__ is called while the try block is still open.  *)
LeaveWithLate == CallExit \o <<Op("POP_TRY")>>
(* The end of the body: the try block is closed, then __exit__ is called.  *)
LeaveWith == <<Op("POP_TRY")>> \o CallExit

(* The try block of a with statement is not on the chain of finally        *)
(* clauses: its body is compiled with the enclosing context.               *)
CompileWith(s, at, loop, trys) ==
  LET enter == CompileExpr(s.context)
               \o <<Op("DUP"), Op("LOAD_ENTER"), I("CALL", 0), Op("POP")>>
      bodyAt == at + Len(enter) + 1
      body == CompileStatements(s.body, bodyAt, loop, trys)
      handlerAt == bodyAt + Len(body) + Len(LeaveWith) + 1
      handler == <<Op("ROT_TWO")>> \o CallExit \o <<Op("RAISE")>>
  IN enter \o <<I("SETUP_TRY", handlerAt)>> \o body \o LeaveWith
     \o <<I("JUMP", handlerAt + Len(handler))>> \o handler

CompileStatement(s, at, loop, trys) ==
  CASE s.s = "expr" -> CompileExpr(s.value) \o <<Op("POP")>>
    [] s.s = "assign" -> CompileExpr(s.value) \o <<I("STORE_NAME", s.name)>>
    [] s.s = "if" ->
         LET test == CompileExpr(s.condition)
             body == CompileStatements(s.body, at + Len(test) + 1, loop, trys)
             elseAt == at + Len(test) + 1 + Len(body) + 1
             els == CompileStatements(s.orelse, elseAt, loop, trys)
         IN test \o <<I("JUMP_IF_FALSE", elseAt)>> \o body
            \o <<I("JUMP", elseAt + Len(els))>> \o els
    [] s.s \in {"while", "for"} -> CompileLoop(s, at, loop, trys)
    [] s.s = "break" -> FinallyChain(at, loop, trys) \o PopOnBreak(loop) \o <<Op("BREAK")>>
    [] s.s = "continue" -> FinallyChain(at, loop, trys) \o <<I("JUMP", loop.target)>>
    [] s.s = "return" ->
         LET value == CompileExpr(s.value)
         IN value \o FinallyChain(at + Len(value), loop, trys) \o <<Op("RETURN_VALUE")>>
    [] s.s = "return_none" -> FinallyChain(at, loop, trys) \o <<Op("RETURN_NONE")>>
    [] s.s = "yield" -> CompileExpr(s.value) \o <<Op("YIELD_VALUE")>>
    [] s.s = "raise" -> CompileExpr(s.value) \o <<Op("RAISE")>>
    [] s.s = "try" -> CompileTry(s, at, loop, trys)
    [] s.s = "with" -> CompileWith(s, at, loop, trys)
    [] s.s = "pass" -> <<>>

CompileStatements(ss, at, loop, trys) ==
  IF ss = <<>> THEN <<>>
  ELSE LET c == CompileStatement(Head(ss), at, loop, trys)
       IN c \o CompileStatements(Tail(ss), at + Len(c), loop, trys)

(* py68_statements_yield: does the body make its function a generator?     *)
RECURSIVE Yields(_)
Yields(ss) ==
  \E i \in DOMAIN ss :
    LET s == ss[i]
    IN \/ s.s = "yield"
       \/ s.s \in {"if", "while", "for"} /\ (Yields(s.body) \/ Yields(s.orelse))
       \/ s.s = "with" /\ Yields(s.body)
       \/ /\ s.s = "try"
          /\ \/ Yields(s.body) \/ Yields(s.final)
             \/ \E h \in DOMAIN s.handlers : Yields(s.handlers[h].body)

(* A code object: the module body ends in HALT, a function's in            *)
(* RETURN_NONE.                                                            *)
CompileCode(body, last) == CompileStatements(body, 1, NoLoop, <<>>) \o <<Op(last)>>
CodeObject(body, last) ==
  [code |-> CompileCode(body, last), gen |-> last # "HALT" /\ Yields(body)]

(* A program: its module and its functions.                                *)
CompileProgram(p) ==
  [fn \in {"main"} \cup DOMAIN p.funs |->
     IF fn = "main" THEN CodeObject(p.main, "HALT") ELSE CodeObject(p.funs[fn], "RETURN_NONE")]
=============================================================================
