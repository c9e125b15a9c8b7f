--------------------------------- MODULE VM ---------------------------------
(***************************************************************************)
(* The interpreter loop (vm.c): what Activation leaves to a free choice is *)
(* here decided by the bytecode, and operands have values.  Code is        *)
(* verified by Verifier when it is entered, as py68_vm_run and OP_CALL do. *)
(*                                                                         *)
(* Generator objects are never reclaimed here (Activation does that), the  *)
(* value stack is unbounded, and an exception is known by its type, without*)
(* its message.                                                            *)
(***************************************************************************)
EXTENDS Integers, Sequences, FiniteSetsExt, Functions, Bytecode, Verifier

CONSTANTS
  Compiled,        (* the programs: each maps the names of its functions,   *)
                   (* "main" among them, to [code |-> instructions,         *)
                   (* gen |-> whether a call makes a generator]             *)
  RecursionLimit,  (* runtime->recursion_limit                              *)
  TryMax,          (* PY68_TRY_MAX                                          *)
  ArgMax,          (* the arguments that the operand of a CALL can count    *)
  GenMax,          (* bound: generator objects one run creates              *)
  DepthMax         (* bound: operands on the value stack at any time        *)

VARIABLES
  pid,     (* the program that runs                                         *)
  codes,   (* its code objects by function name, each with the verdict of   *)
           (* the verifier                                                  *)
  ip,      (* the next instruction of the current code                      *)
  frames,  (* runtime->frames; a frame's code is that of function fn        *)
  stack,   (* runtime->value_stack                                          *)
  gens,    (* the generator objects in the order of their creation          *)
  exc,     (* the type of runtime->current_exception, or "none"             *)
  out,     (* what the program has printed                                  *)
  status   (* "start", "run", "halted" or the kind of the error that ended it *)

vars == <<pid, codes, ip, frames, stack, gens, exc, out, status>>

NoGen == 0
Unbound == <<"unbound">>
Locals == [x \in {"x", "y", "g", "h"} |-> Unbound]

(* A value that occurs when n generators have been made: it refers to one  *)
(* of them, and an exception has a name.                                   *)
Proper(v, n) ==
  /\ v[1] = "gen" => v[2] \in 1..n
  /\ v[1] \in {"type", "exc"} => v[2] \notin {"start", "run"}

Opcodes ==
  {"HALT", "LOAD", "LOAD_NAME", "STORE_NAME", "POP", "DUP", "ROT_TWO", "EQUAL", "JUMP",
   "JUMP_IF_FALSE", "LOAD_ENTER", "LOAD_EXIT", "SETUP_TRY", "POP_TRY", "RAISE",
   "CHECK_EXCEPT", "CALL", "RETURN_VALUE", "RETURN_NONE", "RANGE_INIT", "RANGE_NEXT",
   "YIELD_VALUE"}
(* The tables of a code object have what its instructions load.            *)
WellFormed(i) ==
  /\ i.op \in Opcodes
  /\ i.op = "CALL" => i.arg \in 0..ArgMax
  /\ i.op = "RANGE_INIT" => i.arg = 1
  /\ i.op \in {"LOAD_NAME", "STORE_NAME"} => i.arg \in DOMAIN Locals
  /\ i.op = "LOAD" => Proper(i.arg, 0)

ASSUME CompiledAssumption ==
  \A p \in DOMAIN Compiled :
    /\ "main" \in DOMAIN Compiled[p] /\ ~Compiled[p]["main"].gen
    /\ \A fn \in DOMAIN Compiled[p] :
         LET c == Compiled[p][fn]
         IN /\ c.gen \in BOOLEAN
            /\ c.code \in Seq(Range(c.code))
            /\ \A at \in DOMAIN c.code : WellFormed(c.code[at])
ASSUME LimitAssumption ==
  /\ RecursionLimit \in Nat \ {0} /\ TryMax \in Nat /\ ArgMax \in Nat \ {0}
  /\ GenMax \in Nat /\ DepthMax \in Nat

Verified(c) ==
  LET v == Verify(c.code, c.gen)
  IN [code |-> c.code, gen |-> c.gen, ok |-> v.ok, depth |-> v.depth, max |-> v.max]

Init ==
  /\ pid \in DOMAIN Compiled
  /\ codes = [fn \in DOMAIN Compiled[pid] |-> Verified(Compiled[pid][fn])]
  /\ ip = 1 /\ frames = <<>> /\ stack = <<>> /\ gens = <<>>
  /\ exc = "none" /\ out = <<>> /\ status = "start"

Top == frames[Len(frames)]
Current == codes[Top.fn]
Fetch(op) == status = "run" /\ Current.code[ip].op = op
Arg == Current.code[ip].arg
N == Len(stack)
Cut(n) == SubSeq(stack, 1, N - n)
Front(s) == SubSeq(s, 1, Len(s) - 1)

(* A plain instruction: it leaves the stack st and goes on at next.        *)
Go(st, next) ==
  /\ stack' = st /\ ip' = next
  /\ UNCHANGED <<pid, codes, frames, gens, exc, out, status>>

-----------------------------------------------------------------------------
(* Errors.                                                                 *)

(* A user class keeps the exception_kind of the builtin type it extends.   *)
Kind(t) == IF t = "MyError" THEN "ValueError" ELSE t
Matches(t, handler) ==
  handler \in {t, "Exception"} \cup (IF t = "MyError" THEN {"ValueError"} ELSE {})

(* A bug to detect: an abandoned generator goes on claiming that it runs.  *)
FinishedNothing(gs, fs, lo) == gs
(* py68_generator_finish for the frames of fs above lo.                    *)
Finished(gs, fs, lo) ==
  [g \in DOMAIN gs |->
     IF \E i \in DOMAIN fs : i > lo /\ fs[i].gen = g
     THEN [gs[g] EXCEPT !.state = "done", !.saved = <<>>, !.tries = <<>>]
     ELSE gs[g]]

(* py68_vm_fail.                                                           *)
Abort(kind, fs, gs) ==
  /\ status' = kind
  /\ frames' = <<>> /\ stack' = <<>> /\ gens' = Finished(gs, fs, 0)

(* A bug to detect: a caught exception leaves the frames above its handler.*)
UnwoundNot(fs, k) == [fs EXCEPT ![k].tries = Front(@)]
(* py68_vm_unwind_frames_to and the pop of the try block that catches.     *)
Unwound(fs, k) == [SubSeq(fs, 1, k) EXCEPT ![k].tries = Front(@)]

(* py68_vm_catch with the error kind pending.  The current exception is    *)
(* used again when its kind is the same, otherwise the error becomes an    *)
(* exception of the builtin type.                                          *)
Throw(kind, current, fs, gs, st) ==
  LET e == IF current # "none" /\ Kind(current) = kind THEN current ELSE kind
      catching == {k \in DOMAIN fs : fs[k].tries # <<>>}
      k == Max(catching)
      block == fs[k].tries[Len(fs[k].tries)]
      depth == IF Len(st) > block.depth THEN block.depth ELSE Len(st)
  IN /\ exc' = e
     /\ UNCHANGED <<pid, codes, out>>
     /\ IF catching = {} THEN Abort(kind, fs, gs) /\ UNCHANGED ip
        ELSE /\ frames' = Unwound(fs, k)
             /\ stack' = Append(SubSeq(st, 1, depth), <<"exc", e>>)
             /\ gens' = Finished(gs, fs, k)
             /\ ip' = block.handler
             /\ UNCHANGED status

Error(kind, st) == Throw(kind, exc, frames, gens, st)

-----------------------------------------------------------------------------
(* Plain instructions.                                                     *)

Execute ==
  /\ status = "start"
  /\ UNCHANGED <<pid, codes, ip, stack, gens, exc, out>>
  /\ IF codes["main"].ok
     THEN /\ status' = "run"
          /\ frames' = <<[fn |-> "main", ret |-> 0, gen |-> NoGen, base |-> 0,
                          kind |-> "call", tries |-> <<>>, locals |-> Locals]>>
     ELSE status' = "BytecodeError" /\ UNCHANGED frames

Needs(i) ==
  CASE i.op = "CALL" -> i.arg + 1
    [] i.op \in {"EQUAL", "ROT_TWO", "CHECK_EXCEPT"} -> 2
    [] i.op \in {"POP", "DUP", "STORE_NAME", "JUMP_IF_FALSE", "RANGE_INIT",
                 "RANGE_NEXT", "RETURN_VALUE", "YIELD_VALUE", "RAISE",
                 "LOAD_ENTER", "LOAD_EXIT"} -> 1
    [] OTHER -> 0

(* "value stack underflow" and "try stack underflow", which nothing catches. *)
Underflow ==
  /\ status = "run"
  /\ N < Needs(Current.code[ip]) \/ (Fetch("POP_TRY") /\ Top.tries = <<>>)
  /\ Abort("BytecodeError", frames, gens)
  /\ UNCHANGED <<pid, codes, ip, exc, out>>

(* The end of the module; in a function HALT returns None.                 *)
Halt ==
  /\ Fetch("HALT")
  /\ IF Len(frames) = 1
     THEN status' = "halted" /\ frames' = <<>> /\ stack' = <<>> /\ UNCHANGED <<ip, gens>>
     ELSE /\ frames' = Front(frames) /\ stack' = Append(stack, None) /\ ip' = Top.ret
          /\ gens' = Finished(gens, frames, Len(frames) - 1)
          /\ UNCHANGED status
  /\ UNCHANGED <<pid, codes, exc, out>>

Load == Fetch("LOAD") /\ Go(Append(stack, Arg), ip + 1)

LoadName ==
  /\ Fetch("LOAD_NAME")
  /\ IF Top.locals[Arg] = Unbound THEN Error("NameError", stack)
     ELSE Go(Append(stack, Top.locals[Arg]), ip + 1)

StoreName ==
  /\ Fetch("STORE_NAME") /\ N >= 1
  /\ frames' = [frames EXCEPT ![Len(frames)].locals[Arg] = stack[N]]
  /\ stack' = Cut(1) /\ ip' = ip + 1
  /\ UNCHANGED <<pid, codes, gens, exc, out, status>>

PopOp == Fetch("POP") /\ N >= 1 /\ Go(Cut(1), ip + 1)
Dup == Fetch("DUP") /\ N >= 1 /\ Go(Append(stack, stack[N]), ip + 1)
RotTwo ==
  Fetch("ROT_TWO") /\ N >= 2 /\ Go(Cut(2) \o <<stack[N], stack[N - 1]>>, ip + 1)
EqualOp ==
  /\ Fetch("EQUAL") /\ N >= 2
  /\ Go(Append(Cut(2), <<"bool", stack[N - 1] = stack[N]>>), ip + 1)

Jump == Fetch("JUMP") /\ Go(stack, Arg)

Falsy(v) == v \in {None, Num(0), <<"bool", FALSE>>}
JumpIfFalse ==
  /\ Fetch("JUMP_IF_FALSE") /\ N >= 1
  /\ Go(Cut(1), IF Falsy(stack[N]) THEN Arg ELSE ip + 1)

(* LOAD_ATTR of a manager's __enter__ or __exit__: a bound method.         *)
LoadMethod ==
  \E m \in {"enter", "exit"} :
    /\ Fetch(IF m = "enter" THEN "LOAD_ENTER" ELSE "LOAD_EXIT") /\ N >= 1
    /\ IF stack[N] = Manager THEN Go(Append(Cut(1), Native(m)), ip + 1)
       ELSE Error("TypeError", Cut(1))

SetupTry ==
  /\ Fetch("SETUP_TRY")
  /\ IF Len(Top.tries) >= TryMax THEN Error("ValueError", stack)
     ELSE /\ frames' = [frames EXCEPT ![Len(frames)].tries =
                          Append(@, [handler |-> Arg, depth |-> N])]
          /\ ip' = ip + 1
          /\ UNCHANGED <<pid, codes, stack, gens, exc, out, status>>

PopTry ==
  /\ Fetch("POP_TRY") /\ Top.tries # <<>>
  /\ frames' = [frames EXCEPT ![Len(frames)].tries = Front(@)]
  /\ ip' = ip + 1
  /\ UNCHANGED <<pid, codes, stack, gens, exc, out, status>>

(* A raise without an expression raises the current exception again.       *)
RaiseOp ==
  /\ Fetch("RAISE") /\ N >= 1
  /\ LET v == stack[N]
         t == IF v = None THEN exc ELSE v[2]
     IN IF v[1] \in {"type", "exc"} \/ (v = None /\ exc # "none")
        THEN Throw(Kind(t), t, frames, gens, Cut(1))
        ELSE Error("TypeError", Cut(1))

CheckExcept ==
  /\ Fetch("CHECK_EXCEPT") /\ N >= 2
  /\ LET pending == stack[N - 1]
     IN Go(Cut(1), IF pending[1] = "exc" /\ Matches(pending[2], stack[N][2])
                   THEN ip + 1 ELSE Arg)

-----------------------------------------------------------------------------
(* Calls.                                                                  *)

Activate(fn, ret, g, base, kind, tries, locals) ==
  [fn |-> fn, ret |-> ret, gen |-> g, base |-> base, kind |-> kind,
   tries |-> tries, locals |-> locals]

(* A bug to detect: try blocks keep the depth that they had before.        *)
RebaseNever(tries, by) == tries
(* Try blocks record depths in the value stack, which are relative to the  *)
(* activation while the generator is suspended.                            *)
Rebase(tries, by) == [i \in DOMAIN tries |-> [tries[i] EXCEPT !.depth = @ + by]]

(* py68_vm_resume_generator of a generator that is not done.               *)
Resume(g, kind, ret, st) ==
  LET o == gens[g]
      b == Len(st)
  IN CASE o.state = "running" -> Error("ValueError", st)
       [] o.state # "running" /\ Len(frames) >= RecursionLimit ->
            Error("RecursionError", st)
       [] OTHER ->
            /\ frames' = Append(frames, Activate(o.fn, ret, g, b, kind,
                                              Rebase(o.tries, b), o.locals))
            /\ stack' = st \o o.saved
            /\ gens' = [gens EXCEPT ![g].state = "running", ![g].saved = <<>>]
            /\ ip' = o.ip
            /\ UNCHANGED <<pid, codes, exc, out, status>>

Callee == stack[N - Arg]
Argument == stack[N - Arg + 1]
CallOp(callee) == Fetch("CALL") /\ N >= Arg + 1 /\ Callee = callee
OnGenerator == Arg > 0 /\ Argument[1] = "gen"

CallPrint ==
  /\ CallOp(Native("print"))
  /\ out' = out \o SubSeq(stack, N - Arg + 1, N)
  /\ stack' = Append(Cut(Arg + 1), None) /\ ip' = ip + 1
  /\ UNCHANGED <<pid, codes, frames, gens, exc, status>>

(* The methods of a native context manager, here two that can be observed. *)
CallMethod ==
  \E m \in {"enter", "exit"} :
    /\ CallOp(Native(m))
    /\ out' = Append(out, <<m>>)
    /\ stack' = Append(Cut(Arg + 1), IF m = "enter" THEN Manager ELSE None)
    /\ ip' = ip + 1
    /\ UNCHANGED <<pid, codes, frames, gens, exc, status>>

(* A native function that fails, such as int("zz").                        *)
CallFault ==
  /\ CallOp(Native("fault"))
  /\ IF Arg = 1 /\ Argument[1] = "type" THEN Error(Argument[2], stack)
     ELSE Error("TypeError", stack)

CallNext ==
  /\ CallOp(Native("next"))
  /\ LET g == Argument[2]
         rest == Cut(Arg + 1)
         placeholder == IF Arg = 2 THEN stack[N] ELSE None
     IN CASE ~OnGenerator \/ Arg > 2 -> Error("TypeError", stack)
          [] OnGenerator /\ Arg = 2 /\ gens[g].state = "done" ->
               Go(Append(rest, placeholder), ip + 1)
          [] OnGenerator /\ Arg = 1 /\ gens[g].state = "done" ->
               Error("StopIteration", rest)
          [] OTHER -> Resume(g, IF Arg = 2 THEN "default" ELSE "next", ip + 1,
                             Append(rest, placeholder))

(* A bug to detect: list(g) is executed again with the generator.          *)
ReplacedNot(st, i, v) == st
Replaced(st, i, v) == [st EXCEPT ![i] = v]

(* list(g) collects and is then executed again with the list.              *)
CallList ==
  /\ CallOp(Native("list"))
  /\ CASE OnGenerator ->
            LET g == Argument[2]
            IN IF gens[g].state = "done"
               THEN Go(Replaced(stack, N - Arg + 1, <<"list", <<>>>>), ip)
               ELSE Resume(g, "collect", ip, Append(stack, <<"list", <<>>>>))
       [] Arg = 0 -> Go(Append(Cut(1), <<"list", <<>>>>), ip + 1)
       [] Arg = 1 /\ Argument[1] = "list" -> Go(Append(Cut(Arg + 1), Argument), ip + 1)
       [] OTHER -> Error("TypeError", stack)

(* A function of the program, none of which has parameters: verified, then *)
(* a generator object or a frame.                                          *)
CallFunction ==
  \E fn \in DOMAIN codes \ {"main"} :
    /\ CallOp(Fun(fn))
    /\ CASE Arg # 0 -> Error("TypeError", stack)
         [] Arg = 0 /\ ~codes[fn].ok ->
              Abort("BytecodeError", frames, gens) /\ UNCHANGED <<pid, codes, ip, exc, out>>
         [] Arg = 0 /\ codes[fn].ok /\ codes[fn].gen ->
              /\ gens' = Append(gens, [fn |-> fn, state |-> "created", ip |-> 1,
                                       saved |-> <<>>, tries |-> <<>>,
                                       locals |-> Locals])
              /\ stack' = Append(Cut(1), <<"gen", Len(gens) + 1>>)
              /\ ip' = ip + 1
              /\ UNCHANGED <<pid, codes, frames, exc, out, status>>
         [] OTHER ->
              IF Len(frames) >= RecursionLimit THEN Error("RecursionError", stack)
              ELSE /\ frames' = Append(frames, Activate(fn, ip + 1, NoGen, N - 1,
                                                        "call", <<>>, Locals))
                   /\ stack' = Cut(1) /\ ip' = 1
                   /\ UNCHANGED <<pid, codes, gens, exc, out, status>>

CallOther ==
  /\ Fetch("CALL") /\ N >= Arg + 1 /\ Callee[1] \notin {"native", "fun"}
  /\ Error("TypeError", stack)

(* The result goes on top of whatever the callee left on the stack.        *)
ReturnOp ==
  /\ (Fetch("RETURN_VALUE") /\ N >= 1) \/ Fetch("RETURN_NONE")
  /\ Top.gen = NoGen
  /\ IF Len(frames) = 1 THEN Abort("BytecodeError", frames, gens) /\ UNCHANGED ip
     ELSE /\ frames' = Front(frames)
          /\ stack' = IF Fetch("RETURN_NONE") THEN Append(stack, None) ELSE stack
          /\ ip' = Top.ret
          /\ UNCHANGED <<gens, status>>
  /\ UNCHANGED <<pid, codes, exc, out>>

-----------------------------------------------------------------------------
(* Generators.                                                             *)

RangeInit ==
  /\ Fetch("RANGE_INIT") /\ N >= 1
  /\ CASE stack[N][1] \in {"gen", "range"} -> Go(stack, ip + 1)
       [] stack[N][1] = "int" -> Go(Append(Cut(1), <<"range", 0, stack[N][2]>>), ip + 1)
       [] OTHER -> Error("TypeError", Cut(1))

NextRange(v) == <<"range", v[2] + 1, v[3]>>

RangeNext ==
  /\ Fetch("RANGE_NEXT") /\ N >= 1
  /\ LET v == stack[N]
     IN CASE v[1] = "gen" ->
               IF gens[v[2]].state = "done" THEN Go(Cut(1), Arg)
               ELSE Resume(v[2], "for", ip, stack)
          [] v[1] = "range" ->
               IF v[2] < v[3]
               THEN Go(Cut(1) \o <<NextRange(v), Num(v[2])>>, ip + 1)
               ELSE Go(Cut(1), Arg)
          [] OTHER -> Error("TypeError", stack)

(* A bug to detect: the operands of the callers are saved as well.         *)
WholeStack(f) == SubSeq(stack, 1, N - 1)
(* What py68_generator_store_stack saves when activation f yields.         *)
Operands(f) == SubSeq(stack, f.base + 1, N - 1)

YieldValue ==
  /\ Fetch("YIELD_VALUE") /\ N >= 1
  /\ LET f == Top
         v == stack[N]
     IN CASE f.gen = NoGen ->
               /\ Abort("BytecodeError", frames, gens)
               /\ UNCHANGED <<pid, codes, ip, exc, out>>
          [] f.kind = "collect" ->
               Go([Cut(1) EXCEPT ![f.base] = <<"list", Append(@[2], v)>>], ip + 1)
          [] OTHER ->
               /\ frames' = Front(frames)
               /\ gens' = [gens EXCEPT ![f.gen] =
                    [@ EXCEPT !.state = "suspended", !.ip = ip + 1,
                       !.saved = Operands(f), !.locals = f.locals,
                       !.tries = Rebase(f.tries, -f.base)]]
               /\ IF f.kind = "for"
                  THEN stack' = Append(SubSeq(stack, 1, f.base), v) /\ ip' = f.ret + 1
                  ELSE stack' = Append(SubSeq(stack, 1, f.base - 1), v) /\ ip' = f.ret
               /\ UNCHANGED <<pid, codes, exc, out, status>>

ReturnGenerator ==
  /\ (Fetch("RETURN_VALUE") /\ N >= 1) \/ Fetch("RETURN_NONE")
  /\ Top.gen # NoGen
  /\ LET f == Top
         below == Front(frames)
         done == Finished(gens, frames, Len(below))
         argc == codes[below[Len(below)].fn].code[f.ret].arg
     IN IF f.kind = "next"
        THEN Throw("StopIteration", exc, below, done, SubSeq(stack, 1, f.base - 1))
        ELSE /\ frames' = below /\ gens' = done /\ ip' = f.ret
             /\ stack' = IF f.kind = "collect"
                         THEN SubSeq(Replaced(stack, f.base - argc, stack[f.base]),
                                     1, f.base - 1)
                         ELSE SubSeq(stack, 1, f.base)
             /\ UNCHANGED <<pid, codes, exc, out, status>>

-----------------------------------------------------------------------------
Next ==
  \/ Execute \/ Underflow \/ Halt \/ Load \/ LoadName \/ StoreName \/ PopOp \/ Dup
  \/ RotTwo \/ EqualOp \/ Jump \/ JumpIfFalse \/ LoadMethod \/ SetupTry \/ PopTry
  \/ RaiseOp \/ CheckExcept \/ CallPrint \/ CallMethod \/ CallFault \/ CallNext
  \/ CallList \/ CallFunction \/ CallOther \/ ReturnOp \/ RangeInit \/ RangeNext
  \/ YieldValue \/ ReturnGenerator

Spec == Init /\ [][Next]_vars /\ WF_vars(Next)

-----------------------------------------------------------------------------
(* Structured code: the try blocks that are open at an instruction are the *)
(* same on every path to it, as its depth is.                              *)

(* The blocks after instruction at when bs are open before it.             *)
Nested(c, at, bs) ==
  LET i == c.code[at]
  IN CASE i.op = "SETUP_TRY" -> Append(bs, [handler |-> i.arg, depth |-> c.depth[at]])
       [] i.op = "POP_TRY" /\ bs # <<>> -> Front(bs)
       [] OTHER -> bs

(* The instructions to which at leads, each with the blocks open there.    *)
Edges(c, at, bs) ==
  (IF c.code[at].op \in Branches THEN {<<c.code[at].arg, bs>>} ELSE {})
  \cup (IF c.code[at].op \in Ends \cup {"JUMP"} THEN {} ELSE {<<at + 1, Nested(c, at, bs)>>})

(* The blocks open at each reachable instruction, found on some path to it.*)
Nesting(c) ==
  LET open[n \in 0..Len(c.code)] ==
        IF n = 0 THEN [at \in {1} |-> <<>>]
        ELSE LET known == open[n - 1]
                 edges == UNION {Edges(c, at, known[at]) : at \in DOMAIN known}
             IN [at \in DOMAIN known \cup {e[1] : e \in edges} |->
                   IF at \in DOMAIN known THEN known[at]
                   ELSE (CHOOSE e \in edges : e[1] = at)[2]]
  IN open[Len(c.code)]

(* What code may take from the stack: nothing below the innermost block.   *)
FloorOf(bs) == IF bs = <<>> THEN 0 ELSE bs[Len(bs)].depth

StructuredAt(fn, c, open, at) ==
  LET i == c.code[at]
      bs == open[at]
      last == bs[Len(bs)]
  IN /\ bs \in Seq([handler : DOMAIN c.depth, depth : Nat])
     /\ c.depth[at] - Needs(i) >= FloorOf(bs)
     /\ bs # <<>> => /\ open[last.handler] = Front(bs)
                     /\ c.depth[last.handler] = last.depth + 1
     /\ \A e \in Edges(c, at, bs) : open[e[1]] = e[2]
     /\ i.op = "POP_TRY" => bs # <<>>
     /\ i.op = "HALT" => fn = "main"
     /\ i.op \in {"RETURN_VALUE", "RETURN_NONE"} => fn # "main"
     /\ i.op = "RETURN_VALUE" /\ ~c.gen => c.depth[at] = 1
     /\ i.op = "RETURN_NONE" /\ ~c.gen => c.depth[at] = 0
Structured(fn, c, open) ==
  /\ DOMAIN open = DOMAIN c.depth /\ open[1] = <<>>
  /\ \A at \in DOMAIN open : StructuredAt(fn, c, open, at)

StructuredCode ==
  \A fn \in DOMAIN codes : codes[fn].ok => Structured(fn, codes[fn], Nesting(codes[fn]))

-----------------------------------------------------------------------------
(* Whenever an instruction is about to run, its activation has exactly the *)
(* operands that py68_verify_code computed for that instruction, after     *)
(* jumps, caught exceptions, calls, yields and resumptions alike: no       *)
(* operand of the caller is taken and none is left behind.                 *)
StackAsVerified ==
  status = "run" =>
    /\ ip \in DOMAIN Current.depth
    /\ N - Top.base = Current.depth[ip]

(* A suspended generator saves what the verifier says its code has at the  *)
(* point of resumption.                                                    *)
SavedAsVerified ==
  \A g \in DOMAIN gens :
    gens[g].state = "suspended" =>
      LET code == codes[gens[g].fn]
      IN /\ gens[g].ip \in DOMAIN code.depth
         /\ Len(gens[g].saved) = code.depth[gens[g].ip]

(* Whatever the compiler emitted, the interpreter only ever stands at an   *)
(* instruction that py68_verify_code walked, in the code of the innermost  *)
(* activation: no return address, handler or resumption point leads        *)
(* anywhere else.                                                          *)
RunsVerifiedCode == status = "run" => ip \in DOMAIN Current.depth

(* Whatever the compiler emitted, the operands of a suspended generator    *)
(* fit the array that py68_generator_new sized by the verifier's maximum.  *)
SavedFits ==
  \A g \in DOMAIN gens :
    gens[g].state = "suspended" => Len(gens[g].saved) <= codes[gens[g].fn].max

(* The same run seen as steps of the activation stack: operands, try       *)
(* blocks and generators without what code and values they have.           *)
Objects == 1..GenMax
Heights(tries) == [b \in DOMAIN tries |-> tries[b].depth]
Activations(fs) ==
  [i \in DOMAIN fs |->
     [gen |-> fs[i].gen, base |-> fs[i].base, kind |-> fs[i].kind, entry |-> i = 1,
      tries |-> Heights(fs[i].tries)]]
States(gs) == [g \in Objects |-> IF g \in DOMAIN gs THEN gs[g].state ELSE "absent"]
Sizes(gs) == [g \in Objects |-> IF g \in DOMAIN gs THEN Len(gs[g].saved) ELSE 0]
Keeps(gs) == [g \in Objects |-> IF g \in DOMAIN gs THEN Heights(gs[g].tries) ELSE <<>>]
Counts(gs) == [g \in Objects |-> IF g \in DOMAIN gs THEN 1 ELSE 0]
A == INSTANCE Activation WITH
       Gens <- Objects, StackMax <- DepthMax, Capacity <- DepthMax, RefMax <- 1,
       frames <- Activations(frames), count <- Len(stack), state <- States(gens),
       saved <- Sizes(gens), kept <- Keeps(gens), refs <- Counts(gens)

(* The bounds of Activation are not reached: there is an identity for every*)
(* generator, and room on the stack for the list of a collection and the   *)
(* operands of any generator.                                              *)
Room ==
  /\ Len(gens) <= GenMax /\ N < DepthMax
  /\ \A g \in DOMAIN gens : N + Len(gens[g].saved) < DepthMax

(* Running a compiled program is a behaviour of Activation: its code keeps *)
(* the two duties that Activation asks of code (see its Floor), so all     *)
(* that is proved there holds of it.                                       *)
ImplementsActivation == A!Spec

(* The invariant of Activation holds also of the code for which the full   *)
(* refinement does not: a generator says that it runs exactly while it has *)
(* an activation.                                                          *)
RunningAsActivation == A!RunningIffActive
=============================================================================
