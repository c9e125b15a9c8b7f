----------------------------- MODULE Evaluation -----------------------------
(***************************************************************************)
(* Programs compiled by Emitter, accepted by Verifier and run by the       *)
(* instructions of vm.c, with the values left open: an operation gives a   *)
(* new value that is known by its place in ops, and a test of a value is   *)
(* decided when it is first made.  So one run stands for the runs on all   *)
(* data for which the tests come out in this way.                          *)
(*                                                                         *)
(* The functions and generators that a program makes are run after it, in  *)
(* the order in which they were made; calls, generators that wait for each *)
(* other, and exceptions are in Activation and VM.                         *)
(***************************************************************************)
EXTENDS Emitter
LOCAL INSTANCE Verifier
M == INSTANCE Meaning

CONSTANTS
  Programs,      (* the programs: sequences of statements                  *)
  MaxDecisions   (* how many tests come out as one likes; the rest fail    *)

VARIABLES
  program,   (* the program                                                *)
  object,    (* the code object that runs                                  *)
  depths,    (* the depth the verifier found for each of its instructions  *)
  ip,        (* the next instruction                                       *)
  stack,     (* the operands                                               *)
  locals,    (* the slots                                                  *)
  later,     (* the functions and generators still to be run               *)
  ops,       (* the operations performed                                   *)
  decided,   (* the outcomes of the tests                                  *)
  phase      (* "entering", "running", "left"; or "rejected", "unverified" *)

vars == <<program, object, depths, ip, stack, locals, later, ops, decided, phase>>

NoDepths == <<>>

Init ==
  /\ program \in Programs
  /\ object = CompileModule(program)
  /\ depths = NoDepths /\ ip = 1 /\ stack = <<>> /\ locals = <<>> /\ later = <<>>
  /\ ops = <<>> /\ decided = <<>>
  /\ phase = IF IsRejected(object.code) THEN "rejected" ELSE "entering"

(* Jumps with their targets, as the verifier follows them.                 *)
Jumps == {"JUMP", "JUMP_IF_FALSE", "JUMP_IF_FALSE_OR_POP", "JUMP_IF_TRUE_OR_POP", "RANGE_NEXT"}
Absolute(code) ==
  [at \in DOMAIN code |->
     IF code[at].op \in Jumps THEN I(code[at].op, at + 1 + code[at].arg) ELSE code[at]]

(* py68_vm_run and OP_CALL verify the code that they enter.                *)
EnterVerified(v) ==
  /\ depths' = v.depth
  /\ phase' = IF v.ok THEN "running" ELSE "unverified"
Enter ==
  /\ phase = "entering"
  /\ EnterVerified(Verify(Absolute(object.code), object.generator))
  /\ UNCHANGED <<program, object, ip, stack, locals, later, ops, decided>>

Fetched == object.code[ip]
At(opcodes) == phase = "running" /\ Fetched.op \in opcodes
Arg == Fetched.arg
Operand(n) == stack[Len(stack) - n]                   \* 0 is the top
Operands(n) == SubSeq(stack, Len(stack) - n + 1, Len(stack))
Without(n) == SubSeq(stack, 1, Len(stack) - n)
New == M!Result(Len(ops) + 1)

(* The instruction leaves st on the stack, and the next one follows.       *)
Go(st) ==
  /\ stack' = st /\ ip' = ip + 1
  /\ UNCHANGED <<program, object, depths, decided, phase>>
Silently == UNCHANGED <<locals, later, ops>>
Doing(what, name, operands) == ops' = Append(ops, <<what, name, operands>>)

-----------------------------------------------------------------------------
Load ==
  /\ \/ At({"LOAD_CONST"}) /\ Go(Append(stack, M!Const(Arg)))
     \/ At({"LOAD_NONE"}) /\ Go(Append(stack, M!NoneValue))
     \/ At({"LOAD_LOCAL"}) /\ locals[Arg] # M!Unbound /\ Go(Append(stack, locals[Arg]))
  /\ Silently

LoadGlobal ==
  /\ At({"LOAD_GLOBAL"})
  /\ Go(Append(stack, New)) /\ Doing("global", Arg, <<>>)
  /\ UNCHANGED <<locals, later>>

Store ==
  /\ \/ /\ At({"STORE_LOCAL"}) /\ locals' = [locals EXCEPT ![Arg] = Operand(0)]
        /\ UNCHANGED ops
     \/ At({"STORE_GLOBAL"}) /\ Doing("store", Arg, Operands(1)) /\ UNCHANGED locals
  /\ Go(Without(1)) /\ UNCHANGED later

(* Instructions that take n operands and give a value.                     *)
Gives(n, what, name) ==
  /\ Doing(what, name, Operands(n)) /\ Go(Append(Without(n), New))
  /\ UNCHANGED <<locals, later>>

Unaries == [NEGATE |-> "unary -", POSITIVE |-> "unary +", NOT |-> "unary not"]
Binaries ==
  [ADD |-> "+", SUBTRACT |-> "-", MULTIPLY |-> "*", TRUE_DIVIDE |-> "/", FLOOR_DIVIDE |-> "//",
   MODULO |-> "%", EQUAL |-> "==", NOT_EQUAL |-> "!=", LESS |-> "<", LESS_EQUAL |-> "<=",
   GREATER |-> ">", GREATER_EQUAL |-> ">=", CONTAINS |-> "in", NOT_CONTAINS |-> "not in",
   IS |-> "is", IS_NOT |-> "is not"]
Operate ==
  \/ At(DOMAIN Unaries) /\ Gives(1, Unaries[Fetched.op], "")
  \/ At(DOMAIN Binaries) /\ Gives(2, Binaries[Fetched.op], "")
Build ==
  \/ At({"BUILD_LIST"}) /\ Gives(Arg, "list", "")
  \/ At({"BUILD_TUPLE"}) /\ Gives(Arg, "tuple", "")
  \/ At({"BUILD_SET"}) /\ Gives(Arg, "set", "")
  \/ At({"BUILD_DICT"}) /\ Gives(2 * Arg, "dict", "")
Select ==
  \/ At({"LOAD_INDEX"}) /\ Gives(2, "index", "")
  \/ At({"LOAD_SLICE"}) /\ Gives(3, "slice", "")
LoadAttr == At({"LOAD_ATTR"}) /\ Gives(1, "attribute", Arg)
RangeInit == At({"RANGE_INIT"}) /\ Gives(Arg, "iterator", "")
CallValue == At({"CALL"}) /\ Operand(Arg)[1] # "code" /\ Gives(Arg + 1, "call", "")

(* Instructions that change a container or an object.                      *)
StoreIndex ==
  /\ At({"STORE_INDEX"}) /\ Doing("put", "", Operands(3)) /\ Go(Without(3))
  /\ UNCHANGED <<locals, later>>
StoreAttr ==
  /\ At({"STORE_ATTR"}) /\ Doing("set", Arg, Operands(2)) /\ Go(Without(2))
  /\ UNCHANGED <<locals, later>>
Insert ==
  /\ \/ /\ At({"LIST_APPEND"})
        /\ Doing("append", "", <<Operand(Arg), Operand(0)>>) /\ Go(Without(1))
     \/ At({"SET_ADD"}) /\ Doing("add", "", <<Operand(Arg), Operand(0)>>) /\ Go(Without(1))
     \/ At({"MAP_ADD"}) /\ Doing("put", "", <<Operand(Arg)>> \o Operands(2)) /\ Go(Without(2))
  /\ UNCHANGED <<locals, later>>

Rearrange ==
  /\ \/ At({"POP"}) /\ Go(Without(1))
     \/ At({"DUP"}) /\ Go(Append(stack, Operand(0)))
     \/ At({"ROT_TWO"}) /\ Go(Without(2) \o <<Operand(0), Operand(1)>>)
  /\ Silently
(* The last item is pushed first.                                          *)
UnpackItems ==
  /\ At({"UNPACK"})
  /\ Doing("unpack", "", <<Operand(0), M!Const(<<"int", Arg>>)>>)
  /\ Go(Without(1) \o [i \in 1..Arg |-> <<"item", New, Arg + 1 - i>>])
  /\ UNCHANGED <<locals, later>>

ImportName ==
  /\ \/ At({"IMPORT_NAME"}) /\ Doing("import", Arg, <<>>)
     \/ At({"IMPORT_FROM"}) /\ Doing("import from", Arg, Operands(1))
  /\ Go(Append(stack, New)) /\ UNCHANGED <<locals, later>>

-----------------------------------------------------------------------------
(* Jumps.                                                                  *)

(* The outcome of a test.                                                  *)
Decide(test, outcome) ==
  IF test \in DOMAIN decided THEN outcome = decided[test] /\ UNCHANGED decided
  ELSE IF Cardinality(DOMAIN decided) = MaxDecisions THEN ~outcome /\ UNCHANGED decided
  ELSE decided' = decided @@ (test :> outcome)
Continue(jump, st) ==
  /\ ip' = IF jump THEN ip + 1 + Arg ELSE ip + 1
  /\ stack' = st
  /\ UNCHANGED <<program, object, depths, phase>>

JumpTo == At({"JUMP"}) /\ Continue(TRUE, stack) /\ Silently /\ UNCHANGED decided
JumpIfFalse ==
  /\ At({"JUMP_IF_FALSE"})
  /\ \E true \in BOOLEAN :
       Decide(<<"true", Operand(0)>>, true) /\ Continue(~true, Without(1))
  /\ Silently
(* A bug to detect: the value is never popped.                             *)
JumpOrKeep ==
  /\ At({"JUMP_IF_FALSE_OR_POP", "JUMP_IF_TRUE_OR_POP"})
  /\ \E true \in BOOLEAN :
       /\ Decide(<<"true", Operand(0)>>, true)
       /\ Continue(true = (Fetched.op = "JUMP_IF_TRUE_OR_POP"), stack)
  /\ Silently
JumpOrPop ==
  /\ At({"JUMP_IF_FALSE_OR_POP", "JUMP_IF_TRUE_OR_POP"})
  /\ \E true \in BOOLEAN :
       LET jump == true = (Fetched.op = "JUMP_IF_TRUE_OR_POP")
       IN /\ Decide(<<"true", Operand(0)>>, true)
          /\ Continue(jump, IF jump THEN stack ELSE Without(1))
  /\ Silently
RangeNext ==
  /\ At({"RANGE_NEXT"})
  /\ Doing("next", "", Operands(1))
  /\ \E more \in BOOLEAN :
       /\ Decide(<<"more", New>>, more)
       /\ Continue(~more, IF more THEN Append(stack, New) ELSE Without(1))
  /\ UNCHANGED <<locals, later>>

-----------------------------------------------------------------------------
(* Functions.                                                              *)

Pending(code, arguments) ==
  Append(later, [key |-> New, object |-> code,
                 locals |-> [slot \in 1..code.locals |->
                   IF slot \in DOMAIN arguments THEN arguments[slot] ELSE M!Unbound]])

(* The code of a generator expression has no name.                         *)
MakeNamed ==
  /\ At({"MAKE_FUNCTION"}) /\ Arg.name # Hidden
  /\ Doing("function", Arg.name,
           <<M!Const(<<"int", Arg.parameters>>), <<"generator", Arg.generator>>>>)
  /\ later' = Pending(Arg, [i \in 1..Arg.parameters |-> <<"argument", i>>])
  /\ Go(Append(stack, New)) /\ UNCHANGED locals
MakeHidden ==
  /\ At({"MAKE_FUNCTION"}) /\ Arg.name = Hidden
  /\ Go(Append(stack, <<"code", Arg>>)) /\ Silently
CallHidden ==
  /\ At({"CALL"}) /\ Operand(Arg)[1] = "code"
  /\ Doing("generator", "", <<Operand(Arg - 1)>>)
  /\ later' = Pending(Operand(Arg)[2], Operands(Arg))
  /\ Go(Append(Without(Arg + 1), New)) /\ UNCHANGED locals

(* A generator goes on when it is asked for the next value.                *)
Yield ==
  /\ At({"YIELD_VALUE"})
  /\ Doing("yield", "", Operands(1)) /\ Go(Without(1)) /\ UNCHANGED <<locals, later>>

Leave ==
  /\ \/ At({"HALT"}) /\ Doing("halt", "", <<>>)
     \/ At({"RETURN_NONE"}) /\ Doing("return", "", <<M!NoneValue>>)
     \/ At({"RETURN_VALUE"}) /\ Doing("return", "", Operands(1))
     \/ At({"RAISE"}) /\ Doing("raise", "", Operands(1))
     \/ At({"LOAD_LOCAL"}) /\ locals[Arg] = M!Unbound /\ Doing("unbound", "", <<>>)
  /\ phase' = "left" /\ stack' = <<>>
  /\ UNCHANGED <<program, object, depths, ip, locals, later, decided>>

RunNext ==
  /\ phase = "left" /\ later # <<>>
  /\ object' = Head(later).object /\ locals' = Head(later).locals
  /\ later' = Tail(later)
  /\ Doing("enter", "", <<Head(later).key>>)
  /\ phase' = "entering" /\ depths' = NoDepths /\ ip' = 1 /\ stack' = <<>>
  /\ UNCHANGED <<program, decided>>

Next ==
  \/ Enter \/ Load \/ LoadGlobal \/ Store \/ Operate \/ Build \/ Select \/ LoadAttr
  \/ RangeInit \/ CallValue \/ StoreIndex \/ StoreAttr \/ Insert \/ Rearrange \/ UnpackItems
  \/ ImportName \/ JumpTo \/ JumpIfFalse \/ JumpOrPop \/ RangeNext
  \/ MakeNamed \/ MakeHidden \/ CallHidden \/ Yield \/ Leave \/ RunNext
Spec == Init /\ [][Next]_vars

-----------------------------------------------------------------------------
(* When a program and all it made have run, the operations were those of   *)
(* the tree, on the same values and in the same order: compiler.c and the  *)
(* operands of vm.c's instructions agree on every nested evaluation.       *)
EvaluatesAsWritten ==
  phase = "left" /\ later = <<>> => ops = M!Operations(program, decided)

(* The numbers of operands that the paths through a statement leave behind *)
(* when they come to its end, by the tree: a bug of the code, a from-import*)
(* leaves one for each of its names.                                       *)
RECURSIVE Leftovers(_)
PlusLeftovers(counts, s) ==
  LET more == CASE s.s = "import_from" -> {Len(s.aliases)}
                [] s.s = "if" -> Leftovers(s.body) \cup Leftovers(s.orelse)
                [] s.s \in {"while", "for"} ->
                     {n + k : n \in {0} \cup Leftovers(s.body), k \in Leftovers(s.orelse)}
                [] s.s \in {"return", "raise"} -> {}
                [] OTHER -> {0}
  IN {n + k : n \in counts, k \in more}
Leftovers(ss) == FoldLeft(PlusLeftovers, {0}, ss)

(* The paths that meet in a program have left equally many operands.       *)
RECURSIVE Level(_)
Level(ss) ==
  \A i \in DOMAIN ss :
    LET s == ss[i]
        reached == Leftovers(SubSeq(ss, 1, i - 1)) # {}
    IN reached =>
         /\ Cardinality(Leftovers(SubSeq(ss, 1, i))) <= 1
         /\ s.s \in {"if", "while", "for"} => Level(s.body) /\ Level(s.orelse)
         /\ s.s = "def" => Level(s.body)
         /\ s.s = "class" => \A j \in DOMAIN s.body : s.body[j].s = "def" => Level(s.body[j].body)

(* Code that py68_compile_module emits, for a module, a function or a      *)
(* generator expression, is refused by py68_verify_code only for the       *)
(* operands that a from-import in a branch or a loop has left, and then    *)
(* always; and the operands of each instruction lie as deep as verify.c    *)
(* has computed from opcode.c, whatever the jumps before it did.           *)
OperandsAsVerified ==
  /\ phase = "unverified" => ~Level(program)
  /\ phase = "left" /\ later = <<>> => Level(program)
  /\ phase = "running" =>
       /\ ip \in DOMAIN depths
       /\ Len(stack) = depths[ip]
=============================================================================
