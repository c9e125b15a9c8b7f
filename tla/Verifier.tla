------------------------------ MODULE Verifier ------------------------------
(***************************************************************************)
(* The bytecode verifier (verify.c): it walks every path of a code object  *)
(* from depth 0 and gives each reachable instruction the one operand depth *)
(* at which it runs, or refuses the code.                                  *)
(***************************************************************************)
EXTENDS Integers, Sequences, FiniteSetsExt

(* opcode.c and py68_effect: how an instruction changes the depth.         *)
Effect(i) ==
  CASE i.op \in {"LOAD", "LOAD_NAME", "LOAD_CONST", "LOAD_NONE", "LOAD_GLOBAL", "LOAD_LOCAL", "DUP",
                 "RANGE_NEXT", "RETURN_NONE", "MAKE_FUNCTION", "IMPORT_NAME", "IMPORT_FROM"} -> 1
    [] i.op \in {"HALT", "JUMP", "ROT_TWO", "NEGATE", "POSITIVE", "NOT", "LOAD_ATTR",
                 "LOAD_ENTER", "LOAD_EXIT", "SETUP_TRY", "POP_TRY"} -> 0
    [] i.op \in {"STORE_ATTR", "LOAD_SLICE", "MAP_ADD"} -> -2
    [] i.op = "STORE_INDEX" -> -3
    [] i.op \in {"BUILD_LIST", "BUILD_TUPLE", "BUILD_SET", "RANGE_INIT"} -> 1 - i.arg
    [] i.op = "BUILD_DICT" -> 1 - 2 * i.arg
    [] i.op = "UNPACK" -> i.arg - 1
    [] i.op = "CALL" -> -i.arg
    [] OTHER -> -1    \* stores, binary operators, conditional jumps, POP, RAISE, ...

(* The depth at a branch target: the iterator is gone when a loop is over, *)
(* and a handler starts with the exception.                                *)
BranchDepth(i, depth) ==
  CASE i.op = "RANGE_NEXT" -> depth - 1
    [] i.op = "SETUP_TRY" -> depth + 1
    [] i.op \in {"JUMP_IF_FALSE_OR_POP", "JUMP_IF_TRUE_OR_POP"} -> depth
    [] OTHER -> depth + Effect(i)

Branches ==
  {"JUMP", "JUMP_IF_FALSE", "JUMP_IF_FALSE_OR_POP", "JUMP_IF_TRUE_OR_POP", "RANGE_NEXT",
   "SETUP_TRY", "CHECK_EXCEPT"}
Ends == {"HALT", "RETURN_VALUE", "RETURN_NONE", "RAISE"}

Successors(code, at, depth) ==
  LET i == code[at]
  IN (IF i.op \in Branches THEN {<<i.arg, BranchDepth(i, depth)>>} ELSE {})
     \cup (IF i.op \in Ends \cup {"JUMP"} THEN {} ELSE {<<at + 1, depth + Effect(i)>>})

(* What an instruction would take is not there.                            *)
Underflows(i, depth) ==
  \/ depth + Effect(i) < 0
  \/ i.op \in {"LIST_APPEND", "SET_ADD"} /\ (i.arg = 0 \/ depth <= i.arg)
  \/ i.op = "MAP_ADD" /\ (i.arg < 2 \/ depth <= i.arg)
  \/ i.op = "UNPACK" /\ depth < 1

(* The worklist of py68_verify_code: w.depth maps the instructions found so*)
(* far to their depth.  The code is refused on an underflow, a join of two *)
(* depths, or a target outside the code.                                   *)
Begun == [ok |-> TRUE, depth |-> [at \in {1} |-> 0], work |-> {1}]
Refused == [ok |-> FALSE, depth |-> <<>>, work |-> {}]

Visit(code, w) ==
  LET at == CHOOSE a \in w.work : TRUE
      next == Successors(code, at, w.depth[at])
      Seen(n) == n[1] \in DOMAIN w.depth
      new == {n \in next : ~Seen(n)}
  IN IF w.work = {} THEN w
     ELSE IF \/ Underflows(code[at], w.depth[at])
             \/ \E n \in next : n[1] \notin DOMAIN code
             \/ \E n \in next : Seen(n) /\ w.depth[n[1]] # n[2]
             \/ \E m, n \in next : m[1] = n[1] /\ m[2] # n[2]
     THEN Refused
     ELSE [ok |-> TRUE, work |-> (w.work \ {at}) \cup {n[1] : n \in new},
           depth |-> [a \in DOMAIN w.depth \cup {n[1] : n \in new} |->
                        IF a \in DOMAIN w.depth THEN w.depth[a]
                        ELSE (CHOOSE n \in new : n[1] = a)[2]]]

(* An instruction is put on the list once, so that as many rounds as there *)
(* are instructions empty it.                                              *)
Walk(code) ==
  LET walk[n \in 0..Len(code)] == IF n = 0 THEN Begun ELSE Visit(code, walk[n - 1])
  IN walk[Len(code)]

(* py68_verify_code: the walk, after one pass over all instructions.       *)
Verify(code, isGenerator) ==
  LET refused == \/ code = <<>>
                 \/ code[Len(code)].op \notin {"HALT", "RETURN_VALUE", "RETURN_NONE"}
                 \/ ~isGenerator /\ \E at \in DOMAIN code : code[at].op = "YIELD_VALUE"
      w == IF refused THEN Refused ELSE Walk(code)
  IN [ok |-> w.ok, depth |-> w.depth,
      max |-> Max({0} \cup {w.depth[at] + Effect(code[at]) : at \in DOMAIN w.depth})]
=============================================================================
