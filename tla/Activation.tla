----------------------------- MODULE Activation -----------------------------
(***************************************************************************)
(* The activation stack of the interpreter: the frames of                  *)
(* runtime->frames, the height of the one value stack they share, their    *)
(* try blocks, and the generators that move between the heap and the frame *)
(* stack (frame.c, generator.c and the handlers of vm.c that call them).   *)
(*                                                                         *)
(* Operand values are abstracted to how many there are.  What the program  *)
(* does next is a free choice among the instructions that verified code    *)
(* may execute, so the module says what holds for EVERY program.  Verified *)
(* code has two duties, which are the Floor guards below: it never pops an *)
(* operand of its caller (verify.c rejects a negative depth) and never     *)
(* pops below the depth that a live try block recorded (compiler.c nests   *)
(* the operands of a try body above it).                                   *)
(***************************************************************************)
EXTENDS Integers, Sequences

CONSTANTS
  Gens,            (* identities of generator objects                      *)
  NoGen,           (* frame->generator == NULL                             *)
  RecursionLimit,  (* runtime->recursion_limit                             *)
  TryMax,          (* PY68_TRY_MAX, the try blocks one frame can hold      *)
  StackMax,        (* the value stack cannot grow past this height         *)
  Capacity,        (* code->maximum_stack, what a generator can save       *)
  ArgMax,          (* bound: arguments of one call                         *)
  RefMax           (* bound: references to one generator outside frames    *)

ASSUME ActivationAssumption ==
  /\ NoGen \notin Gens
  /\ RecursionLimit \in Nat \ {0}
  /\ TryMax \in Nat
  /\ StackMax \in Nat
  /\ Capacity \in Nat
  /\ ArgMax \in Nat
  /\ RefMax \in Nat \ {0}

VARIABLES
  frames,  (* runtime->frames, innermost last                              *)
  count,   (* runtime->value_stack_count                                   *)
  state,   (* generator->state, or "absent" when no object exists          *)
  saved,   (* generator->stack_count                                       *)
  kept,    (* generator->try_stack: depths relative to its operands        *)
  refs     (* references to the generator from variables and the stack     *)

gvars == <<state, saved, kept, refs>>
vars == <<frames, count, state, saved, kept, refs>>

Kinds == {"call", "for", "next", "default", "collect"}
States == {"absent", "created", "running", "suspended", "done"}
Frame == [gen : Gens \cup {NoGen}, base : Nat, kind : Kinds, entry : BOOLEAN,
          tries : Seq(Nat)]

(* A fresh activation.  base is where its operands start: for a generator   *)
(* this is frame->stack_base, for a call the height the arguments left.    *)
Activate(g, b, k, e, t) ==
  [gen |-> g, base |-> b, kind |-> k, entry |-> e, tries |-> t]

Init ==
  /\ frames = <<>>
  /\ count = 0
  /\ state = [g \in Gens |-> "absent"]
  /\ saved = [g \in Gens |-> 0]
  /\ kept = [g \in Gens |-> <<>>]
  /\ refs = [g \in Gens |-> 0]

Depth == Len(frames)
Top == frames[Depth]
Live == Depth > 0

(* The lowest height to which the code of a frame may pop.                 *)
Floor(f) == IF f.tries = <<>> THEN f.base ELSE f.tries[Len(f.tries)]
CanPop(n) == Live /\ count - n >= Floor(Top)

-----------------------------------------------------------------------------
(* Losing activations.                                                     *)

(* A bug to detect: a frame that is popped leaves its generator as it was. *)
FinishNothing(lost) == UNCHANGED gvars

(* py68_frame_pop on the activations of lost: py68_generator_finish, then  *)
(* the release of the frame's reference, which destroys an object that     *)
(* nothing else refers to.                                                 *)
Finish(lost) ==
  /\ state' = [g \in Gens |-> IF g \notin lost THEN state[g]
                              ELSE IF refs[g] = 0 THEN "absent" ELSE "done"]
  /\ saved' = [g \in Gens |-> IF g \in lost THEN 0 ELSE saved[g]]
  /\ kept' = [g \in Gens |-> IF g \in lost THEN <<>> ELSE kept[g]]
  /\ UNCHANGED refs

GensOf(fs, lo) == {fs[i].gen : i \in {j \in DOMAIN fs : j > lo}} \ {NoGen}

(* An uncatchable error, or one no frame catches: py68_vm_fail.            *)
AbortFrom(fs, lost) ==
  /\ frames' = <<>>
  /\ count' = 0
  /\ Finish(lost \cup GensOf(fs, 0))

(* py68_vm_catch: the frames above the innermost one that has a try block  *)
(* are popped, the stack is cut to the depth the block recorded, and the   *)
(* exception is pushed.  An entry frame has no return_code, so a nested    *)
(* py68_vm_run returns there and the import that ran it raises again; an   *)
(* exception that does not fit the value stack ends the outer run too.     *)
CatchAt(k, fs, c, lost) ==
  LET block == Len(fs[k].tries)
      d == fs[k].tries[block]
  IN /\ (IF c > d THEN d ELSE c) < StackMax
     /\ frames' = [SubSeq(fs, 1, k) EXCEPT
                     ![k].tries = SubSeq(fs[k].tries, 1, block - 1)]
     /\ count' = (IF c > d THEN d ELSE c) + 1
     /\ Finish(lost \cup GensOf(fs, k))

Catches(k, fs) ==
  fs[k].tries # <<>> /\ \A i \in DOMAIN fs : i > k => fs[i].tries = <<>>

RaiseFrom(fs, c, lost) ==
  \/ \E k \in DOMAIN fs : Catches(k, fs) /\ CatchAt(k, fs, c, lost)
  \/ (\A k \in DOMAIN fs : fs[k].tries = <<>>) /\ AbortFrom(fs, lost)

-----------------------------------------------------------------------------
(* Runs, calls and operands.                                               *)

(* py68_vm_execute.                                                        *)
Execute ==
  /\ Depth = 0
  /\ frames' = <<Activate(NoGen, 0, "call", TRUE, <<>>)>>
  /\ UNCHANGED <<count, gvars>>

(* A bug to detect: the limit compared with the depth before the push.     *)
ReserveOneMore == Depth <= RecursionLimit

(* py68_frame_reserve refuses at the limit with a catchable error.         *)
Reserve == Depth < RecursionLimit

(* OP_IMPORT_NAME of a module that must be executed: py68_vm_execute_module*)
(* nests a run, whose frame has no return_code.                            *)
Import ==
  /\ Live
  /\ \/ /\ Reserve
        /\ frames' = Append(frames, Activate(NoGen, count, "call", TRUE, <<>>))
        /\ UNCHANGED <<count, gvars>>
     \/ ~Reserve /\ RaiseFrom(frames, count, {})

(* OP_HALT ends a run and cuts the stack to where it started; the import   *)
(* that nested it pushes the module.                                       *)
Halt ==
  /\ Live /\ Top.entry
  /\ frames' = SubSeq(frames, 1, Depth - 1)
  /\ \/ Depth = 1 /\ count' = Top.base
     \/ Depth > 1 /\ Top.base < StackMax /\ count' = Top.base + 1
  /\ UNCHANGED gvars

(* py68_vm_pop and py68_vm_push: the net effect of an instruction that     *)
(* takes n operands and leaves at most one.                                *)
Operate ==
  \E n \in 0..ArgMax + 1, m \in 0..1 :
    /\ CanPop(n) /\ count - n + m <= StackMax
    /\ count' = count - n + m
    /\ UNCHANGED <<frames, gvars>>

(* OP_CALL of a function whose code is not a generator's, or of a class    *)
(* with __init__: the callee and its arguments leave the stack.            *)
Call ==
  \E argc \in 0..ArgMax :
    /\ CanPop(argc + 1)
    /\ \/ /\ Reserve
          /\ frames' = Append(frames, Activate(NoGen, count - argc - 1, "call",
                                               FALSE, <<>>))
          /\ count' = count - argc - 1
          /\ UNCHANGED gvars
       \/ ~Reserve /\ RaiseFrom(frames, count, {})

(* OP_RETURN_VALUE and OP_RETURN_NONE of an ordinary call.  Only the       *)
(* result is popped and pushed back: operands the callee still had stay.   *)
(* An __init__ that returns a value raises in its caller instead.          *)
Return ==
  /\ Live /\ Top.gen = NoGen /\ ~Top.entry
  /\ LET below == SubSeq(frames, 1, Depth - 1)
     IN \/ CanPop(1) /\ RaiseFrom(below, count - 1, {})
        \/ /\ frames' = below
           /\ \/ CanPop(1) /\ count' = count
              \/ count < StackMax /\ count' = count + 1
           /\ UNCHANGED gvars

SetupTry ==
  /\ Live
  /\ \/ /\ Len(Top.tries) < TryMax
        /\ frames' = [frames EXCEPT ![Depth].tries = Append(@, count)]
        /\ UNCHANGED <<count, gvars>>
     \/ Len(Top.tries) >= TryMax /\ RaiseFrom(frames, count, {})

PopTry ==
  /\ Live /\ Top.tries # <<>>
  /\ frames' = [frames EXCEPT
                  ![Depth].tries = SubSeq(Top.tries, 1, Len(Top.tries) - 1)]
  /\ UNCHANGED <<count, gvars>>

(* OP_RAISE, or an instruction that fails with a catchable error after     *)
(* taking operands of its own.                                             *)
Raise == Live /\ \E n \in 0..ArgMax : CanPop(n) /\ RaiseFrom(frames, count - n, {})

(* A memory, bytecode or interrupt error, exit() of the program itself, or *)
(* a push that does not fit the value stack: no frame can catch it.        *)
(* (exit() under an import is in module Import.)                           *)
Fail == Live /\ AbortFrom(frames, {})

-----------------------------------------------------------------------------
(* Generators.                                                             *)

(* OP_CALL of a generator factory: py68_generator_new, no body code runs.  *)
MakeGenerator(g) ==
  \E argc \in 0..ArgMax :
    /\ CanPop(argc + 1) /\ state[g] = "absent"
    /\ count' = count - argc
    /\ state' = [state EXCEPT ![g] = "created"]
    /\ refs' = [refs EXCEPT ![g] = 1]
    /\ UNCHANGED <<frames, saved, kept>>

(* A generator value is copied to another variable or container.           *)
Share(g) ==
  /\ refs[g] \in 1..RefMax - 1
  /\ refs' = [refs EXCEPT ![g] = @ + 1]
  /\ UNCHANGED <<frames, count, state, saved, kept>>

Held(g) == \E i \in DOMAIN frames : frames[i].gen = g

(* py68_object_release of one such copy; the last reference destroys the   *)
(* object, and an activation holds one (py68_frame_push_generator).        *)
Drop(g) ==
  /\ refs[g] > 0
  /\ refs' = [refs EXCEPT ![g] = @ - 1]
  /\ IF refs[g] = 1 /\ ~Held(g)
     THEN /\ state' = [state EXCEPT ![g] = "absent"]
          /\ saved' = [saved EXCEPT ![g] = 0]
          /\ kept' = [kept EXCEPT ![g] = <<>>]
     ELSE UNCHANGED <<state, saved, kept>>
  /\ UNCHANGED <<frames, count>>

(* A bug to detect: a resume that forgets that the stack has moved.        *)
ResumeUnrebased(g, k, b) ==
  /\ state[g] # "running" /\ b + saved[g] <= StackMax /\ Reserve
  /\ frames' = Append(frames, Activate(g, b, k, FALSE, kept[g]))
  /\ count' = b + saved[g]
  /\ state' = [state EXCEPT ![g] = "running"]
  /\ saved' = [saved EXCEPT ![g] = 0]
  /\ UNCHANGED <<kept, refs>>

(* py68_vm_resume_generator of a generator that is not done, with the      *)
(* stack at height b: the saved operands go back on the stack and the      *)
(* depths of its try blocks are rebased.                                   *)
Resume(g, k, b) ==
  \/ state[g] = "running" /\ RaiseFrom(frames, b, {})
  \/ state[g] # "running" /\ b + saved[g] > StackMax /\ AbortFrom(frames, {})
  \/ /\ state[g] # "running" /\ b + saved[g] <= StackMax /\ ~Reserve
     /\ RaiseFrom(frames, b, {})
  \/ /\ state[g] # "running" /\ b + saved[g] <= StackMax /\ Reserve
     /\ frames' = Append(frames, Activate(g, b, k, FALSE,
                      [i \in 1..Len(kept[g]) |-> kept[g][i] + b]))
     /\ count' = b + saved[g]
     /\ state' = [state EXCEPT ![g] = "running"]
     /\ saved' = [saved EXCEPT ![g] = 0]
     /\ UNCHANGED <<kept, refs>>

Exists(g) == state[g] # "absent" /\ refs[g] > 0

(* A bug to detect: a loop resumes its generator without looking at state. *)
ForNextUnchecked(g) == Exists(g) /\ CanPop(1) /\ Resume(g, "for", count)

(* OP_RANGE_NEXT with the generator on top.                                *)
ForNext(g) ==
  /\ Exists(g) /\ CanPop(1)
  /\ IF state[g] = "done"
     THEN count' = count - 1 /\ UNCHANGED <<frames, gvars>>
     ELSE Resume(g, "for", count)

(* next(g): a placeholder replaces the callee and its argument.            *)
Next1(g) ==
  /\ Exists(g) /\ CanPop(2)
  /\ IF state[g] = "done" THEN RaiseFrom(frames, count - 2, {})
     ELSE Resume(g, "next", count - 1)

(* next(g, default): the default is the placeholder.                       *)
Next2(g) ==
  /\ Exists(g) /\ CanPop(3)
  /\ IF state[g] = "done"
     THEN count' = count - 2 /\ UNCHANGED <<frames, gvars>>
     ELSE Resume(g, "default", count - 2)

(* list(g), sum(g), ...: a list is pushed for the results; when the        *)
(* generator is done it takes the generator's place and the call runs      *)
(* again.                                                                  *)
Collect(g) ==
  /\ Exists(g) /\ \E argc \in 1..ArgMax : CanPop(argc + 1)
  /\ \/ count = StackMax /\ AbortFrom(frames, {})
     \/ /\ count < StackMax /\ state[g] = "done"
        /\ UNCHANGED <<frames, count, gvars>>
     \/ /\ count < StackMax /\ state[g] # "done"
        /\ Resume(g, "collect", count + 1)

(* OP_YIELD_VALUE.  A collecting activation keeps running; any other saves *)
(* its operands and try blocks, leaves the frame stack and hands over the  *)
(* value, on top for a loop and in place of the placeholder for next.      *)
Suspend(g, n, ts) ==
  /\ frames' = SubSeq(frames, 1, Depth - 1)
  /\ state' = [state EXCEPT ![g] = IF refs[g] = 0 THEN "absent" ELSE "suspended"]
  /\ saved' = [saved EXCEPT ![g] = IF refs[g] = 0 THEN 0 ELSE n]
  /\ kept' = [kept EXCEPT ![g] = IF refs[g] = 0 THEN <<>> ELSE ts]
  /\ UNCHANGED refs

(* A bug to detect: try blocks are saved with their absolute depths.       *)
YieldAbsolute ==
  /\ CanPop(1) /\ Top.gen # NoGen /\ Top.kind # "collect"
  /\ count - 1 - Top.base <= Capacity
  /\ Suspend(Top.gen, count - 1 - Top.base, Top.tries)
  /\ count' = IF Top.kind = "for" THEN Top.base + 1 ELSE Top.base

Yield ==
  /\ CanPop(1) /\ Top.gen # NoGen
  /\ LET n == count - 1 - Top.base
     IN \/ /\ Top.kind = "collect"
           /\ count' = count - 1
           /\ UNCHANGED <<frames, gvars>>
        \/ Top.kind # "collect" /\ n > Capacity /\ AbortFrom(frames, {})
        \/ /\ Top.kind # "collect" /\ n <= Capacity
           /\ Suspend(Top.gen, n, [i \in 1..Len(Top.tries) |->
                                     Top.tries[i] - Top.base])
           /\ count' = IF Top.kind = "for" THEN Top.base + 1 ELSE Top.base

(* A return finishes the generator.  A loop then finds it done; next drops *)
(* its placeholder and raises StopIteration; next with a default leaves    *)
(* it; a collection moves its list into the generator's slot.              *)
ReturnGenerator ==
  /\ Live /\ Top.gen # NoGen
  /\ LET below == SubSeq(frames, 1, Depth - 1)
     IN IF Top.kind = "next" THEN RaiseFrom(below, Top.base - 1, {Top.gen})
        ELSE /\ frames' = below
             /\ count' = IF Top.kind = "collect" THEN Top.base - 1 ELSE Top.base
             /\ Finish({Top.gen})

-----------------------------------------------------------------------------
Next ==
  \/ Execute \/ Import \/ Halt \/ Operate \/ Call \/ Return
  \/ SetupTry \/ PopTry \/ Raise \/ Fail \/ Yield \/ ReturnGenerator
  \/ \E g \in Gens : \/ MakeGenerator(g) \/ Share(g) \/ Drop(g)
                     \/ ForNext(g) \/ Next1(g) \/ Next2(g) \/ Collect(g)

Spec == Init /\ [][Next]_vars

-----------------------------------------------------------------------------
(* Properties.                                                             *)

TypeOK ==
  /\ frames \in Seq(Frame)
  /\ Len(frames) <= RecursionLimit
  /\ \A i \in DOMAIN frames : Len(frames[i].tries) <= TryMax
  /\ count \in 0..StackMax
  /\ state \in [Gens -> States]
  /\ saved \in [Gens -> 0..StackMax]
  /\ kept \in [Gens -> Seq(Nat)]
  /\ \A g \in Gens : Len(kept[g]) <= TryMax
  /\ refs \in [Gens -> 0..RefMax]

(* A generator is RUNNING exactly while one activation on the frame stack  *)
(* is its own, through calls, nested resumes, exceptions that unwind       *)
(* several frames at once and the release of every other reference: it is  *)
(* neither resumed twice nor freed under its frame, and none stays RUNNING *)
(* ("already executing" for ever) after an unwind.                         *)
RunningIffActive ==
  /\ \A g \in Gens : state[g] = "running" <=> Held(g)
  /\ \A i, j \in DOMAIN frames :
       frames[i].gen = frames[j].gen /\ frames[i].gen # NoGen => i = j

Ascending(s) == \A i, j \in DOMAIN s : i <= j => s[i] <= s[j]

(* Every activation's operands lie above those of the frame below it, and  *)
(* above the placeholder, list or iterator that an activation of a         *)
(* generator answers to: an exception, a yield or a return that cuts the   *)
(* stack to a recorded depth or base never takes another frame's operands. *)
SlicesNested ==
  /\ \A i \in DOMAIN frames :
       /\ Ascending(frames[i].tries)
       /\ \A k \in DOMAIN frames[i].tries : frames[i].tries[k] >= frames[i].base
       /\ i = Len(frames) => Floor(frames[i]) <= count
       /\ i < Len(frames) => Floor(frames[i]) <= frames[i + 1].base
       /\ i < Len(frames) /\ frames[i + 1].gen # NoGen
            => Floor(frames[i]) < frames[i + 1].base
       /\ i = 1 => frames[i].gen = NoGen

(* The try blocks a suspended generator keeps refer to operands it saved,  *)
(* so that rebasing them on any later stack lands inside its own slice.    *)
KeptWithinSaved ==
  \A g \in Gens : state[g] \in {"created", "suspended"} =>
    Ascending(kept[g]) /\ \A i \in DOMAIN kept[g] : kept[g][i] <= saved[g]

(* "A finished generator iterates as empty and is never restarted"         *)
(* (docs/language-reference.md): it only ever goes away.                   *)
DoneForever ==
  [][\A g \in Gens : state[g] = "done" => state'[g] \in {"done", "absent"}]_vars
=============================================================================
