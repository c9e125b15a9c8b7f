------------------------------- MODULE Import -------------------------------
(***************************************************************************)
(* Importing modules (import.c): the cache, the loading mark, the exchange *)
(* of runtime->globals while a module's code runs in a nested py68_vm_run, *)
(* and what happens to all of that when functions of several modules call  *)
(* each other, exceptions pass through imports, and programs exit.         *)
(*                                                                         *)
(* What the code of each module does next is a free choice.  A table of    *)
(* global names is the set of names bound in it, without __name__.  A name *)
(* in a table is a pointer into the source of the code that bound it       *)
(* first, which is another module's when it came with `m.x = v`.           *)
(***************************************************************************)
EXTENDS Integers, Sequences, FiniteSets

CONSTANTS
  Mods,        (* the names of the modules that can be imported            *)
  NoName,      (* the name of a module object that was not made yet        *)
  Names,       (* the global names that code binds                         *)
  FrameMax,    (* runtime->recursion_limit                                 *)
  ObjMax,      (* bound: module objects made, failed imports included      *)
  FunMax,      (* bound: functions and generators that code keeps          *)
  ExitDepth    (* bound: exit() is called under at most so many imports    *)

ASSUME ImportAssumption ==
  /\ NoName \notin Mods
  /\ FrameMax \in Nat \ {0} /\ ObjMax \in Nat /\ FunMax \in Nat /\ ExitDepth \in Nat

(* The program is module 0, which has no module object: globals_owner and  *)
(* executing_module are NULL for it.                                       *)
Program == 0
Objs == 1..ObjMax

VARIABLES
  made,        (* the module objects made so far are 1..made               *)
  name,        (* module->name                                             *)
  stage,       (* flag 1 (loading) of the object, and whether it exists    *)
  cache,       (* runtime->import_modules                                  *)
  table,       (* module->globals                                          *)
  lent,        (* the modules whose source a table's entries are named in, *)
               (* of the entries that an attribute store has made          *)
  globals,     (* runtime->globals                                         *)
  executing,   (* runtime->executing_module                                *)
  runs,        (* the calls of py68_import_execute_file under way          *)
  frames,      (* runtime->frames                                          *)
  functions,   (* the functions and generators that code can reach         *)
  status,      (* what the innermost py68_vm_run does, or how it all ended *)
  bound        (* history: the names that each module's own code has bound,*)
               (* and those that were stored into it as attributes         *)

modvars == <<made, name, stage, cache, table, lent>>
runvars == <<globals, executing, runs>>
vars == <<modvars, runvars, frames, functions, status, bound>>

(* home is the module whose code the function is, owner its globals_owner. *)
Function == [owner : 0..ObjMax, home : 0..ObjMax, kind : {"def", "genexpr"}]
Frame == [owner : 0..ObjMax, home : 0..ObjMax,
          kind : {"module", "def", "genexpr"}, handles : BOOLEAN]

Activation(f) == [owner |-> f.owner, home |-> f.home, kind |-> f.kind, handles |-> FALSE]
Module(o) == [owner |-> Program, home |-> o, kind |-> "module", handles |-> FALSE]

Init ==
  /\ made = 0 /\ cache = {}
  /\ name = [o \in Objs |-> NoName]
  /\ stage = [o \in Objs |-> "absent"]
  /\ table = [o \in Objs |-> {}]
  /\ lent = [o \in Objs |-> {}]
  /\ globals = {} /\ executing = Program /\ runs = <<>>
  /\ frames = <<Module(Program)>>
  /\ functions = {}
  /\ status = "run"
  /\ bound = [o \in 0..ObjMax |-> {}]

Depth == Len(frames)
Top == frames[Depth]
Running == status = "run"
Front(s) == SubSeq(s, 1, Len(s) - 1)
Last(s) == s[Len(s)]
Destroyed(o) == o # Program /\ stage[o] = "destroyed"

Becomes(s) == status' = s /\ UNCHANGED <<modvars, runvars, frames, functions, bound>>

-----------------------------------------------------------------------------
(* Importing.                                                              *)

(* A bug to detect: a module is found only once it is loaded.              *)
FoundLoaded(n) == {o \in cache : name[o] = n /\ stage[o] = "loaded"}

(* py68_import_cache_find.                                                 *)
Found(n) == {o \in cache : name[o] = n}

(* "import cycle detected"; a loaded module is simply pushed.              *)
ImportCycle(n) ==
  /\ Running
  /\ \E o \in Found(n) : stage[o] = "loading"
  /\ Becomes("error")

(* No such file, or an error before its code runs: a syntax error and a    *)
(* lack of memory cannot be caught.                                        *)
ImportFails(n) == Running /\ Found(n) = {} /\ \E s \in {"error", "fatal"} : Becomes(s)

(* py68_import_execute_file up to the first instruction of the module.     *)
ImportRuns(n) ==
  /\ Running /\ Found(n) = {} /\ made < ObjMax /\ Depth < FrameMax
  /\ LET o == made + 1
     IN /\ made' = o
        /\ name' = [name EXCEPT ![o] = n]
        /\ stage' = [stage EXCEPT ![o] = "loading"]
        /\ cache' = cache \cup {o}
        /\ runs' = Append(runs, [module |-> o, saved |-> globals,
                                 executing |-> executing, base |-> Depth])
        /\ globals' = table[o]
        /\ executing' = o
        /\ frames' = Append(frames, Module(o))
  /\ UNCHANGED <<table, lent, functions, status, bound>>

(* A bug to detect: functions made after a nested import belong to no module.*)
RestoreCleared(r) ==
  /\ executing' = Program /\ globals' = r.saved
  /\ runs' = Front(runs) /\ frames' = SubSeq(frames, 1, r.base)
  /\ UNCHANGED <<made, name, lent, functions, bound>>

(* A bug to detect: the activations of a run that failed stay.             *)
RestoreFrames(r) ==
  /\ executing' = r.executing /\ globals' = r.saved
  /\ runs' = Front(runs) /\ UNCHANGED frames
  /\ UNCHANGED <<made, name, lent, functions, bound>>

(* The end of a nested run: the activations it leaves, if any, are popped  *)
(* and the importing module's globals are current again.                   *)
Restore(r) ==
  /\ executing' = r.executing /\ globals' = r.saved
  /\ runs' = Front(runs) /\ frames' = SubSeq(frames, 1, r.base)
  /\ UNCHANGED <<made, name, lent, functions, bound>>

(* A bug to detect: the table that the module has filled is not kept.      *)
LoadedEmpty(r) ==
  /\ stage' = [stage EXCEPT ![r.module] = "loaded"]
  /\ UNCHANGED <<table, cache>>

Loaded(r) ==
  /\ stage' = [stage EXCEPT ![r.module] = "loaded"]
  /\ table' = [table EXCEPT ![r.module] = globals]
  /\ UNCHANGED cache

(* A bug to detect: a module that failed is left in the cache.             *)
DiscardedKept(r) ==
  /\ stage' = [stage EXCEPT ![r.module] = "destroyed"]
  /\ UNCHANGED <<table, cache>>

(* py68_import_cache_remove, and the release of the last reference.        *)
Discarded(r) ==
  /\ stage' = [stage EXCEPT ![r.module] = "destroyed"]
  /\ cache' = cache \ {r.module}
  /\ UNCHANGED table

(* OP_HALT.                                                                *)
Halt ==
  /\ Running /\ Top.kind = "module"
  /\ IF runs = <<>>
     THEN /\ status' = "halted" /\ frames' = <<>>
          /\ UNCHANGED <<modvars, runvars, functions, bound>>
     ELSE Loaded(Last(runs)) /\ Restore(Last(runs)) /\ UNCHANGED status

-----------------------------------------------------------------------------
(* Code.                                                                   *)

(* OP_STORE_GLOBAL, which only module level code contains.                 *)
Store(x) ==
  /\ Running /\ Top.kind = "module"
  /\ globals' = globals \cup {x}
  /\ bound' = [bound EXCEPT ![Top.home] = @ \cup {x}]
  /\ UNCHANGED <<modvars, executing, runs, frames, functions, status>>

(* The modules whose objects code can have in hand: py68_import_name gives *)
(* out none whose code has not ended.                                      *)
Reachable == {o \in Objs : stage[o] = "loaded"}

(* An entry of the table is named in the source of a module that is gone.  *)
Stale(o) == \E h \in lent[o] : Destroyed(h)

(* OP_STORE_ATTR of a module, whoever owns the table (py68_module_set): a  *)
(* new entry keeps the pointer to the name that the storing code passes.   *)
StoreAttr(o, x) ==
  /\ Running /\ o \in Reachable
  /\ table' = [table EXCEPT ![o] = @ \cup {x}]
  /\ lent' = IF x \in table[o] THEN lent ELSE [lent EXCEPT ![o] = @ \cup {Top.home}]
  /\ bound' = [bound EXCEPT ![o] = @ \cup {x}]
  /\ UNCHANGED <<made, name, stage, cache, runvars, frames, functions, status>>

(* A name is compared with those of the table, to load a global of a       *)
(* function of the module, or to load or store an attribute of it.  When   *)
(* one of them was freed, anything may happen; else nothing changes here.  *)
LookUp(o) == Running /\ o \in Reachable /\ Stale(o) /\ Becomes("wild")

(* OP_MAKE_FUNCTION: of a def at module level, and of a generator          *)
(* expression anywhere.                                                    *)
MakeFunction(kind) ==
  /\ Running /\ (kind = "def" => Top.kind = "module") /\ Cardinality(functions) < FunMax
  /\ functions' = functions \cup {[owner |-> executing, home |-> Top.home, kind |-> kind]}
  /\ UNCHANGED <<modvars, runvars, frames, status, bound>>

(* A bug to detect: the limit compared with the depth before the push.     *)
ReserveOneMore == Depth <= FrameMax

Reserve == Depth < FrameMax

(* A function is called, or a generator resumed.  Its code and its owner   *)
(* are borrowed from modules: when one of them was destroyed, anything may *)
(* happen.                                                                 *)
Call(f) ==
  /\ Running
  /\ IF Destroyed(f.home) \/ Destroyed(f.owner) THEN Becomes("wild")
     ELSE IF ~Reserve THEN Becomes("error")
     ELSE /\ frames' = Append(frames, Activation(f))
          /\ UNCHANGED <<modvars, runvars, functions, status, bound>>

Return ==
  /\ Running /\ Top.kind # "module"
  /\ frames' = Front(frames)
  /\ UNCHANGED <<modvars, runvars, functions, status, bound>>

(* OP_SETUP_TRY and OP_POP_TRY of an outermost try block.                  *)
Try ==
  /\ Running
  /\ frames' = [frames EXCEPT ![Depth].handles = ~@]
  /\ UNCHANGED <<modvars, runvars, functions, status, bound>>

Raise == Running /\ \E s \in {"error", "fatal"} : Becomes(s)

-----------------------------------------------------------------------------
(* Errors.                                                                 *)

(* The innermost run ends with an error: the program fails, or the import  *)
(* that waits for the run does and raises in its turn.                     *)
EndRun ==
  IF runs = <<>>
  THEN /\ status' = "failed" /\ frames' = <<>>
       /\ UNCHANGED <<modvars, runvars, functions, bound>>
  ELSE Discarded(Last(runs)) /\ Restore(Last(runs)) /\ UNCHANGED status

(* py68_vm_catch, one activation at a time: a handler takes the exception, *)
(* an activation without return_code ends the run, any other is popped.    *)
Catch ==
  /\ status = "error" /\ Top.handles
  /\ frames' = [frames EXCEPT ![Depth].handles = FALSE]
  /\ status' = IF Destroyed(Top.home) THEN "wild" ELSE "run"
  /\ UNCHANGED <<modvars, runvars, functions, bound>>

Unwind ==
  /\ status = "error" /\ ~Top.handles
  /\ IF Top.kind = "module" THEN EndRun
     ELSE frames' = Front(frames) /\ UNCHANGED <<modvars, runvars, functions, status, bound>>

Fail == status = "fatal" /\ EndRun

(* exit(): py68_vm_run returns PY68_STATUS_EXIT.  Under an import nobody   *)
(* pops the activations of the nested run, and py68_import_name turns the  *)
(* status into an error, the TypeError that py68_native_call recorded.     *)
Exit ==
  /\ Running /\ Len(runs) <= ExitDepth
  /\ IF runs = <<>>
     THEN /\ status' = "exited" /\ frames' = <<>>
          /\ UNCHANGED <<modvars, runvars, functions, bound>>
     ELSE LET r == Last(runs)
          IN /\ Discarded(r)
             /\ executing' = r.executing /\ globals' = r.saved /\ runs' = Front(runs)
             /\ status' = "error"
             /\ UNCHANGED <<made, name, lent, frames, functions, bound>>

Next ==
  \/ Halt \/ Return \/ Try \/ Raise \/ Catch \/ Unwind \/ Fail \/ Exit
  \/ \E n \in Mods : ImportCycle(n) \/ ImportFails(n) \/ ImportRuns(n)
  \/ \E x \in Names : Store(x) \/ \E o \in Objs : StoreAttr(o, x)
  \/ \E o \in Objs : LookUp(o)
  \/ \E k \in {"def", "genexpr"} : MakeFunction(k)
  \/ \E f \in functions : Call(f)

Spec == Init /\ [][Next]_vars

-----------------------------------------------------------------------------
(* Properties.                                                             *)

Run == [module : Objs, saved : SUBSET Names, executing : 0..ObjMax, base : Nat]

TypeOK ==
  /\ made \in 0..ObjMax
  /\ name \in [Objs -> Mods \cup {NoName}]
  /\ stage \in [Objs -> {"absent", "loading", "loaded", "destroyed"}]
  /\ cache \subseteq Objs
  /\ table \in [Objs -> SUBSET Names] /\ lent \in [Objs -> SUBSET (0..ObjMax)]
  /\ globals \subseteq Names /\ executing \in 0..ObjMax
  /\ runs \in Seq(Run)
  /\ frames \in Seq(Frame) /\ Depth <= FrameMax
  /\ functions \subseteq Function
  /\ status \in {"run", "error", "fatal", "halted", "failed", "exited", "wild"}
  /\ bound \in [0..ObjMax -> SUBSET Names]

(* The modules whose code is running, outermost first, and where the table *)
(* of each is while the others run.                                        *)
Nested == <<Program>> \o [i \in DOMAIN runs |-> runs[i].module]
TableAt(i) == IF i = Len(Nested) THEN globals ELSE runs[i].saved

(* However imports nest and fail, every module that is being executed, the *)
(* program included, and every module that was, has exactly the names that *)
(* its own code bound or that were stored as its attributes, by whatever   *)
(* module and in whatever import: the exchange of tables is always undone. *)
(* Left out are tables with a name in the source of a failed import.       *)
TablesKept ==
  /\ \A i \in DOMAIN Nested : TableAt(i) = bound[Nested[i]]
  /\ \A o \in Objs : stage[o] = "loaded" /\ ~Stale(o) => table[o] = bound[o]

(* The cache holds one object for each module that is loaded or loading,   *)
(* and exactly the modules on the stack of imports are loading: a failure  *)
(* leaves neither an entry nor a mark that would be "import cycle" for     *)
(* ever.                                                                   *)
CacheMirrorsRuns ==
  /\ {o \in Objs : stage[o] = "loading"} = {runs[i].module : i \in DOMAIN runs}
  /\ cache = {o \in Objs : stage[o] \in {"loading", "loaded"}}
  /\ \A o, p \in cache : name[o] = name[p] => o = p

(* No activation outlives the module whose code it runs or whose globals   *)
(* it looks up: code is destroyed only after all that ran it are gone.     *)
FramesLive ==
  status # "wild" =>
    \A i \in DOMAIN frames : ~Destroyed(frames[i].home) /\ ~Destroyed(frames[i].owner)

(* The table that OP_LOAD_GLOBAL consults in an activation.                *)
Consulted(f) == IF f.owner = Program THEN globals ELSE table[f.owner]

Settled(f) ==
  /\ f.kind = "def"
  /\ IF f.home = Program THEN runs = <<>> ELSE stage[f.home] = "loaded" /\ ~Stale(f.home)

(* Module level code looks names up among those it bound itself, and every *)
(* function of a module that is loaded among those that its module bound   *)
(* or was given as attributes, whoever calls it, in whatever import.  Left *)
(* out are functions of a module that is still being executed, of the      *)
(* program during an import, of a module with an entry named in the source *)
(* of a failed import, and generator expressions inside functions.         *)
SettledLookups ==
  Running /\ (Top.kind = "module" \/ Settled(Top)) => Consulted(Top) = bound[Top.home]

(* "Functions defined in a module resolve globals against that module      *)
(* (including after nested imports)" (docs/language-reference.md).         *)
OwnGlobals == Running /\ Top.kind = "def" => Consulted(Top) = bound[Top.home]

L == INSTANCE Loader WITH
       loading <- [i \in DOMAIN runs |-> name[runs[i].module]],
       loaded <- {name[o] : o \in {p \in cache : stage[p] = "loaded"}}

(* Importing is transactional, as D-0023 decides.                          *)
ImplementsLoader == L!Spec
=============================================================================
