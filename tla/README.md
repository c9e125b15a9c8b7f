# Pythonami: models and proofs of the interpreter

Pythonami compiles a subset of Python to bytecode and interprets it on small
machines (C89, no garbage collector, 32-bit integers, a handful of fixed
limits). These modules model it from the text of a program to the last release at
shutdown, check the models with TLC, and prove the core of them with TLAPS.
`PROJECT.json` lists components, runs, the source lines of every definition,
the hazards and the theorems; this file says how they fit together.

## 1. The system

```
source -> tokenizer -> parser (AST) -> symbols -> compiler -> bytecode -> verifier -> vm
                                                                          |
        runtime: frames, value stack, generators, exceptions, objects, containers,
                 modules and imports, builtins, files, native extensions
```

Everything runs on one thread. What is hard is not parallelism but control:
generators are coroutines that move between the heap and the frame stack,
exceptions unwind several activations at once, an import runs a second
interpreter loop on the same frame stack, a collection such as `list(g)`
executes its own call twice, and the compiler inlines `finally` bodies.

| component | state | operations | interacts with | hard behaviour | what makes it correct |
|---|---|---|---|---|---|
| activation stack (`frame.c`, `generator.c`) | `runtime->frames`, height of `value_stack`, try blocks, generator objects | push, pop, suspend, resume, unwind | called by every control instruction of the vm | resume inside a running generator, unwinding through generators, try depths that move | one activation per running generator; operands nest; saved depths stay relative |
| interpreter loop (`vm.c`) | instruction pointer, current code, `current_exception` | one handler per opcode; `py68_vm_catch` | all of the runtime | re-executed calls, nested runs, exceptions out of generators | program means what Python says; operand depth is the verified one; programs end |
| compiler (`compiler.c`, `code.c`) | loop and try contexts, patch lists | compile each statement and expression | vm executes its output | inlined `finally`, leaving loops and try blocks | as for the loop |
| verifier (`verify.c`) | work list, depth by instruction | walk the control flow | runs before code is entered | joins, handlers, generator code | every reachable instruction has one depth |
| dict and set (`dict.c`, `set.c`) | slots (free, live, removed), count | lookup, insert, remove, grow | vm, builtins, attributes | probes over removed slots, wrapping, growth | behaves as a map |
| imports (`import.c`, `module.c`, `global.c`) | cache, loading marks, current global table | import, cache, exchange tables | nested interpreter run | cycles, failure half way, functions called meanwhile | a name is looked up in its own module; a failed import leaves nothing |
| objects (`object.c`, `list.c`, `runtime.c`) | reference counts, list of live objects | retain, release, shutdown | everything | cycles, partial failure, shutdown order | freed once, and only when unreferenced |
| allocator (`memory.c`) | bytes by tag, injected failure | alloc, realloc, free | everything | failure of one of several steps | counted bytes are the allocated ones |
| numbers (`value.c`, `float.c`, `range.c`) | none, a range's cursor | checked arithmetic, hashing, iteration | vm, tables | ends of the 32-bit range | exact or reported |
| tokenizer (`tokenizer.c`) | indentation stack, open groups, start of line | read a text into tokens | parser | dedent by several levels, groups over lines, limits of literals | layout and literals as written |
| parser (`parser_expression.c`, `parser_statement.c`) | position in the tokens | one function per production | compiler | tokens looked at ahead, fields of formatted strings | the documented grammar |
| name resolution (`symbol.c`) | scopes, slots | collect, look up | compiler | names a generator expression captures | each name means one slot or a global |
| classes (`type.c`, `attr.c`) | type objects | lookup along the base | vm | inheritance | Python's results |
| strings (`string.c`, `string_methods.c`) | none | search, split, replace, translate, repr | vm, builtins | buffers measured before they are filled, empty strings and ends | what is found is there, and all of it |
| builtins (`builtin*.c`) | none | functions called by index | vm, all objects | references on failure | Python's results |
| files, processes, platforms, extensions | closed mark; none | operating system calls | builtins | | |

## 2. Modules

**Activation** is the abstract heart. `frames` is `runtime->frames` (which
generator, where its operands start, how it was resumed, its try blocks),
`count` is `value_stack_count`, and `state`, `saved`, `kept`, `refs` are the
fields of generator objects that matter (`generator->state`, how many operands
it saved, the depths in its `try_stack`, references from outside frames). Each
action is a whole handler: `Resume` is `py68_vm_resume_generator` with its four
outcomes, `RaiseFrom` is the error dispatch at the end of `py68_vm_run` with
`py68_vm_catch`, `AbortFrom` is `py68_vm_fail`. What the program does next is
free, so that the module speaks of every program. What it asks of code in return
is stated by `Floor`: never pop an operand of the caller, and never pop below
the depth that a live try block recorded. `Import` nests a run and `Halt` ends
one. Every action that raises includes the unwinding, as the code does.

**Compiler** translates a small syntax of programs (numbers, names, calls, `if`,
`while`, `for`, `break`, `continue`, `return`, `try`, `with`, `raise`, `yield`)
the way `compiler.c` does, inlined `finally` bodies and patched jumps included, to the instructions
of **Bytecode**. An instruction's address is its number, not a byte offset.
**Verifier** is the walk of `verify.c`: the operand depth at every reachable
instruction, or refusal; its work list is emptied in as many rounds as there are instructions.
**VM** runs code: frames with real operands,
generator objects with saved operands and try blocks, `current_exception`, one
action per opcode or outcome. It takes any code that is well formed (`Compiled`,
`CompiledAssumption`: a code object's tables have what its instructions load), not only what the compiler
emits. It says when an activation has the operands that the verifier computed (`StackAsVerified`,
`SavedAsVerified`, and weaker `RunsVerifiedCode`, `SavedFits`), and it is mapped to Activation
(`ImplementsActivation`, `RunningAsActivation`, with the refinement mapping `A`: operands are counted, try blocks keep
their depths, generators their states and sizes). A call has at most `ArgMax` arguments, in both modules. `Room` says that a run stays
within what Activation is given: an identity for every generator, and a height that is never reached.
`StructuredCode` is what the verifier does not look at: the try blocks that are open at an instruction are the
same on every path to it, nothing below the innermost one is taken, and a function returns with nothing but
its result. **Reference** says what a program means, by recursion over the
program and without a stack: what it prints and how it ends. **Control** gives VM compiled programs and
relates the two (`OutputAsReference`, `Terminates`); `CompilesStructured` says that their code is structured.
**Programs** builds the family of programs: seven transfers of control, in every
round of a loop or one, bare or in `with` or in one of thirteen `try` statements,
inside or around a `for` or a `while`, called as a function or consumed by a
loop, a loop that stops early, `next`, or `list`; and programs of other
shapes (recursion to the limit, generators that consume generators, exceptions
through both).

The compiler is wrong on a part of that family (section 6). `Good` in Programs
says syntactically on which programs its inlining is right, and the two runs
`control` and `miscompiled` share the family along that line: on the first part
everything is checked, on the second what must hold of any verified code.

**Tables** is the open-addressing table of `dict.c` and `set.c`: probing,
removed slots, growth at two thirds, and the one difference between the two (a
set reuses the first removed slot it passed, a dict does not). **Mapping** is
what they promise, an abstract map; `Tables` maps its slots to it (`Content`).

**Import** is `import.c` with the parts of the loop it depends on. `globals` and
`executing` are `runtime->globals` and `executing_module`; `runs` are the calls of
`py68_import_execute_file` under way, with what each saved; a module object has a
`name`, a `stage` (the loading flag, and whether it exists), a place in `cache`
and a `table`; a function borrows its code from the module that is its `home` and
looks names up in the one that is its `owner`. Code is a free choice again: any
module imports, binds names, stores attributes into every loaded module (`StoreAttr`, which is `m.x = v`),
makes functions, calls every function there is,
raises, catches, exits. Exceptions are unwound one activation at a time, so that
the ends of nested runs are steps of their own. `bound` is a history variable:
the names that a module's own code bound, whatever table they went to, and those that were stored into it as
attributes. A table points to its names where the code that bound them has them, in the source of a module, and `lent` says
in whose: after `m.x = v` in a module whose import fails, a lookup in `m` compares with freed bytes (`Stale`, `LookUp`). **Loader**
is the promise of D-0023, a stack of loading modules and a set of loaded ones.
Where the program borrows from a module that was destroyed, anything may
happen, and the model stops with `status = "wild"`.

**Tokenizer** is `py68_tokenize` as a function from a text, a sequence of
characters, to tokens or an error: the width of a line's indent, the stack of
indents, the groups that are open, literals with their limits. **Syntax** has the trees of
`py68k_ast.h`. **Parser** is the recursive descent of the two parsers, with
precedence climbing and everything that is looked at ahead; a position of 0 is the
error. **Grammar** is the reference: the trees a sequence of tokens has
by the productions, found by splitting it in every way that a production allows.
It has no order of reading, no precedences and no lookahead, so that it is no copy
of the parser. **Strings** has the methods of strings, their
first passes that measure and their second passes that fill. **Text** types a text, fragment by
fragment, and compares what Tokenizer, Parser and
Strings make of it with definitions that say what is to be found.

Two modules that Text includes are its own models as well, because
Text reaches recursive operators, and nothing can be proved in a module that does.
**Numbers** is the checked arithmetic of the interpreter and iteration over a range,
on words of any size; **Words** takes up to three words as `operands` and compares what Numbers makes of them with
the integers. **Search** has the methods that look for one string in another, between offsets that may be negative or
beyond the end, and compares what they find in a `subject`, which gets longer, with the set of the places where it is (`Places`).
In one family of Text operands are taken, in one the subject gets longer, and in neither is anything typed; every
step of Text is a step or a stutter of Words and of Search.

**Scopes** is `symbol.c` and what `compiler.c` collects for a generator expression.
**Emitter** is the other part of the compiler: expressions, comprehensions,
displays, formatted strings, assignments, imports, functions, classes and loops,
to instructions with relative jumps. **Evaluation** verifies that code with Verifier
and runs it with open values: an operation gives a new value, known by its
place in the sequence of operations, and a test comes out either way, once.
**Meaning** gives that sequence by recursion on the tree, and knows of no stack, slots
or jumps. Compiler and Emitter split the language between them: Compiler has the
statements that leave blocks (`try`, `with`, `break`, `return`), where values matter
less than where control goes, Emitter those where the operands do.

**Heap** has strings, lists, tuples and iterators with their counts, the list of live
objects and the bytes by tag. An operation is one step, the releases it leads to are
steps of their own, taken from `work`, which is the C stack of
`py68_release_object`: a container is seen half torn down, as its items see it. `held`
is everything that refers to objects from outside (value stack, globals, frames,
modules), as a number. `Search` is `py68_list_contains` with its two work lists.
`fault` ends a behaviour where the code touches what it freed or a tuple's items that
do not exist; `gaveUp`, `leaked` and `tangled` are history.

`Activation_proofs`, `Verifier_proofs`, `VM_proofs`, `Tables_proofs`, `Import_proofs` and `Heap_proofs`
hold the theorems about the modules they are named after, `Values_proofs` those about Words and Search; **Iteration** has what they
need of induction. `MC*` modules give constants their values.

## 3. Runs

| run | module, cfg | what it shows |
|---|---|---|
| `activation` | MCActivation | `TypeOK`, `RunningIffActive`, `SlicesNested`, `KeptWithinSaved`, `DoneForever` for everything verified code can do |
| `control` | MCControl | `CompilesStructured`, `OutputAsReference`, `StackAsVerified`, `SavedAsVerified`, `Terminates`, `ImplementsActivation` on the programs compiled rightly |
| `miscompiled` | MCMiscompiled | `RunsVerifiedCode`, `SavedFits`, `RunningAsActivation` on the others |
| `tables` | MCTables | `TypeOK`, `EntriesFound`, `CountCovers`, `NeverFull`, `ActsAsMap` |
| `import` | MCImport | `TypeOK`, `TablesKept`, `CacheMirrorsRuns`, `FramesLive`, `SettledLookups`, `ImplementsLoader` |
| `text` | MCText | tokens (`TokensAsLayout`, `LiteralsExact`), trees (`ParsesGrammar`, `FormatsAsWritten`), words (`WordsExact`), strings (`SearchesExact`, `SplitsExact`, `ReprReads`, `TranslatesAll`, `FormsRecognised`) |
| `compile` | MCEvaluation | `EvaluatesAsWritten`, `OperandsAsVerified` |
| `heap` | MCHeap | `CountsExact`, `ShutdownClean`, `ListsAcyclic` |
| `import_globals` | MCImport, ImportGlobals.cfg | a function called while its module is being imported misses the module's names |
| `dict_churn` | MCTables, DictChurn.cfg | a dict loses an entry when its unused slots are used up |
| `from_import` | MCEvaluation, FromImport.cfg | a from-import leaves out the statement after it |
| `group_newlines` | MCText, GroupNewlines.cfg | a statement does not end after a bracket closed on a later line |

The first eight pass; the last four each end in the violation of one property.

Bounds, and why they are enough:

- `activation`: two generators, three frames, one try block per frame, a value
  stack of three operands, one argument, two references. Nesting of a generator
  in a generator in a run, the limit itself, a handler above and below a
  generator, and release while running all occur; the proofs lift the bounds.
- `control`, `miscompiled`: recursion limit 4 (the recursion programs reach it;
  no other program needs more), eight try blocks as `PY68_TRY_MAX`, at most two
  generator objects, twelve operands and three arguments (`GenMax`, `DepthMax` bound only the
  refinement mapping and are not reached: `Room` is an invariant of the run, and the hypothesis of the
  proof of the refinement). Loops run for at most three rounds.
- `tables`: a first table of 2 slots, grown to 4 and 8 (8, 16, ... in C: the
  rule for growth is the same), three keys of which two collide in every table
  and one begins at the last slot and wraps. The 8-slot table cannot grow
  (`MaxSize`), which is the failed allocation: the operation fails and the
  table stays as it is. The proofs lift these bounds. Deadlock is checked here: some operation is always possible.
- `import`: two modules and the program, two module objects (so that a module can
  fail and be imported again, or two be loading at once), four activations (the
  program, both modules and a function, with the limit reached), one global name
  (tables differ by having it), two functions kept at a time (chosen freely among
  all that are made). `ExitDepth = 0`: exit is called only when no import is under
  way, because after an exit under an import nothing below holds (section 6); a
  larger `ExitDepth` shows it. The proofs lift the other bounds.
- `text`: every sequence of up to four or five fragments of each family, where a
  fragment is as long as it takes to make the interesting case short: a line end with
  an indent, a clause with its colon, a field's opening. Six hundred thousand texts. The limit
  of integers is 16 in place of 2^31 (`IntLimit`): literals cross it in each of the four
  bases, and of a word of five bits every pair is an operand of every operator and
  every triple a range. Every string of up to five characters, of two, is searched for every string of up to two,
  between bounds from beyond one end to beyond the other (`Offsets`). The proofs lift the bounds for the operands and the searches.
- `compile`: about 3500 programs: each expression of two levels (every kind
  in every operand of every other), in a function and in a module; each two statements after
  each other, and one within each loop and its `else`, with a third behind; generator
  expressions within each other and over captured names; from-imports in the branches of an `if` and in the body and the
  `else` of a loop, in modules, functions and methods, of which the verifier refuses those that it has to and no others
  (`Level`: the paths that meet have left equally many operands). Three tests come out
  either way (`MaxDecisions`), which is both ways through two nested loops; further tests fail.
  `MaxBound` and `MaxFree` are the code's own.
- `heap`: three objects with two items each, and a search for a list in what is put
  into it that looks into one list (`Reach`, 8 in C): so it finds a list in itself and in its items,
  and gives up on a list in a list in a list, or on the second of two. Two references
  from outside at a time (a list and what is put into it, or an iterator and its list, which narrows what can happen to the
  list between two rounds), one lost reference, capacities
  1, 2 in place of 4, 8. Objects are interchangeable, hence the symmetry set: no
  definition tells one from another (sums over them do not depend on an order). The proofs lift the bounds.

Deadlock is not checked where programs end (`control`, `miscompiled`, `import`,
`compile`), where a text is as long as it gets (`text`), where the runtime is shut down
(`heap`), in the runs that look for a violation, and in `dict_churn`.

Fairness: `WF_vars(Next)` of VM. The interpreter is one loop that executes the
next instruction until the program ends, so that is all it needs, and nothing
else about scheduling is assumed; it is used for `Terminates` only.

Comparison with the program: the host build ran every program of the family of
Programs, 3920 in all, and printed what the VM model prints, wrong outputs included.
Reference was compared with CPython on the same programs; the one difference is that Pythonami
does not run the `finally` of a generator that is dropped, as `docs/decisions.md`
(D-0045) says, and Reference says the same. Of the other modules, what looked
odd in the model was run on the host build before it was taken for a finding, and
every finding below that does not say otherwise was seen there.

What the references leave open:

- `Grammar` follows the parser where it accepts more than the documents, and says so at the production: `return a, b`
  (`ReturnTrees`), where the documents contradict a test of the repository, a bare `yield` (`YieldTrees`), which
  `docs/grammar.ebnf` lacks and the tests have, and two that no test decides, a statement after a `yield` on its line (`Ends`) and
  a compound statement in a suite on one line (`Suites`). `ParsesGrammar` holds on all four; section 6 reports them.
- `TokensAsLayout` leaves out texts with a group that is closed on a later line than it was opened on;
  `NewlinesInGroupsIgnored`, which fails on them, is the one property about these.
- `TablesKept` and `SettledLookups` leave out tables with an entry named in the source of a failed import: a lookup in one is
  undefined, and the model stops there.
- `Meaning` has the code's order where Python's differs and no document promises one: the
  operands of a target before the value in `a[i] = v`, a class body before its base.
  Two iterations differ from Python and are not in the family: a name `range` that the program
  bound itself is still the builtin in a `for`, and `for x in 5` counts.
- `WordsExact` leaves out two outcomes that are wrong in the code and reported in section 6: a product of
  unlike signs that wraps where one summand less would fit (`JustBelow`), and a range whose
  last value plus the step does not fit. The least integer modulo -1 is reported as an overflow;
  Python has 0.
- `TranslatesAll` leaves out the exactly full buffer, `LiteralsExact` the literal that is
  the limit itself, `FormatsAsWritten` fields whose expression has a colon or an exclamation mark
  of its own. Generator expressions that run into the capture bugs of section 6 are not in the family.

## 4. Proofs

`Activation_proofs` proves, for any set of generators and any values of the bounds
that satisfy `ActivationAssumption`:

- `TypeCorrect`: `Spec => []TypeOK`
- `RunningExactlyWhileActive`: `Spec => []RunningIffActive`
- `OperandsNested`: `Spec => []SlicesNested`
- `TriesKeptWithinSaved`: `Spec => []KeptWithinSaved`
- `NeverRestarted`: `Spec => DoneForever`

They rest on `Inductive`, `Spec => []IInv`. None of the properties is inductive
alone. `SlicesNested` needs to know that the depths a resumed generator brings
along are within what it saved, `KeptWithinSaved` needs that an activation's try
blocks lie within its slice when it yields, and both need `RunningIffActive`, for a
generator that is resumed while an activation of it exists would be saved from
the wrong one. `IInv` is `Stack` (a statement about a list of frames and a height:
neighbouring activations nest, an activation of a generator has a slot of its
caller under it) and `Objects` (a statement about frames and generator
objects: running exactly while held, held once, what an object that is not
running keeps). Both take their state as arguments, so that one lemma about
popping, pushing or cutting frames serves every action that does it; there is one
lemma per action, `NextOK` puts them together. `RunsAsActivation` and `ActivationKept`
in `VM_proofs` carry the results over to the bytecode of any structured program.

`Verifier_proofs` proves, for code of every length:

- `VerifiedIsClosed`: what `py68_verify_code` accepts is closed. The first instruction stands at depth 0, and every step
  that a recorded instruction can take ends at an instruction of the code, at the depth recorded for it,
  without an underflow.

`Walked` is the invariant of the work list by the number of rounds: what was found and is no longer on the list has
had its steps followed, and each round takes one instruction off that never comes back. After as
many rounds as there are instructions none is left on it. `MaximumCovers` adds that the size of a generator's array
is as large as any depth after an instruction.

`VM_proofs` proves, for every program that satisfies `CompiledAssumption` and all limits, on the hypothesis `StructuredCode`:

- `StackKept` (`StackAsVerified`), `VerifiedCodeRuns` (`RunsVerifiedCode`), `SavedKept` (`SavedAsVerified`),
  `SavedAlwaysFits` (`SavedFits`), `RunningKept` (`RunningAsActivation`), each as `Spec /\ StructuredCode => []...`,
  all from `Inductive`, `Spec /\ StructuredCode => []IInv`

The verifier looks at one code object at a time. `IInv` says what makes its depths true of a stack that several
activations share. Each activation but the innermost stands at the instruction that called or resumed (`Point`), and the
operands between its base and that of the next are what the verifier says for that instruction, less what it has
taken (`Shape`, `Taken`: a `for` keeps the iterator, `next` leaves one operand where the call was, the default or nothing's
value, a collection keeps the arguments of its call, which will be executed again, and puts the list on top). Its try blocks are those that `StructuredCode`
finds at that instruction, moved up by the base. A generator runs exactly while one activation is of it (`Running`), and
one that is suspended keeps what the verifier says at its resumption point (`Generators`). The argument that is
not bookkeeping is the one about exceptions (`ThrowOK`): the handler that is found lies in some
activation below, its recorded depth lies within that activation's slice, and the one above starts higher
(`CalleeAbove`); so cutting the stack there takes nothing of the handler's activation that the handler needs and leaves
nothing of those that are gone, and each generator among them is finished.

From the same invariant, on the further hypothesis `[]Room`:

- `RunsAsActivation`: `Spec /\ StructuredCode /\ []Room => ImplementsActivation`, the refinement of Activation
- `ActivationKept`: so what `Activation_proofs` shows (`RunningIffActive`, `SlicesNested`, `KeptWithinSaved`,
  `DoneForever`) holds of whole runs, by instantiating that module under the mapping

There is one lemma per opcode (`...Maps`): what the code does to frames, operands and generators is, after the mapping, one of
Activation's actions with the arguments that this instruction has, or nothing. Activation lets the code choose, but only within
two duties (the `Floor` guards). That verified, structured code has them is `Poppable`: what an instruction takes lies above the innermost
try block (from `StructuredAt`), so above the base. A catchable error is `ThrowMaps`, where `Max` over
frames is Activation's innermost frame with a try block; `SuspendMaps` and `ResumeMaps` show that rebasing commutes with
taking depths. `Room` is needed because VM has no bound on its value stack and makes a new
generator object for every call, while Activation fails where the stack is full and has a fixed set of identities. It is a
condition on the run and not on the code: `GenMax` and `DepthMax` are arbitrary, so every run that makes finitely many
generators and whose stack is bounded has it for some values of them. That does not make it true of a run that never ends and makes
generators for ever; of such a run the invariants above are proved, and `RunningKept` needs no `Room`.

The hypothesis is needed because the verifier joins paths on the number of operands alone: code that leaves a
try block open on one path and not on another is accepted, and an exception then goes to a handler
at a depth that the verifier did not compute. `CompilesStructured` says that it holds of all programs of run
`control`; it does not hold of those that the compiler gets wrong (section 6), and for them the
weaker properties are model-checked in run `miscompiled`.

`Tables_proofs` proves, for any set of keys, any `Hash` and any sizes that satisfy
`TablesAssumption`:

- `TypeCorrect`, `LookupsFindEntries` (`EntriesFound`), `CountsCoverEntries` (`CountCovers`),
  `TablesNeverFill` (`NeverFull`), each as `Spec => []...`
- `TableIsMap`: `Spec => ActsAsMap`, the refinement of Mapping with its condition: a set
  always, a dict while it has an unused slot

`EntriesFound` says that a probe stops at an entry, which is the least of a set of distances; no
operation preserves that directly. `Sound` in `IInv` says the same in two halves that
each survive by themselves: the slots a probe for an entry's key passes before it were all used
(`Trodden`), and no two entries have the same key. A removal keeps the first because
the slot it leaves counts as used, an insertion because it only uses more. Growth fills a new
table slot by slot; `Moved` is the invariant of that loop, over the number of slots of the old table that
were looked at. `NeverFull` is what makes probes end, and `CountCovers` is what `NeverFull` needs, since
growth is decided by the count.

`Import_proofs` proves, for any modules, names, functions and limits that satisfy `ImportAssumption`
and for `ExitDepth = 0`:

- `TypeCorrect`, `TablesAlwaysKept` (`TablesKept`), `CacheAlwaysMirrors` (`CacheMirrorsRuns`),
  `FramesStayLive` (`FramesLive`), `LookupsSettled` (`SettledLookups`), each as `Spec => []...`
- `ImportingIsTransactional`: `Spec => ImplementsLoader`, the refinement of Loader

The hypothesis is the one the run has, and is needed: after an exit under an import the
activations of the nested run stay (section 6), and the properties fail. `IInv` ties the frame
stack to the runs that lie in it (`Layout`: where a run begins is an activation of its module, and
everything under it belongs to older modules), the runs to each other (`Chain`), the marks
and the cache to the runs (`Modules`), the tables to the names that modules bound or were given by attribute
stores (`Kept`), and says what
activations and functions may refer to (`Known`). The point of `Layout` is the end of a run that failed: its
module is destroyed, and only because it is the youngest is no activation left that needs it.

`Heap_proofs` proves, for any number of objects, items, references and capacities and any `Reach` of the search that
satisfy `BoundsAssumption`:

- `CountsStayExact`: `Spec => []CountsExact`
- `ShutdownIsClean`: `Spec => []ShutdownClean`
- `ListsStayAcyclic`: `Spec => []ListsAcyclic`

`IInv` is `Sound` (the live objects are those with a count, the bytes are those of blocks, an object waits to be
freed exactly when its count is 0 and it is not), `Acyclic`, `Exact` (the count of an object is what refers to it, with
releases still to be made, until shutdown forces) and `ShuttingDown` (what each phase has done with). An operation changes one object and retains
others, so the lemmas compare two heaps that differ at one object: how the references to each object and the
bytes of each kind change (`Balanced`, `Tagged`). Two arguments are not bookkeeping.
`Clear` ends with no reference from outside and none under way; then every
live object is an item of a live one (`NoRoots`), and going backwards along items in a finite set of objects comes round
to a cycle (`Backwards`), which `tangled` has recorded: that is why forcing finds nothing otherwise. And the search of `py68_list_contains` is
an iteration whose state is two bounded work lists (`Knows`): as long as neither is full, what it has not visited yet is
reachable only through what still waits, so an answer "not found" that did not give up means that the new
item reaches the list through no list, and putting it in closes no cycle.

`Values_proofs` proves `WordsExact` for words of every size (`IntLimitAssumption`: any positive limit),
`WordsKept`, under the specification of Words, from a theorem about each operation:
`AdditionExact`, `SubtractionExact`, `NegationExact`, `ProductExact`,
`DivisionExact`, `RangeExact`. The tests before a product compare one factor with a quotient by
the other; the argument is that the multiples of a factor next to `Largest` are
the quotient's and the next one (`PositiveProduct`, `NegativeProduct`), and with unlike signs the
test lets one multiple too many through, so that `ProductExact` says exactly where products
wrap. `DivisionExact` rests on the uniqueness of the quotient (`FloorUnique`) and on its fitting
the word but for the least word by -1 (`FloorFits`). `RangeExact` compares two ways to count:
`Stepped` adds the step until there is no next, whatever the sum wraps to, and `InRange` takes the multiples of the step up to the first
that is past the end. There is such a first (`RangeEnds`: a step is at least one, so that there are no more
numbers than words), the multiples before it are words, and what fits does not wrap
(`WrappedFits`); so both agree by induction over the steps, up to the first sum that is not a word.

It proves `SearchesExact` for every string, everything that is looked for and all bounds, `SearchesKept`, under the specification of Search.
`PlacesWithin` says that the window to which the code clamps its bounds leaves out no place and lets no other in, for a string
that is not empty; an empty one is found by other rules, which the property leaves to the code. In that window the loops of
`FindBytes` and `RFindBytes` are functions of the position, and the least place from a position on satisfies the equation
of the one (`FirstStep`), the greatest one up to it the equation of the other (`LastStep`); by induction from the
end of the window, or from its beginning, nothing else does. `CountsGreedily` is about a choice: count takes the first place that does not
overlap the last one taken. Whatever else begins a selection leaves no more room behind it (`MostStep`), so no selection of places that do
not overlap is larger.

Induction. The provers cannot instantiate an operator, so theorems that take one as a parameter are of no use;
Iteration states induction, least elements and the existence of a sequence of iterates for sets and
functions, which they can. The loops of Tables and Heap (rehashing, the search, retaining each of a sequence
of items) are functions of the number of rounds, and what is proved of them is proved for every number.

Only model-checked: `Terminates` (liveness is beyond the prover); `OutputAsReference` and `CompilesStructured`, which are
about a recursive compiler; everything else in Tokenizer, Parser,
Grammar, Strings and Text, and in Scopes, Emitter, Meaning and Evaluation,
which are recursive over texts, trees and programs. Verifier has no recursive operator, so the
depths that `OperandsAsVerified` compares are those that `VerifiedIsClosed` is about.

## 5. Not modelled

- **Floats** (`float.c`): single precision in software. The rounding of an operation is a function
  of its bits, without state or order, and has nothing a table of cases would not test better. That a
  float and the integer it equals hash differently follows from `value.c:139` by reading.
- **Files, processes, platforms, extensions**: operating system calls. The only state is the closed mark
  of a file. What an extension does is copy values in and out.
- **Library scripts**: programs in the interpreted language.
- Of the modelled components: exception messages and positions; the byte encoding of instructions
  (jump widths, operands beyond 8 and 16 bits) and the verifier's check of them; `%` formatting and
  format specifications; default parameters; lookup along a base type; items of dict and set as
  references in Heap; the modules `sys` and `os`, which are there from the start and into which attributes can be stored as well;
  the search of `sys.path`; the poll of the break key; the arena of syntax trees,
  which is freed as one; `sorted`, conversions and time.

`PROJECT.json` gives the status of each component, and a note for each hazard that no property
covers.

## 6. Findings

With a run:

- **import globals** (`import.c:256`): a function called during the import of its own module gets NameError.
- **dict churn** (`dict.c:116`): a dict with no unused slot overwrites a live entry.
- **from import** (`compiler.c:1447`): the index of the aliases is that of the statements, so that statements
  after a from-import are left out or compiled for ever. Besides, each alias leaves the module
  on the operand stack, so that `if g: from m import a` or a from-import in a loop is refused
  as "inconsistent stack depth at control-flow join" (`verify.c:86`), unless the other branch leaves as many
  operands (`OperandsAsVerified` says when).
- **group newlines** (`tokenizer.c:418`): after a bracket closed on a later line the statement does not end.

Met while modelling, excluded from the passing runs where they would hide the rest, and described
there; reproduced with the host build unless marked *by reading*:

- *Leaving blocks* (`Good` in Programs excludes these): a `return` in a `for` leaves the iterator
  on the caller's operands (`compiler.c:1153`), runs a finally body inside its own try, and skips
  `__exit__` in a `with`; a `break` in a `for` in a `try` runs the `finally` of that try,
  which then runs again; `break` or `continue` in a `try` or `with` in a loop leaves the try block live;
  an exception in an `except` clause skips the `finally` of its statement.
- *Exceptions*: a handled user exception is taken for a later error of the same kind (`vm.c:327`);
  a list that becomes shorter during a loop ends it with an exception without a name (`range.c:75`).
- *Imports*: `exit(3)` in an imported module raises TypeError or runs on in destroyed code
  (`import.c:354`); functions that escape from a module whose import failed run destroyed code; a
  module that stores a new attribute into another, `m.x = v`, and then fails leaves in that one's table a pointer to the name in its own
  source, which is freed (`module.c:83`, `import.c:289`): `m.x` is then not found, or any lookup reads freed memory,
  although `docs/decisions.md:657` (D-0023) wants no stale globals after a failed import; a generator
  expression in a function of an imported module looks names up in the importing one (`vm.c:830`).
- *Generator expressions*: names read in nested ones or in inner filters are not always captured
  and give NameError (`compiler.c:708`, `:734`); a method that is a generator compiles and is verified, but called as a bound method it makes no
  generator (`vm.c:1552`), and its first `yield` is a BytecodeError (`vm.c:1739`).
- *Compiler*: a `def` in an `if` of a module is an internal error; a call with 256 arguments passes
  none, for the count is cut to eight bits.
- *Reading*: the literal 2147483648 is taken and wraps; `x[:2]` is a syntax error and `x[::2]` means
  `x[:2]`; `return a, b` returns a tuple (`parser_statement.c:736`), as `tests/unit/test_statements.c:72` wants it, while
  `docs/grammar.ebnf:33`, `docs/decisions.md:321` and `:623` (D-0038, D-0015) and `CHANGELOG.md:130` call it a syntax
  error; a `yield` may be bare, which `docs/testing.md:27` tests and `docs/grammar.ebnf:54` does not have; another statement
  may follow a `yield` on its line (`yield 1 yield 2`, `parser_statement.c:63`), and a suite on one line
  may be a compound statement (`if a: if b: c`), against `Python68K_Full_Agent_Implementation_Brief.md:793` and `:840`; `0_1` is accepted; a line of tabs alone is refused;
  `f"{a[0:1]}"` and `f"{a != b}"` are refused.
- *Numbers*: `3 * -715827883` wraps (`vm.c:398`); a range to the largest integer does not end (`range.c:84`);
  `1.0 in {1: 2}` is False although `1 == 1.0` (`value.c:139`).
- *Strings*: `translate` fails where its buffer is exactly full; `rsplit(None, n)` splits from the
  left; `find` of the empty string beyond the end answers with the end.
- *Objects*: `a = []; b = (a,); a.append(b)` makes a cycle, which `docs/memory-model.md:7` says is rejected: the
  check looks into lists only, and lets a value in when its work lists are full or cannot be had
  (`list.c:19`). At shutdown, objects left by a cycle or a lost reference are freed oldest first, and the
  later ones touch what is freed (`runtime.c:58`; in the model `tangled`). `list_pop` keeps the list's
  reference (`builtin_io.c:238`, *by reading*; in the model `leaked`); a tuple whose block cannot be had is
  released with items it does not have (`tuple.c:37`, *by reading*; in the model `fault`); `sorted` gives
  a reference back twice when it fails (`builtin_io.c:955`); the list of a collection is lost when it cannot be
  pushed (`vm.c:1445`, *by reading*).

## 7. Plan

The activation stack came first because everything else runs on it, then the
bytecode that drives it, the tables and imports, then the front end, the evaluation
of expressions, and the heap. What is left:

1. Proofs: what remains true of verified code that is not structured; `OperandsAsVerified`, for which the compiler of
   expressions would have to be a function and not a recursive operator; runs that make generators for ever, for which
   Activation would need identities that are used again.
2. dict and set in Heap: their items, copies and iteration while the table changes.
3. Classes: lookup along the base type, with instances and bound methods.
