-------------------------------- MODULE Heap --------------------------------
(***************************************************************************)
(* The objects of the runtime: strings, lists, tuples and the iterators    *)
(* over lists, their reference counts, the list of live objects, the bytes *)
(* that are counted by tag, and the shutdown that frees what is left.      *)
(*                                                                         *)
(* An operation is one step; the releases it causes are steps of their     *)
(* own, taken from a work stack in the order of the calls they stand for,  *)
(* so that a container that is being torn down is seen half way.  Any      *)
(* allocation may fail.  An operation that fails before it has changed     *)
(* anything is a stutter and is left out.                                  *)
(***************************************************************************)
EXTENDS Integers, Sequences, FiniteSets, Functions

CONSTANTS Objects,        \* bound: identities of the objects that exist at a time
          MaxItems,       \* bound: items of a container
          MaxHeld,        \* bound: references held outside containers, of all objects
          MaxLeaked,      \* bound: references that list_pop loses, of all objects
          First,          \* the first capacity of a list (4 in list.c:64)
          Reach           \* the capacity of the containment check (8 in list.c:28)

ASSUME BoundsAssumption ==
  /\ {MaxItems, MaxHeld, First, Reach} \subseteq Nat \ {0}
  /\ MaxLeaked \in Nat /\ IsFiniteSet(Objects)

VARIABLES heap,     \* the objects by identity
          live,     \* live_objects: newest first
          held,     \* references held by the value stack, globals, frames, modules
          work,     \* the releases and frees that a release has still to make
          bytes,    \* stats.bytes_by_tag; an object header and a value are one each
          phase,    \* running, clearing (shutdown gives references back), forcing, ended
          fault,    \* undefined behaviour that was met, after which nothing is known
          leaked,   \* history: references that list_pop took and nobody gives back
          gaveUp,   \* history: a container was stored although the check was cut short
          tangled   \* history: a container cycle or a leak when shutdown began

vars == <<heap, live, held, work, bytes, phase, fault, leaked, gaveUp, tangled>>

Kinds == {"string", "list", "tuple", "range"}
Sequential == {"list", "tuple"}
Freed == [kind |-> "freed", items |-> <<>>, capacity |-> 0, count |-> 0, block |-> 0,
          current |-> 0, stop |-> 0]

Is(o, kind) == heap[o].kind = kind
HeldOf(kinds) == {o \in Objects : held[o] > 0 /\ heap[o].kind \in kinds}
Occurrences(o, items) == Cardinality({i \in DOMAIN items : items[i] = o})
ReleaseOf(o) == [do |-> "release", object |-> o]
FreeOf(o) == [do |-> "free", object |-> o]

(* The block that a new object gets is any that is free.                   *)
Fresh(o) == Is(o, "freed")
-----------------------------------------------------------------------------
(* Reference counts and bytes.                                             *)

Retained(h, items) ==
  [o \in Objects |-> [h[o] EXCEPT !.count = @ + Occurrences(o, items)]]

WithItems(object, items) == [object EXCEPT !.items = items]
Filled(object, items, capacity) ==
  [object EXCEPT !.items = items, !.capacity = capacity, !.block = capacity]

Minus(total, size) == IF size <= total THEN total - size ELSE total
Reallocated(tag, old, new) == [bytes EXCEPT ![tag] = @ - old + new]

(* A new object with its items retained and count 1, at the head of the    *)
(* live objects.                                                           *)
Made(h, o, kind, items, capacity) ==
  [Retained(h, items) EXCEPT
     ![o] = [kind |-> kind, items |-> items, capacity |-> capacity, count |-> 1,
             block |-> capacity, current |-> 0, stop |-> 0]]

NextCapacity(capacity) == IF capacity = 0 THEN First ELSE capacity * 2

(* What a list has room for after n appends.                               *)
CapacityFor(n) ==
  LET capacity[i \in 0..n] ==
        IF i = 0 THEN 0
        ELSE IF capacity[i - 1] = i - 1 THEN NextCapacity(capacity[i - 1])
        ELSE capacity[i - 1]
  IN capacity[n]

Quiet == phase = "running" /\ work = <<>> /\ fault = "none"
Gain(o) == SumFunction(held) < MaxHeld /\ held' = [held EXCEPT ![o] = @ + 1]
Lose(o) == held' = [held EXCEPT ![o] = @ - 1]
History == UNCHANGED <<phase, fault, leaked, gaveUp, tangled>>
-----------------------------------------------------------------------------
(* Containers made from values: a list grows as it is filled, a tuple has  *)
(* its block at once.  A list that cannot grow is released with what it    *)
(* has; a tuple without a block is released with the count of the items it *)
(* should have had.                                                        *)

NewString ==
  /\ Quiet
  /\ \E o \in Objects :
       Fresh(o) /\ Gain(o) /\ live' = <<o>> \o live /\ heap' = Made(heap, o, "string", <<>>, 0)
  /\ bytes' = [bytes EXCEPT !["string"] = @ + 1]
  /\ UNCHANGED work /\ History

Less(spent) == [v \in Objects |-> held[v] - Occurrences(v, spent)]
ReleasesOf(items) == [i \in 1..Len(items) |-> ReleaseOf(items[i])]
Room(spent) == SumFunction(Less(spent)) < MaxHeld

(* The operands spent are given back when the container is there, those of *)
(* onFailure when it is not.                                               *)
ListOf(items, spent, onFailure) ==
  \E o \in Objects :
    /\ Fresh(o) /\ live' = <<o>> \o live /\ History
    /\ \/ /\ held' = [Less(spent) EXCEPT ![o] = 1] /\ work' = ReleasesOf(spent)
          /\ heap' = Made(heap, o, "list", items, CapacityFor(Len(items)))
          /\ bytes' = [bytes EXCEPT !["list"] = @ + 1 + CapacityFor(Len(items))]
       \/ \E n \in 0..(Len(items) - 1) :
            /\ CapacityFor(n) = n
            /\ held' = Less(onFailure) /\ work' = ReleasesOf(<<o>> \o onFailure)
            /\ heap' = Made(heap, o, "list", SubSeq(items, 1, n), n)
            /\ bytes' = [bytes EXCEPT !["list"] = @ + 1 + n]

TupleOf(items, spent) ==
  \E o \in Objects :
    /\ Fresh(o) /\ UNCHANGED <<phase, leaked, gaveUp, tangled>>
    /\ \/ /\ held' = [Less(spent) EXCEPT ![o] = 1] /\ work' = ReleasesOf(spent)
          /\ live' = <<o>> \o live /\ UNCHANGED fault
          /\ heap' = Made(heap, o, "tuple", items, Len(items))
          /\ bytes' = [bytes EXCEPT !["tuple"] = @ + 1 + Len(items)]
       \/ /\ items # <<>> /\ fault' = "items of a tuple without a block"
          /\ UNCHANGED <<heap, live, held, work, bytes>>

Container(kind, items, spent, onFailure) ==
  /\ Len(items) <= MaxItems /\ Room(spent)
  /\ \/ kind = "list" /\ ListOf(items, spent, onFailure)
     \/ kind = "tuple" /\ TupleOf(items, spent)

OnStack(operands) == \A v \in Objects : Occurrences(v, operands) <= held[v]

(* [a, b] and (a, b): the values are on the value stack, the last one on   *)
(* top; they are copied and then given back from the top.                  *)
Build ==
  /\ Quiet
  /\ \E kind \in Sequential, n \in 0..MaxItems : \E values \in [1..n -> HeldOf(Kinds)] :
       OnStack(values) /\ Container(kind, [i \in 1..n |-> values[n + 1 - i]], values, <<>>)

(* a + b gives its operands back in any case; a[from:to] is read off a     *)
(* container that stays; list(t) copies a tuple.                           *)
Concat ==
  Quiet /\ \E a, b \in HeldOf(Sequential) :
             /\ heap[a].kind = heap[b].kind /\ OnStack(<<a, b>>)
             /\ Container(heap[a].kind, heap[a].items \o heap[b].items, <<a, b>>, <<a, b>>)
Slice ==
  Quiet /\ \E a \in HeldOf(Sequential) : \E from \in 1..MaxItems, to \in 0..MaxItems :
             to <= Len(heap[a].items) /\ Container(heap[a].kind, SubSeq(heap[a].items, from, to), <<>>, <<>>)
CopySequence ==
  Quiet /\ \E a \in HeldOf({"tuple"}) : Container("list", heap[a].items, <<>>, <<>>)
-----------------------------------------------------------------------------
(* The containment check: a search from the value that is to be stored,    *)
(* through lists, for the list that is to store it.  It looks at Reach     *)
(* lists at most and keeps Reach more waiting; what does not fit is not    *)
(* looked at, and what was not found is taken for absent.                  *)

(* A bug to detect: only the list itself is looked at, not what it holds.  *)
LookShallow(s, target) ==
  IF s.verdict # "looking" THEN s
  ELSE [s EXCEPT !.verdict = IF s.pending[1] = target THEN "found" ELSE "absent"]

(* The lists among the items are put to those that wait, until one has no  *)
(* room any more.                                                          *)
Waiting(items, rest) ==
  LET after[i \in 0..Len(items)] ==
        IF i = 0 THEN [lists |-> rest, full |-> FALSE]
        ELSE IF after[i - 1].full \/ ~Is(items[i], "list") THEN after[i - 1]
        ELSE IF Len(after[i - 1].lists) = Reach THEN [lists |-> after[i - 1].lists, full |-> TRUE]
        ELSE [lists |-> Append(after[i - 1].lists, items[i]), full |-> FALSE]
  IN after[Len(items)]

Look(s, target) ==
  LET current == s.pending[Len(s.pending)]
      rest == SubSeq(s.pending, 1, Len(s.pending) - 1)
      waiting == Waiting(heap[current].items, rest)
  IN IF s.verdict # "looking" THEN s
     ELSE IF s.pending = <<>> THEN [s EXCEPT !.verdict = IF s.cut THEN "unchecked" ELSE "absent"]
     ELSE IF current = target THEN [s EXCEPT !.verdict = "found"]
     ELSE IF current \in s.visited THEN [s EXCEPT !.pending = rest]
     ELSE IF Cardinality(s.visited) = Reach THEN [s EXCEPT !.verdict = "unchecked"]
     ELSE [s EXCEPT !.visited = @ \cup {current}, !.cut = @ \/ waiting.full,
                    !.pending = waiting.lists]
Search(value, target) ==
  LET steps[n \in 0..(Reach * Reach + 2)] ==
        IF n = 0 THEN [pending |-> <<value>>, visited |-> {}, cut |-> FALSE, verdict |-> "looking"]
        ELSE Look(steps[n - 1], target)
  IN steps[Reach * Reach + 2].verdict

(* What the check of a value for a list may say: its two work lists may    *)
(* not be had, and only lists are looked into.                             *)
Verdicts(list, value) ==
  IF Is(value, "list") THEN {Search(value, list), "unchecked"} ELSE {"absent"}
Checked(list, value) ==
  \E verdict \in Verdicts(list, value) :
    verdict # "found" /\ gaveUp' = (gaveUp \/ verdict = "unchecked")
-----------------------------------------------------------------------------
(* Lists.                                                                  *)

(* append copies the value; where it moves it (a value that a generator    *)
(* yields into a list), the reference it came with is given back after.    *)
AppendItem ==
  /\ Quiet
  /\ \E list \in HeldOf({"list"}), value \in HeldOf(Kinds), moved \in BOOLEAN :
       LET l == heap[list]
           capacity == IF Len(l.items) = l.capacity THEN NextCapacity(l.capacity) ELSE l.capacity
       IN /\ Len(l.items) < MaxItems
          /\ Checked(list, value)
          /\ bytes' = Reallocated("list", l.capacity, capacity)
          /\ heap' = [Retained(heap, <<value>>) EXCEPT
                        ![list] = Filled(@, Append(@.items, value), capacity)]
          /\ IF moved THEN Lose(value) /\ work' = <<ReleaseOf(value)>> ELSE UNCHANGED <<held, work>>
  /\ UNCHANGED <<live, phase, fault, leaked, tangled>>

(* A bug to detect: the list keeps the value without a reference of its own.*)
SetItemBorrowed ==
  /\ Quiet
  /\ \E list \in HeldOf({"list"}), value \in HeldOf(Kinds) : \E i \in DOMAIN heap[list].items :
       /\ Checked(list, value)
       /\ heap' = [heap EXCEPT ![list] = WithItems(@, [@.items EXCEPT ![i] = value])]
       /\ work' = <<ReleaseOf(heap[list].items[i])>>
  /\ UNCHANGED <<live, held, bytes, phase, fault, leaked, tangled>>
SetItem ==
  /\ Quiet
  /\ \E list \in HeldOf({"list"}), value \in HeldOf(Kinds) : \E i \in DOMAIN heap[list].items :
       /\ Checked(list, value)
       /\ heap' = [Retained(heap, <<value>>) EXCEPT
                     ![list] = WithItems(@, [@.items EXCEPT ![i] = value])]
       /\ work' = <<ReleaseOf(heap[list].items[i])>>
  /\ UNCHANGED <<live, held, bytes, phase, fault, leaked, tangled>>

GetItem ==
  /\ Quiet
  /\ \E a \in HeldOf(Sequential) : \E i \in DOMAIN heap[a].items :
       Gain(heap[a].items[i]) /\ heap' = Retained(heap, <<heap[a].items[i]>>)
  /\ UNCHANGED <<live, work, bytes>> /\ History

Shortened(list) ==
  [heap EXCEPT ![list] = WithItems(@, SubSeq(@.items, 1, Len(@.items) - 1))]
LastOf(list) == heap[list].items[Len(heap[list].items)]

(* The method pop hands over the list's reference, the builtin list_pop    *)
(* retains the item and keeps silent about the list's.                     *)
Pop ==
  /\ Quiet
  /\ \E list \in HeldOf({"list"}) :
       heap[list].items # <<>> /\ Gain(LastOf(list)) /\ heap' = Shortened(list)
  /\ UNCHANGED <<live, work, bytes>> /\ History
ListPop ==
  /\ Quiet
  /\ \E list \in HeldOf({"list"}) :
       /\ heap[list].items # <<>> /\ Gain(LastOf(list))
       /\ SumFunction(leaked) < MaxLeaked /\ leaked' = [leaked EXCEPT ![LastOf(list)] = @ + 1]
       /\ heap' = Retained(Shortened(list), <<LastOf(list)>>)
  /\ UNCHANGED <<live, work, bytes, phase, fault, gaveUp, tangled>>
-----------------------------------------------------------------------------
(* Iterators: one over a list retains it, one over a tuple owns a list     *)
(* that is made of the items.                                              *)

MadeRange(h, r, list) ==
  [Made(h, r, "range", <<list>>, 0) EXCEPT ![r].stop = Len(h[list].items)]
IterateList ==
  /\ Quiet
  /\ \E list \in HeldOf({"list"}), r \in Objects :
       Fresh(r) /\ Gain(r) /\ live' = <<r>> \o live /\ heap' = MadeRange(heap, r, list)
  /\ bytes' = [bytes EXCEPT !["range"] = @ + 1]
  /\ UNCHANGED work /\ History
IterateTuple ==
  /\ Quiet
  /\ \E t \in HeldOf({"tuple"}), list \in Objects :
       LET items == heap[t].items
           copy == Made(heap, list, "list", items, CapacityFor(Len(items)))
       IN /\ Fresh(list) /\ work' = <<ReleaseOf(list)>>
          /\ \/ \E r \in Objects \ {list} :
                  /\ Fresh(r) /\ Gain(r) /\ live' = <<r, list>> \o live /\ heap' = MadeRange(copy, r, list)
                  /\ bytes' = [bytes EXCEPT !["range"] = @ + 1,
                                            !["list"] = @ + 1 + CapacityFor(Len(items))]
             \/ \E n \in 0..Len(items) :
                  /\ CapacityFor(n) = n \/ n = Len(items)
                  /\ heap' = Made(heap, list, "list", SubSeq(items, 1, n), CapacityFor(n))
                  /\ bytes' = [bytes EXCEPT !["list"] = @ + 1 + CapacityFor(n)]
                  /\ live' = <<list>> \o live /\ UNCHANGED held
  /\ History

(* A list that has become shorter makes the step fail, where it stays.     *)
IterateNext ==
  /\ Quiet
  /\ \E r \in HeldOf({"range"}) :
       LET items == heap[heap[r].items[1]].items
           value == items[heap[r].current + 1]
       IN /\ heap[r].current < heap[r].stop /\ heap[r].current < Len(items)
          /\ Gain(value)
          /\ heap' = [Retained(heap, <<value>>) EXCEPT ![r].current = @ + 1]
  /\ UNCHANGED <<live, work, bytes>> /\ History
-----------------------------------------------------------------------------
(* References outside containers, and what giving one back leads to.       *)

Retain ==
  /\ Quiet /\ \E o \in HeldOf(Kinds) : Gain(o) /\ heap' = Retained(heap, <<o>>)
  /\ UNCHANGED <<live, work, bytes>> /\ History
Drop ==
  /\ Quiet /\ \E o \in HeldOf(Kinds) : Lose(o) /\ work' = <<ReleaseOf(o)>>
  /\ UNCHANGED <<heap, live, bytes>> /\ History

Next1(o) == work # <<>> /\ fault = "none" /\ Head(work).object = o

(* The object is looked for from the newest and taken out.                 *)
Unlinked(o) ==
  LET i == CHOOSE i \in DOMAIN live : live[i] = o
  IN SubSeq(live, 1, i - 1) \o SubSeq(live, i + 1, Len(live))

(* An object that is given back for the last time leaves the live objects, *)
(* releases its items in turn, and is freed after that.  While it does, a  *)
(* release that reaches it again finds the count zero and returns.         *)
Release ==
  /\ \E o \in Objects :
       /\ Next1(o) /\ Head(work).do = "release"
       /\ IF Is(o, "freed")
          THEN fault' = "release of a freed object" /\ UNCHANGED <<heap, live, work>>
          ELSE /\ heap' = [heap EXCEPT ![o].count = IF @ = 0 THEN 0 ELSE @ - 1]
               /\ IF heap[o].count = 1
                  THEN /\ live' = Unlinked(o)
                       /\ work' = ReleasesOf(heap[o].items) \o <<FreeOf(o)>> \o Tail(work)
                  ELSE UNCHANGED live /\ work' = Tail(work)
               /\ UNCHANGED fault
  /\ UNCHANGED <<held, bytes, phase, leaked, gaveUp, tangled>>

(* A bug to detect: a list that became shorter gives back too little.      *)
BlockOfItems(o) == IF heap[o].kind \in Sequential THEN Len(heap[o].items) ELSE 0
(* The block of the items goes first, with the size that the object        *)
(* remembers: a list its capacity, a tuple its count of items.             *)
BlockOf(o) ==
  IF Is(o, "list") THEN heap[o].capacity ELSE IF Is(o, "tuple") THEN Len(heap[o].items) ELSE 0
Free ==
  /\ \E o \in Objects :
       /\ Next1(o) /\ Head(work).do = "free"
       /\ heap' = [heap EXCEPT ![o] = Freed]
       /\ bytes' = [bytes EXCEPT ![heap[o].kind] = Minus(Minus(@, BlockOf(o)), 1)]
  /\ work' = Tail(work)
  /\ UNCHANGED <<live, held, phase, fault, leaked, gaveUp, tangled>>
-----------------------------------------------------------------------------
(* Shutdown: frames, the exception, the modules and the globals give their *)
(* references back; what is then left is forced, oldest first.             *)

Within(o, others) == \E i \in DOMAIN heap[o].items : heap[o].items[i] \in others
LiveOf(kinds) == {o \in Objects : heap[o].count > 0 /\ heap[o].kind \in kinds}
Cyclic(kinds) ==
  \E objects \in SUBSET LiveOf(kinds) : objects # {} /\ \A o \in objects : Within(o, objects)

BeginShutdown ==
  /\ Quiet /\ phase' = "clearing"
  /\ tangled' = (Cyclic(Kinds) \/ \E o \in Objects : leaked[o] > 0)
  /\ UNCHANGED <<heap, live, held, work, bytes, fault, leaked, gaveUp>>
Clear ==
  /\ phase = "clearing" /\ work = <<>> /\ fault = "none"
  /\ \E o \in HeldOf(Kinds) : Lose(o) /\ work' = <<ReleaseOf(o)>>
  /\ UNCHANGED <<heap, live, bytes>> /\ History
ForceOldest ==
  /\ phase \in {"clearing", "forcing"} /\ work = <<>> /\ fault = "none"
  /\ HeldOf(Kinds) = {} /\ live # <<>>
  /\ phase' = "forcing"
  /\ heap' = [heap EXCEPT ![live[Len(live)]].count = 1]
  /\ work' = <<ReleaseOf(live[Len(live)])>>
  /\ UNCHANGED <<live, held, bytes, fault, leaked, gaveUp, tangled>>
End ==
  /\ phase \in {"clearing", "forcing"} /\ work = <<>> /\ fault = "none"
  /\ HeldOf(Kinds) = {} /\ live = <<>>
  /\ phase' = "ended"
  /\ UNCHANGED <<heap, live, held, work, bytes, fault, leaked, gaveUp, tangled>>

Init ==
  /\ heap = [o \in Objects |-> Freed] /\ live = <<>> /\ work = <<>>
  /\ held = [o \in Objects |-> 0] /\ leaked = [o \in Objects |-> 0]
  /\ bytes = [kind \in Kinds |-> 0]
  /\ phase = "running" /\ fault = "none" /\ gaveUp = FALSE /\ tangled = FALSE

Next ==
  \/ NewString \/ Build \/ Concat \/ Slice \/ CopySequence
  \/ AppendItem \/ SetItem \/ GetItem \/ Pop \/ ListPop
  \/ IterateList \/ IterateTuple \/ IterateNext
  \/ Retain \/ Drop \/ Release \/ Free
  \/ BeginShutdown \/ Clear \/ ForceOldest \/ End

Spec == Init /\ [][Next]_vars
-----------------------------------------------------------------------------
(* The references to o: those held outside, those that list_pop lost,      *)
(* those that live objects have in their items, and those of the releases  *)
(* that are still to be made.                                              *)
Pairs(sets) == UNION {{o} \X sets[o] : o \in Objects}
InItems(o) ==
  Pairs([p \in Objects |->
           {i \in DOMAIN heap[p].items : heap[p].count > 0 /\ heap[p].items[i] = o}])
References(o) ==
  held[o] + leaked[o] + Cardinality(InItems(o))
          + Occurrences(ReleaseOf(o), work)
(* The bytes of the objects of a kind: a header and a block each.          *)
Allocated(kind) == Pairs([o \in Objects |-> IF Is(o, kind) THEN 0..heap[o].block ELSE {}])
(* Until shutdown forces what is left, the count of every object is the    *)
(* number of references to it, none of them to a freed object, also while  *)
(* a container is being torn down; the live objects are those with a count;*)
(* and the bytes counted under a tag are those allocated under it.         *)
(* (object.c:25-53, 60-75, memory.c:35-111, list.c, tuple.c)               *)
CountsExact ==
  /\ phase \in {"running", "clearing"} /\ fault = "none" =>
       /\ \A o \in Objects : heap[o].count = References(o)
       /\ \A o \in Objects : Is(o, "freed") => References(o) = 0
  /\ {live[i] : i \in DOMAIN live} = {o \in Objects : heap[o].count > 0}
  /\ \A kind \in Kinds : bytes[kind] = Cardinality(Allocated(kind))

(* When shutdown is over no byte is counted any more; objects are left to  *)
(* be forced, and freed ones touched, only where a container cycle or a    *)
(* reference lost by list_pop was there when it began.                     *)
(* (runtime.c:33-77, docs/memory-model.md:3)                               *)
ShutdownClean ==
  /\ phase = "ended" => \A kind \in Kinds : bytes[kind] = 0
  /\ phase = "forcing" \/ fault = "release of a freed object" => tangled

(* No list contains itself, directly or through other lists, unless a check*)
(* that gave up let it in.  (list.c:19-61, 97-111, 140-157)                *)
ListsAcyclic == gaveUp \/ ~Cyclic({"list"})
=============================================================================
