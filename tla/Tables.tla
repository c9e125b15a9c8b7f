------------------------------- MODULE Tables -------------------------------
(***************************************************************************)
(* The hash tables of dict and set objects (dict.c, set.c): open           *)
(* addressing with linear probing, slots that are marked when their entry  *)
(* is removed, and a table twice as large when two thirds would be full.   *)
(* The two differ in the slot they give a new entry: a set uses the first  *)
(* removed slot it passed, a dict goes on to one that was never used.      *)
(*                                                                         *)
(* Keys stand for hashable values up to py68_value_equal, and Hash for     *)
(* py68_value_hash, which agrees with it except between floats and         *)
(* integers.  A set is a table whose entries all have the value NoValue.   *)
(***************************************************************************)
EXTENDS Integers, FiniteSets

CONSTANTS
  Keys,         (* the keys a program uses                                 *)
  Values,       (* the values it stores in a dict                          *)
  NoValue,      (* the value slot of a free or removed entry, and of a set *)
  Hash,         (* py68_value_hash of each key                             *)
  FirstSize,    (* the slots of a table when it is first grown, 8 in C     *)
  MaxSize       (* bound: a larger table cannot be allocated               *)

ASSUME TablesAssumption ==
  /\ NoValue \notin Values
  /\ Hash \in [Keys -> Nat]
  /\ FirstSize \in Nat /\ FirstSize >= 2
  /\ MaxSize \in Nat

VARIABLES
  kind,         (* which of the two tables this is                         *)
  table         (* its size (capacity), slots (entries) and count          *)

vars == <<kind, table>>

Free == [used |-> 0, key |-> NoValue, value |-> NoValue]
Removed == [used |-> 2, key |-> NoValue, value |-> NoValue]
Entry(k, v) == [used |-> 1, key |-> k, value |-> v]

Empty(size) == [s \in 0..size - 1 |-> Free]

Init ==
  /\ kind \in {"dict", "set"}
  /\ table = [size |-> 0, slots |-> Empty(0), count |-> 0]

-----------------------------------------------------------------------------
(* Probing.  A probe for k visits the slots at distances 0, 1, ... from    *)
(* the one its hash selects, and wraps at the end of the table.            *)

Least(S) == CHOOSE d \in S : \A e \in S : d <= e

Probe(size, k, d) == (Hash[k] + d) % size
Distances(t) == 0..t.size - 1
At(t, k, d) == t.slots[Probe(t.size, k, d)]
Holds(entry, k) == entry.used = 1 /\ entry.key = k

(* A bug to detect: a removed slot ends a probe.                           *)
StopsAtRemoved(t, k) ==
  {d \in Distances(t) : At(t, k, d).used # 1 \/ Holds(At(t, k, d), k)}

(* Where a probe stops: at the key itself or at a slot that was never used.*)
Stops(t, k) == {d \in Distances(t) : At(t, k, d).used = 0 \/ Holds(At(t, k, d), k)}

Found(t, k) == Stops(t, k) # {} /\ Holds(At(t, k, Least(Stops(t, k))), k)

(* py68_dict_lookup reports where the probe stopped, which is where it     *)
(* started if it came round without stopping.                              *)
DictSlot(t, k) ==
  Probe(t.size, k, IF Stops(t, k) = {} THEN 0 ELSE Least(Stops(t, k)))

Passed(t, k) ==
  {d \in Distances(t) : At(t, k, d).used = 2 /\ \A e \in Stops(t, k) : d < e}

(* py68_set_lookup prefers the first removed slot, unless it finds k.      *)
SetSlot(t, k) ==
  IF Found(t, k) \/ Passed(t, k) = {} THEN DictSlot(t, k)
  ELSE Probe(t.size, k, Least(Passed(t, k)))

-----------------------------------------------------------------------------
(* Growing.                                                                *)

Place(slots, size, entry) ==
  LET d == Least({e \in 0..size - 1 : slots[Probe(size, entry.key, e)].used # 1})
  IN [slots EXCEPT ![Probe(size, entry.key, d)] = entry]

(* A bug to detect: the entries keep their places in the larger table.     *)
RehashInPlace(t, size) ==
  [s \in 0..size - 1 |-> IF s < t.size THEN t.slots[s] ELSE Free]

(* The live entries are placed anew, in the order of the old slots.        *)
Rehash(t, size) ==
  LET placed[n \in 0..t.size] ==
        IF n = 0 THEN Empty(size)
        ELSE IF t.slots[n - 1].used = 1 THEN Place(placed[n - 1], size, t.slots[n - 1])
        ELSE placed[n - 1]
  IN placed[t.size]

(* A bug to detect: the table is grown one entry too late.                 *)
CrowdedLate(t) == t.size = 0 \/ t.count >= t.size
Crowded(t) == t.size = 0 \/ (t.count + 1) * 3 > t.size * 2

NewSize(t) == IF t.size = 0 THEN FirstSize ELSE 2 * t.size

(* py68_dict_grow, py68_set_grow.                                          *)
Grown(t) == [size |-> NewSize(t), slots |-> Rehash(t, NewSize(t)), count |-> t.count]

-----------------------------------------------------------------------------
(* Operations.                                                             *)

(* A bug to detect: the value of a key that is there counts as a new one.  *)
StoredCounted(t, s, k, v) ==
  [t EXCEPT !.slots[IF Found(t, k) THEN DictSlot(t, k) ELSE s] = Entry(k, v),
            !.count = @ + 1]

(* A key that is found keeps its slot and gets the new value, any other    *)
(* key takes slot s.                                                       *)
Stored(t, s, k, v) ==
  IF Found(t, k)
  THEN [t EXCEPT !.slots[DictSlot(t, k)].value = v]
  ELSE [t EXCEPT !.slots[s] = Entry(k, v), !.count = @ + 1]

(* The table that py68_dict_set_copy and py68_set_add store into: grown    *)
(* first if it is crowded, even when the key is there already.  When no    *)
(* larger table can be allocated the operation fails and changes nothing.  *)
Ready(t) == ~Crowded(t) \/ NewSize(t) <= MaxSize
Roomy(t) == IF Crowded(t) THEN Grown(t) ELSE t

SetCopy(k, v) ==
  /\ kind = "dict" /\ Ready(table)
  /\ table' = LET t == Roomy(table) IN Stored(t, DictSlot(t, k), k, v)
  /\ UNCHANGED kind

Add(k) ==
  /\ kind = "set" /\ Ready(table)
  /\ table' = LET t == Roomy(table) IN Stored(t, SetSlot(t, k), k, NoValue)
  /\ UNCHANGED kind

(* A bug to detect: a removed entry leaves a slot that ends every probe.   *)
PopFree(k) ==
  /\ Found(table, k)
  /\ table' = [table EXCEPT !.slots[DictSlot(table, k)] = Free, !.count = @ - 1]
  /\ UNCHANGED kind

(* A bug to detect: the slot where the probe ended is removed, found or not.*)
PopUnchecked(k) ==
  /\ table.size > 0
  /\ table' = [table EXCEPT !.slots[DictSlot(table, k)] = Removed, !.count = @ - 1]
  /\ UNCHANGED kind

(* py68_dict_pop, py68_set_remove.                                         *)
Pop(k) ==
  /\ Found(table, k)
  /\ table' = [table EXCEPT !.slots[DictSlot(table, k)] = Removed, !.count = @ - 1]
  /\ UNCHANGED kind

Next == \E k \in Keys : Add(k) \/ Pop(k) \/ \E v \in Values : SetCopy(k, v)

Spec == Init /\ [][Next]_vars

-----------------------------------------------------------------------------
(* Properties.                                                             *)

Slots(t) == 0..t.size - 1
LiveSlots(t) == {s \in Slots(t) : t.slots[s].used = 1}

TypeOK ==
  /\ kind \in {"dict", "set"}
  /\ table.size \in Nat /\ table.count \in Nat
  /\ table.slots \in [Slots(table) ->
       {Free, Removed} \cup {Entry(k, v) : k \in Keys, v \in Values \cup {NoValue}}]

(* Every entry of the table is found by its key: no removed slot, and no   *)
(* move to a larger table, cuts the way a probe takes to it.               *)
EntriesFound ==
  \A s \in LiveSlots(table) :
    /\ Found(table, table.slots[s].key)
    /\ DictSlot(table, table.slots[s].key) = s

(* The count, by which the program sees the length and by which the table  *)
(* grows, is exact in a set and never too small in a dict.                 *)
CountCovers ==
  /\ Cardinality(LiveSlots(table)) <= table.count
  /\ kind = "set" => Cardinality(LiveSlots(table)) = table.count

(* A table never fills up with entries, so that probes stay short.         *)
NeverFull == table.size > 0 => 3 * table.count <= 2 * table.size

(* The map that a table stands for.                                        *)
Content(t) ==
  [k \in {t.slots[s].key : s \in LiveSlots(t)} |->
     t.slots[CHOOSE s \in LiveSlots(t) : t.slots[s].key = k].value]

M == INSTANCE Mapping WITH Values <- Values \cup {NoValue}, map <- Content(table)

(* A slot that was never used is left in the table.                        *)
Unused(t) == t.size = 0 \/ \E s \in Slots(t) : t.slots[s].used = 0

Refines ==
  \A k \in Keys : /\ Pop(k) => M!Pop(k)
                  /\ Add(k) => M!Set(k, NoValue)
                  /\ \A v \in Values : SetCopy(k, v) => M!Set(k, v)

(* A set is always the set of the elements added and not removed, however  *)
(* often elements come and go; a dict is the map of its keys as long as a  *)
(* slot that was never used is left in it.                                 *)
ActsAsMap == M!Init /\ [][kind = "set" \/ Unused(table) => Refines]_vars

(* A dict is always the map of its keys: "dict" among the types of         *)
(* docs/language-reference.md, without a bound on how often keys change.   *)
DictActsAsMap == M!Init /\ [][kind = "dict" => Refines]_vars
=============================================================================
