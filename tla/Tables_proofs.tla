---------------------------- MODULE Tables_proofs ----------------------------
(***************************************************************************)
(* Proofs of the properties of Tables, for every set of keys and values,   *)
(* every hash function and tables of every size, and of its refinement of  *)
(* Mapping.                                                                *)
(*                                                                         *)
(* The invariant says of an entry that the probe for its key passes no     *)
(* slot that was never used before it comes to the entry, and of two       *)
(* entries that their keys differ: together they make a probe stop at the  *)
(* entry itself, and each of them is preserved by every operation alone.   *)
(***************************************************************************)
EXTENDS Tables, Iteration, FiniteSetTheorems, TLAPS

Cells == {Free, Removed} \cup {Entry(k, v) : k \in Keys, v \in Values \cup {NoValue}}

Formed(t) == t \in [size : Nat, slots : [Slots(t) -> Cells], count : Nat]

(* The slots at distances less than d of a probe for k were all used.      *)
Trodden(t, k, d) == \A e \in Distances(t) : e < d => At(t, k, e).used # 0

Reached(t, s) ==
  \E d \in Distances(t) : /\ Probe(t.size, t.slots[s].key, d) = s
                          /\ Trodden(t, t.slots[s].key, d)

Unique(t) == \A r, s \in LiveSlots(t) : t.slots[r].key = t.slots[s].key => r = s

Sound(t) == Formed(t) /\ (\A s \in LiveSlots(t) : Reached(t, s)) /\ Unique(t)

Counted(kd, t) ==
  /\ Cardinality(LiveSlots(t)) <= t.count
  /\ kd = "set" => Cardinality(LiveSlots(t)) = t.count

Sized(t) == IF t.size = 0 THEN t.count = 0 ELSE t.size >= 2 /\ 3 * t.count <= 2 * t.size

IInv ==
  /\ kind \in {"dict", "set"}
  /\ Sound(table)
  /\ Counted(kind, table)
  /\ Sized(table)

-----------------------------------------------------------------------------
(* Lemmas about numbers.                                                   *)

(* A set of natural numbers has a least element, which is what Least is.   *)
LEMMA LeastIs ==
  ASSUME NEW S \in SUBSET Nat, S # {}
  PROVE  Least(S) \in S /\ \A e \in S : Least(S) <= e
<1>1. \E x \in S : \A y \in S : x <= y
  BY LeastExists
<1>. QED
  BY <1>1 DEF Least

(* The numbers below n.                                                    *)
LEMMA Below ==
  ASSUME NEW n \in Nat
  PROVE  IsFiniteSet(0..(n - 1)) /\ Cardinality(0..(n - 1)) = n
<1>1. 0 \in Int /\ n - 1 \in Int /\ (0 > n - 1 <=> n = 0) /\ (n - 1) - 0 + 1 = n
  OBVIOUS
<1>. QED
  BY <1>1, FS_Interval

(* The only remainder of a number.                                         *)
LEMMA Remainder ==
  ASSUME NEW n \in Nat, n > 0, NEW q \in Nat, NEW s \in 0..(n - 1)
  PROVE  (n * q + s) % n = s
<1>. DEFINE a == n * q + s
            p == a \div n
            r == a % n
<1>1. a \in Nat /\ p \in Int /\ r \in 0..(n - 1) /\ a = n * p + r
  <2>1. a \in Nat
    BY SMTT(30)
  <2>. HIDE DEF a
  <2>. QED
    BY <2>1, SMTT(30)
<1>2. n * q + s = n * p + r
  BY <1>1
<1>. HIDE DEF p, r
<1>3. n * (q - p) = r - s
  BY <1>1, <1>2, SMTT(30)
<1>4. r - s < n /\ r - s > 0 - n
  BY <1>1
<1>5. q - p < 1
  <2>. SUFFICES ASSUME q - p >= 1  PROVE FALSE
    BY <1>1
  <2>1. n * (q - p) >= n
    BY <1>1, SMTT(30)
  <2>. QED
    BY <1>1, <1>3, <1>4, <2>1
<1>6. q - p > 0 - 1
  <2>. SUFFICES ASSUME q - p <= 0 - 1  PROVE FALSE
    BY <1>1
  <2>1. n * (q - p) <= 0 - n
    BY <1>1, SMTT(30)
  <2>. QED
    BY <1>1, <1>3, <1>4, <2>1
<1>7. q = p
  BY <1>1, <1>5, <1>6
<1>8. r = s
  BY <1>1, <1>2, <1>7, SMTT(30)
<1>. QED
  BY <1>8 DEF r

(* A probe stays in the table, and comes to every slot of it.              *)
LEMMA ProbeIn ==
  ASSUME NEW size \in Nat, size > 0, NEW k \in Keys, NEW d \in Nat
  PROVE  Probe(size, k, d) \in 0..(size - 1)
<1>1. Hash[k] + d \in Nat
  BY TablesAssumption
<1>. DEFINE x == Hash[k] + d
<1>. HIDE DEF x
<1>2. x \in Nat
  BY <1>1 DEF x
<1>3. x % size \in 0..(size - 1)
  BY <1>2
<1>. QED
  BY <1>3 DEF Probe, x

LEMMA ProbeOnto ==
  ASSUME NEW size \in Nat, size > 0, NEW k \in Keys, NEW s \in 0..(size - 1)
  PROVE  \E d \in 0..(size - 1) : Probe(size, k, d) = s
<1>. DEFINE h == Hash[k]
            q == h \div size
            r == h % size
<1>1. h \in Nat
  BY TablesAssumption
<1>. HIDE DEF h
<1>2. q \in Nat /\ r \in 0..(size - 1) /\ h = size * q + r
  BY <1>1, SMTT(30)
<1>. HIDE DEF q, r
<1>3. CASE s >= r
  <2>1. s - r \in 0..(size - 1) /\ h + (s - r) = size * q + s
    BY <1>2, <1>3, SMTT(30)
  <2>2. Probe(size, k, s - r) = s
    BY <1>2, <2>1, Remainder DEF Probe, h
  <2>. QED
    BY <2>1, <2>2
<1>4. CASE s < r
  <2>1. s - r + size \in 0..(size - 1) /\ h + (s - r + size) = size * (q + 1) + s
    BY <1>2, <1>4, SMTT(30)
  <2>2. (size * (q + 1) + s) % size = s
    BY <1>2, Remainder
  <2>3. Probe(size, k, s - r + size) = s
    BY <2>1, <2>2 DEF Probe, h
  <2>. QED
    BY <2>1, <2>3
<1>. QED
  BY <1>2, <1>3, <1>4

-----------------------------------------------------------------------------
(* Lemmas about tables and probes.                                         *)

(* What the shape of a table says of its slots.                            *)
LEMMA FormedFacts ==
  ASSUME NEW t, Formed(t)
  PROVE  /\ t.size \in Nat /\ t.count \in Nat /\ t.slots \in [Slots(t) -> Cells]
         /\ Slots(t) = 0..(t.size - 1) /\ Distances(t) = 0..(t.size - 1)
         /\ \A s \in Slots(t) : /\ s \in Nat
                                /\ t.slots[s] \in Cells /\ t.slots[s].used \in {0, 1, 2}
                                /\ t.slots[s].value \in Values \cup {NoValue}
                                /\ t.slots[s].used = 1 => t.slots[s].key \in Keys
         /\ LiveSlots(t) \subseteq Slots(t)
         /\ \A s \in LiveSlots(t) : t.slots[s].key \in Keys /\ t.slots[s].used = 1
<1>1. /\ t.size \in Nat /\ t.count \in Nat /\ t.slots \in [Slots(t) -> Cells]
  BY DEF Formed
<1>2. \A c \in Cells : /\ c.used \in {0, 1, 2}
                       /\ c.value \in Values \cup {NoValue}
                       /\ c.used = 1 => c.key \in Keys
  BY DEF Cells, Free, Removed, Entry
<1>3. Slots(t) = 0..(t.size - 1) /\ Distances(t) = 0..(t.size - 1)
  BY DEF Slots, Distances
<1>4. \A s \in Slots(t) : s \in Nat /\ t.slots[s] \in Cells
  BY <1>1, <1>3
<1>5. LiveSlots(t) \subseteq Slots(t) /\ \A s \in LiveSlots(t) : t.slots[s].used = 1
  BY DEF LiveSlots
<1>. QED
  BY <1>1, <1>2, <1>3, <1>4, <1>5

(* A probe looks at slots of the table.                                    *)
LEMMA AtIs ==
  ASSUME NEW t, Formed(t), NEW k \in Keys, NEW d \in Distances(t)
  PROVE  /\ Probe(t.size, k, d) \in Slots(t)
         /\ At(t, k, d) = t.slots[Probe(t.size, k, d)]
         /\ At(t, k, d) \in Cells /\ At(t, k, d).used \in {0, 1, 2}
<1>1. /\ t.size \in Nat /\ Slots(t) = 0..(t.size - 1) /\ Distances(t) = 0..(t.size - 1)
      /\ \A s \in Slots(t) : t.slots[s] \in Cells /\ t.slots[s].used \in {0, 1, 2}
  BY FormedFacts
<1>2. d \in Nat /\ t.size > 0
  BY <1>1
<1>3. Probe(t.size, k, d) \in Slots(t)
  BY <1>1, <1>2, ProbeIn
<1>. QED
  BY <1>1, <1>3 DEF At

(* Where a probe stops, and what it passes before that.                    *)
LEMMA StopsIs ==
  ASSUME NEW t, Formed(t), NEW k \in Keys, Stops(t, k) # {},
         NEW d, d = Least(Stops(t, k))
  PROVE  /\ d \in Distances(t) /\ d \in Stops(t, k) /\ Trodden(t, k, d)
         /\ \A e \in Stops(t, k) : d <= e
<1>1. Stops(t, k) \subseteq Distances(t) /\ Stops(t, k) \in SUBSET Nat
  BY FormedFacts DEF Stops
<1>2. d \in Stops(t, k) /\ \A e \in Stops(t, k) : d <= e
  BY <1>1, LeastIs
<1>3. ASSUME NEW e \in Distances(t), e < d  PROVE At(t, k, e).used # 0
  <2>1. e \in Nat /\ d \in Nat
    BY <1>1, <1>2, FormedFacts
  <2>2. e \notin Stops(t, k)
    BY <1>2, <1>3, <2>1
  <2>. QED
    BY <2>2 DEF Stops
<1>. QED
  BY <1>1, <1>2, <1>3 DEF Trodden

(* A key is found exactly when there is an entry of it, and where it is.   *)
LEMMA FoundIs ==
  ASSUME NEW t, Sound(t), NEW k \in Keys
  PROVE  /\ \A s \in LiveSlots(t) : t.slots[s].key = k => Found(t, k) /\ DictSlot(t, k) = s
         /\ Found(t, k) => /\ DictSlot(t, k) \in LiveSlots(t)
                          /\ t.slots[DictSlot(t, k)].key = k
<1>. DEFINE m == Least(Stops(t, k))
<1>. USE DEF Sound
<1>1. ASSUME Stops(t, k) # {}
      PROVE  /\ m \in Distances(t) /\ m \in Stops(t, k) /\ Trodden(t, k, m)
             /\ \A e \in Stops(t, k) : m <= e
             /\ Probe(t.size, k, m) \in Slots(t) /\ At(t, k, m) = t.slots[Probe(t.size, k, m)]
             /\ DictSlot(t, k) = Probe(t.size, k, m)
  <2>1. /\ m \in Distances(t) /\ m \in Stops(t, k) /\ Trodden(t, k, m)
        /\ \A e \in Stops(t, k) : m <= e
    BY <1>1, StopsIs
  <2>. HIDE DEF m
  <2>2. Probe(t.size, k, m) \in Slots(t) /\ At(t, k, m) = t.slots[Probe(t.size, k, m)]
    BY <2>1, AtIs
  <2>3. DictSlot(t, k) = Probe(t.size, k, m)
    BY <1>1 DEF DictSlot, m
  <2>. QED
    BY <2>1, <2>2, <2>3
<1>2. ASSUME NEW s \in LiveSlots(t), t.slots[s].key = k
      PROVE  Found(t, k) /\ DictSlot(t, k) = s
  <2>1. PICK d \in Distances(t) : Probe(t.size, k, d) = s /\ Trodden(t, k, d)
    BY <1>2 DEF Reached
  <2>2. At(t, k, d) = t.slots[s] /\ t.slots[s].used = 1
    BY <2>1, AtIs DEF LiveSlots
  <2>3. d \in Stops(t, k)
    BY <1>2, <2>2 DEF Stops, Holds
  <2>4. /\ m \in Distances(t) /\ m \in Stops(t, k) /\ m <= d
        /\ Probe(t.size, k, m) \in Slots(t) /\ At(t, k, m) = t.slots[Probe(t.size, k, m)]
        /\ DictSlot(t, k) = Probe(t.size, k, m)
    BY <1>1, <2>3
  <2>. HIDE DEF m
  <2>5. m \in Nat /\ d \in Nat
    BY <2>4, FormedFacts
  <2>6. At(t, k, m).used # 0
    BY <2>1, <2>2, <2>4, <2>5 DEF Trodden
  <2>7. Holds(At(t, k, m), k)
    BY <2>4, <2>6 DEF Stops
  <2>8. Probe(t.size, k, m) \in LiveSlots(t) /\ t.slots[Probe(t.size, k, m)].key = k
    BY <2>4, <2>7 DEF LiveSlots, Holds
  <2>9. Probe(t.size, k, m) = s
    BY <1>2, <2>8 DEF Unique
  <2>. QED
    BY <2>3, <2>4, <2>7, <2>9 DEF Found, m
<1>3. ASSUME Found(t, k)
      PROVE  DictSlot(t, k) \in LiveSlots(t) /\ t.slots[DictSlot(t, k)].key = k
  <2>1. Stops(t, k) # {} /\ Holds(At(t, k, m), k)
    BY <1>3 DEF Found
  <2>. QED
    BY <1>1, <2>1 DEF Holds, LiveSlots
<1>. QED
  BY <1>2, <1>3

(* The live slots of a table are finitely many.                            *)
LEMMA LiveFinite ==
  ASSUME NEW t, Formed(t)
  PROVE  /\ IsFiniteSet(LiveSlots(t)) /\ Cardinality(LiveSlots(t)) \in Nat
         /\ Cardinality(LiveSlots(t)) <= t.size
         /\ Cardinality(LiveSlots(t)) = t.size => LiveSlots(t) = Slots(t)
<1>1. t.size \in Nat /\ Slots(t) = 0..(t.size - 1) /\ LiveSlots(t) \subseteq Slots(t)
  BY FormedFacts
<1>2. IsFiniteSet(Slots(t)) /\ Cardinality(Slots(t)) = t.size
  BY <1>1, FS_Interval
<1>. QED
  BY <1>1, <1>2, FS_Subset, FS_CardinalityType

-----------------------------------------------------------------------------
(* Lemmas about the changes an operation makes to a table.                 *)

(* A slot that the probe for k comes to without stopping before.           *)
Fit(t, k, s) == \E d \in Distances(t) : Probe(t.size, k, d) = s /\ Trodden(t, k, d)

(* Only slot s differs in u, and it was used.                              *)
Covers(t, u, s) ==
  /\ u.size = t.size /\ u.slots[s].used # 0
  /\ \A r \in Slots(t) : r # s => u.slots[r] = t.slots[r]

(* Then no entry is lost.                                                  *)
LEMMA StillReached ==
  ASSUME NEW t, Formed(t), NEW u, NEW s, Covers(t, u, s),
         NEW k \in Keys, NEW r, Fit(t, k, r)
  PROVE  Fit(u, k, r)
<1>1. PICK d \in Distances(t) : Probe(t.size, k, d) = r /\ Trodden(t, k, d)
  BY DEF Fit
<1>2. Distances(u) = Distances(t)
  BY DEF Distances, Covers
<1>3. ASSUME NEW e \in Distances(u), e < d  PROVE At(u, k, e).used # 0
  <2>1. At(t, k, e).used # 0
    BY <1>1, <1>2, <1>3 DEF Trodden
  <2>2. /\ Probe(t.size, k, e) \in Slots(t)
        /\ At(t, k, e) = t.slots[Probe(t.size, k, e)]
        /\ At(u, k, e) = u.slots[Probe(t.size, k, e)]
    BY <1>2, AtIs DEF At, Covers
  <2>. QED
    BY <2>1, <2>2 DEF Covers
<1>. QED
  BY <1>1, <1>2, <1>3 DEF Fit, Trodden, Covers

Absent(t, k) == \A r \in LiveSlots(t) : t.slots[r].key # k

(* Slot s of u has the entry e, and any other slot what it has in t.       *)
Differs(t, u, s, e) ==
  /\ Slots(u) = Slots(t) /\ s \in Slots(t)
  /\ u.slots[s] = e /\ \A r \in Slots(t) : r # s => u.slots[r] = t.slots[r]

(* A new entry, of a key that is not there.                                *)
LEMMA Inserted ==
  ASSUME NEW t, Sound(t), NEW k \in Keys, Absent(t, k),
         NEW v \in Values \cup {NoValue}, NEW s, Fit(t, k, s),
         NEW u, Formed(u), u.size = t.size, u.slots = [t.slots EXCEPT ![s] = Entry(k, v)]
  PROVE  /\ Sound(u) /\ LiveSlots(u) = LiveSlots(t) \cup {s}
         /\ Differs(t, u, s, Entry(k, v))
<1>. USE DEF Sound, Absent
<1>1. s \in Slots(t)
  BY AtIs DEF Fit
<1>2. u.slots[s] = Entry(k, v) /\ \A r \in Slots(t) : r # s => u.slots[r] = t.slots[r]
  BY <1>1, FormedFacts
<1>3. Entry(k, v).used = 1 /\ Entry(k, v).key = k
  BY DEF Entry
<1>4. Slots(u) = Slots(t)
  BY DEF Slots
<1>5. LiveSlots(u) = LiveSlots(t) \cup {s}
  BY <1>1, <1>2, <1>3, <1>4 DEF LiveSlots
<1>6. Covers(t, u, s)
  BY <1>2, <1>3 DEF Covers
<1>7. ASSUME NEW r \in LiveSlots(u)  PROVE Reached(u, r)
  <2>1. CASE r = s
    <3>1. Fit(u, k, s)
      BY <1>6, StillReached
    <3>. QED
      BY <1>2, <1>3, <2>1, <3>1 DEF Reached, Fit
  <2>2. CASE r # s
    <3>1. r \in LiveSlots(t) /\ u.slots[r] = t.slots[r] /\ t.slots[r].key \in Keys
      BY <1>2, <1>5, <2>2, FormedFacts
    <3>2. Fit(t, t.slots[r].key, r)
      BY <3>1 DEF Reached, Fit
    <3>3. Fit(u, t.slots[r].key, r)
      BY <1>6, <3>1, <3>2, StillReached
    <3>. QED
      BY <3>1, <3>3 DEF Reached, Fit
  <2>. QED
    BY <2>1, <2>2
<1>8. Unique(u)
  <2>1. \A r \in LiveSlots(t) : r # s => u.slots[r].key # k /\ u.slots[r] = t.slots[r]
    BY <1>2, FormedFacts
  <2>. QED
    BY <1>2, <1>3, <1>5, <2>1 DEF Unique
<1>. QED
  BY <1>1, <1>2, <1>4, <1>5, <1>7, <1>8 DEF Differs

(* Another value in an entry that is there.                                *)
LEMMA Updated ==
  ASSUME NEW t, Sound(t), NEW v \in Values \cup {NoValue}, NEW s \in LiveSlots(t),
         NEW u, Formed(u), u.size = t.size, u.slots = [t.slots EXCEPT ![s].value = v]
  PROVE  /\ Sound(u) /\ LiveSlots(u) = LiveSlots(t)
         /\ Differs(t, u, s, Entry(t.slots[s].key, v))
<1>. USE DEF Sound
<1>1. /\ s \in Slots(t) /\ t.slots[s] \in Cells /\ t.slots[s].used = 1
      /\ t.slots[s].key \in Keys
  BY FormedFacts
<1>2. t.slots[s] = Entry(t.slots[s].key, t.slots[s].value)
  BY <1>1 DEF Cells, Free, Removed, Entry
<1>3. [t.slots[s] EXCEPT !.value = v] = Entry(t.slots[s].key, v)
  BY <1>2 DEF Entry
<1>4. u.slots[s] = Entry(t.slots[s].key, v) /\ \A r \in Slots(t) : r # s => u.slots[r] = t.slots[r]
  BY <1>1, <1>3, FormedFacts
<1>5. Entry(t.slots[s].key, v).used = 1 /\ Entry(t.slots[s].key, v).key = t.slots[s].key
  BY DEF Entry
<1>6. Slots(u) = Slots(t)
  BY DEF Slots
<1>7. LiveSlots(u) = LiveSlots(t)
  BY <1>1, <1>4, <1>5, <1>6 DEF LiveSlots
<1>8. \A r \in LiveSlots(u) : r \in Slots(t) /\ u.slots[r].key = t.slots[r].key
  BY <1>4, <1>5, <1>7, FormedFacts
<1>9. Covers(t, u, s)
  <2>1. u.slots[s].used = 1
    BY <1>4, <1>5
  <2>. QED
    BY <1>4, <2>1 DEF Covers
<1>10. ASSUME NEW r \in LiveSlots(u)  PROVE Reached(u, r)
  <2>1. t.slots[r].key \in Keys
    BY <1>7, FormedFacts
  <2>2. Fit(t, t.slots[r].key, r)
    BY <1>7 DEF Reached, Fit
  <2>3. Fit(u, t.slots[r].key, r)
    BY <1>9, <2>1, <2>2, StillReached
  <2>. QED
    BY <1>8, <2>3 DEF Reached, Fit
<1>11. Unique(u)
  BY <1>7, <1>8 DEF Unique
<1>. QED
  BY <1>1, <1>4, <1>6, <1>7, <1>10, <1>11 DEF Differs

(* An entry that is removed.                                               *)
LEMMA Taken ==
  ASSUME NEW t, Sound(t), NEW s \in LiveSlots(t),
         NEW u, Formed(u), u.size = t.size, u.slots = [t.slots EXCEPT ![s] = Removed]
  PROVE  /\ Sound(u) /\ LiveSlots(u) = LiveSlots(t) \ {s}
         /\ Differs(t, u, s, Removed)
<1>. USE DEF Sound
<1>1. s \in Slots(t) /\ Removed.used = 2
  BY FormedFacts DEF Removed
<1>2. u.slots[s] = Removed /\ \A r \in Slots(t) : r # s => u.slots[r] = t.slots[r]
  BY <1>1, FormedFacts
<1>3. Slots(u) = Slots(t)
  BY DEF Slots
<1>4. LiveSlots(u) = LiveSlots(t) \ {s}
  BY <1>1, <1>2, <1>3 DEF LiveSlots
<1>5. \A r \in LiveSlots(u) : u.slots[r] = t.slots[r]
  BY <1>2, <1>4, FormedFacts
<1>6. Covers(t, u, s)
  BY <1>1, <1>2 DEF Covers
<1>7. ASSUME NEW r \in LiveSlots(u)  PROVE Reached(u, r)
  <2>1. t.slots[r].key \in Keys /\ r \in LiveSlots(t)
    BY <1>4, FormedFacts
  <2>2. Fit(t, t.slots[r].key, r)
    BY <2>1 DEF Reached, Fit
  <2>3. Fit(u, t.slots[r].key, r)
    BY <1>6, <2>1, <2>2, StillReached
  <2>. QED
    BY <1>5, <2>3 DEF Reached, Fit
<1>8. Unique(u)
  BY <1>4, <1>5 DEF Unique
<1>. QED
  BY <1>1, <1>2, <1>3, <1>4, <1>7, <1>8 DEF Differs

-----------------------------------------------------------------------------
(* Lemmas about growing.                                                   *)

(* The equation of the function that Rehash defines, and a function of     *)
(* which it holds up to m.                                                 *)
Filled(t, size, g, n) ==
  IF n = 0 THEN Empty(size)
  ELSE IF t.slots[n - 1].used = 1 THEN Place(g[n - 1], size, t.slots[n - 1])
  ELSE g[n - 1]
Filling(t, size, g, m) == g = [n \in 0..m |-> Filled(t, size, g, n)]

LEMMA FillingExists ==
  ASSUME NEW t, NEW size, NEW m \in Nat
  PROVE  \E g : Filling(t, size, g, m)
<1>. DEFINE S == {n \in Nat : \E g : Filling(t, size, g, n)}
<1>1. 0 \in S
  <2>. DEFINE g == [n \in 0..0 |-> Empty(size)]
  <2>1. \A n \in 0..0 : Filled(t, size, g, n) = Empty(size)
    BY DEF Filled
  <2>2. Filling(t, size, g, 0)
    BY <2>1 DEF Filling
  <2>. QED
    BY <2>2
<1>2. ASSUME NEW n \in S  PROVE n + 1 \in S
  <2>1. PICK g : Filling(t, size, g, n)
    OBVIOUS
  <2>. DEFINE h == [i \in 0..(n + 1) |-> IF i <= n THEN g[i] ELSE Filled(t, size, g, i)]
  <2>2. ASSUME NEW i \in 0..(n + 1)  PROVE h[i] = Filled(t, size, h, i)
    <3>1. i # 0 => h[i - 1] = g[i - 1]
      OBVIOUS
    <3>2. Filled(t, size, h, i) = Filled(t, size, g, i)
      <4>. HIDE DEF h
      <4>. QED
        BY <3>1 DEF Filled
    <3>3. i <= n => g[i] = Filled(t, size, g, i)
      <4>. HIDE DEF S
      <4>1. n \in Nat
        BY DEF S
      <4>2. \A j \in 0..n : g[j] = Filled(t, size, g, j)
        BY <2>1 DEF Filling
      <4>. QED
        BY <4>1, <4>2
    <3>. QED
      BY <3>2, <3>3
  <2>3. h = [i \in 0..(n + 1) |-> h[i]]
    OBVIOUS
  <2>4. Filling(t, size, h, n + 1)
    <3>. HIDE DEF h
    <3>. QED
      BY <2>2, <2>3 DEF Filling
  <2>. QED
    BY <2>4
<1>. HIDE DEF S
<1>3. S \in SUBSET Nat
  BY DEF S
<1>4. S = Nat
  BY <1>1, <1>2, <1>3, Induction
<1>. QED
  BY <1>4 DEF S

LEMMA RehashIs ==
  ASSUME NEW t, Formed(t), NEW size
  PROVE  \E g : /\ Rehash(t, size) = g[t.size]
                /\ \A n \in 0..t.size : g[n] = Filled(t, size, g, n)
<1>. DEFINE g == CHOOSE f : Filling(t, size, f, t.size)
<1>1. t.size \in Nat
  BY FormedFacts
<1>2. Filling(t, size, g, t.size)
  BY <1>1, FillingExists
<1>3. Rehash(t, size) = g[t.size]
  BY DEF Rehash, Filling, Filled
<1>. HIDE DEF g
<1>4. \A n \in 0..t.size : g[n] = Filled(t, size, g, n)
  BY <1>2 DEF Filling
<1>. QED
  BY <1>3, <1>4

(* u has the entries of the first n slots of t, and no others.             *)
Before(t, n) == {j \in LiveSlots(t) : j < n}
Moved(t, u, n) ==
  /\ Sound(u)
  /\ \A s \in Slots(u) : u.slots[s].used # 2
  /\ \A s \in LiveSlots(u) : \E j \in Before(t, n) : u.slots[s] = t.slots[j]
  /\ \A j \in Before(t, n) : \E s \in LiveSlots(u) : u.slots[s] = t.slots[j]
  /\ Cardinality(LiveSlots(u)) = Cardinality(Before(t, n))

New(size, slots) == [size |-> size, slots |-> slots, count |-> 0]

LEMMA NothingMoved ==
  ASSUME NEW t, NEW size \in Nat, Formed(t)
  PROVE  Moved(t, New(size, Empty(size)), 0)
<1>. DEFINE u == New(size, Empty(size))
<1>1. u.size = size /\ u.slots = Empty(size) /\ u.count = 0 /\ Slots(u) = 0..(size - 1)
  BY DEF New, Slots
<1>2. Free \in Cells /\ Free.used = 0
  BY DEF Cells, Free
<1>3. Empty(size) \in [Slots(u) -> Cells] /\ \A s \in Slots(u) : Empty(size)[s] = Free
  BY <1>1, <1>2 DEF Empty
<1>4. Formed(u)
  BY <1>1, <1>3 DEF Formed, New
<1>5. LiveSlots(u) = {}
  BY <1>1, <1>2, <1>3 DEF LiveSlots
<1>6. Before(t, 0) = {}
  BY FormedFacts DEF Before
<1>. HIDE DEF u
<1>7. \A s \in Slots(u) : u.slots[s].used # 2
  BY <1>1, <1>2, <1>3
<1>8. Moved(t, u, 0)
  BY <1>4, <1>5, <1>6, <1>7 DEF Moved, Sound, Unique
<1>. QED
  BY <1>8 DEF u

(* The entry of the next slot, if there is one there, is moved too.        *)
LEMMA NextMoved ==
  ASSUME NEW t, Formed(t), Unique(t), NEW size \in Nat, t.size <= size,
         NEW n \in 0..(t.size - 1), NEW slots, Moved(t, New(size, slots), n),
         NEW after, after = IF t.slots[n].used = 1 THEN Place(slots, size, t.slots[n]) ELSE slots
  PROVE  Moved(t, New(size, after), n + 1)
<1>. DEFINE u == New(size, slots)
            w == New(size, after)
            k == t.slots[n].key
            d == Least({e \in 0..(size - 1) : slots[Probe(size, k, e)].used # 1})
            s == Probe(size, k, d)
<1>1. /\ t.size \in Nat /\ Slots(t) = 0..(t.size - 1) /\ n \in Slots(t)
      /\ n \in Nat /\ size > 0 /\ n < size
      /\ LiveSlots(t) \subseteq Slots(t)
  BY FormedFacts
<1>2. u.size = size /\ u.slots = slots /\ w.size = size /\ w.slots = after /\ w.count = 0
  BY DEF New
<1>3. CASE t.slots[n].used # 1
  <2>1. Before(t, n + 1) = Before(t, n)
    BY <1>1, <1>3 DEF Before, LiveSlots
  <2>. QED
    BY <1>3, <2>1 DEF Moved
<1>4. CASE t.slots[n].used = 1
  <2>1. n \in LiveSlots(t) /\ k \in Keys /\ t.slots[n].value \in Values \cup {NoValue}
        /\ t.slots[n] = Entry(k, t.slots[n].value)
    <3>1. n \in LiveSlots(t) /\ t.slots[n] \in Cells /\ t.slots[n].value \in Values \cup {NoValue}
      BY <1>1, <1>4, FormedFacts DEF LiveSlots
    <3>2. k \in Keys
      BY <3>1, FormedFacts
    <3>3. t.slots[n] = Entry(k, t.slots[n].value)
      BY <1>4, <3>1 DEF Cells, Free, Removed, Entry
    <3>. QED
      BY <3>1, <3>2, <3>3
  <2>2. Before(t, n + 1) = Before(t, n) \cup {n} /\ n \notin Before(t, n)
    BY <1>1, <2>1 DEF Before
  <2>. HIDE DEF u, w, k
  <2>3. /\ Formed(u) /\ Sound(u)
        /\ \A r \in Slots(u) : u.slots[r].used # 2
        /\ \A r \in LiveSlots(u) : \E j \in Before(t, n) : u.slots[r] = t.slots[j]
        /\ \A j \in Before(t, n) : \E r \in LiveSlots(u) : u.slots[r] = t.slots[j]
        /\ Cardinality(LiveSlots(u)) = Cardinality(Before(t, n))
    BY DEF Moved, Sound, u
  <2>4. Absent(u, k)
    BY <1>1, <2>1, <2>3 DEF Before, Unique, Absent, k
  <2>5. /\ Slots(u) = 0..(size - 1) /\ Distances(u) = 0..(size - 1)
        /\ LiveSlots(u) \subseteq Slots(u) /\ u.slots \in [Slots(u) -> Cells]
        /\ \A r \in Slots(u) : u.slots[r].used \in {0, 1, 2}
    BY <1>2, <2>3, FormedFacts
  <2>6. LiveSlots(u) # Slots(u)
    <3>1. Before(t, n) \in SUBSET (0..(n - 1))
      BY <1>1 DEF Before
    <3>2. IsFiniteSet(0..(n - 1)) /\ Cardinality(0..(n - 1)) = n
      BY ONLY <1>1, Below
    <3>3. Cardinality(Before(t, n)) <= n
      BY ONLY <3>1, <3>2, FS_Subset
    <3>4. Cardinality(Slots(u)) = size
      BY <1>1, <2>5, FS_Interval
    <3>5. Cardinality(LiveSlots(u)) \in Nat
      BY <2>3, LiveFinite
    <3>. QED
      BY <1>1, <2>3, <3>3, <3>4, <3>5
  <2>. DEFINE E == {e \in 0..(size - 1) : slots[Probe(size, k, e)].used # 1}
  <2>7. E # {} /\ E \in SUBSET Nat
    <3>1. PICK r \in Slots(u) : u.slots[r].used # 1
      BY <2>5, <2>6 DEF LiveSlots
    <3>2. PICK e \in 0..(size - 1) : Probe(size, k, e) = r
      BY <1>1, <2>1, <2>5, <3>1, ProbeOnto
    <3>. QED
      BY <1>2, <3>1, <3>2
  <2>8. d \in E /\ \A e \in E : d <= e
    BY <2>7, LeastIs
  <2>. HIDE DEF d
  <2>9. /\ d \in Distances(u) /\ u.slots[s].used # 1
        /\ \A e \in Distances(u) : e < d => u.slots[Probe(size, k, e)].used = 1
    <3>1. d \in Distances(u) /\ u.slots[s].used # 1
      BY <1>2, <2>5, <2>8
    <3>2. ASSUME NEW e \in Distances(u), e < d  PROVE u.slots[Probe(size, k, e)].used = 1
      <4>1. e \notin E
        BY <2>5, <2>8, <3>2
      <4>. QED
        BY <1>2, <2>5, <4>1
    <3>. QED
      BY <3>1, <3>2
  <2>. HIDE DEF E
  <2>10. Fit(u, k, s)
    <3>1. Trodden(u, k, d)
      BY <1>2, <2>9 DEF Trodden, At
    <3>. QED
      BY <1>2, <2>9, <3>1 DEF Fit
  <2>11. s \in Slots(u)
    BY <2>1, <2>3, <2>10, AtIs DEF Fit
  <2>. HIDE DEF s
  <2>12. after = [slots EXCEPT ![s] = Entry(k, t.slots[n].value)]
    BY <1>4, <2>1 DEF Place, s, d, k
  <2>13. Formed(w)
    <3>1. Entry(k, t.slots[n].value) \in Cells
      BY <2>1 DEF Cells
    <3>2. after \in [0..(size - 1) -> Cells]
      BY <1>2, <2>5, <2>11, <2>12, <3>1
    <3>. QED
      BY <1>2, <3>2 DEF Formed, Slots, w, New
  <2>14. /\ Sound(w) /\ LiveSlots(w) = LiveSlots(u) \cup {s}
         /\ Slots(w) = Slots(u) /\ w.slots[s] = Entry(k, t.slots[n].value)
         /\ \A r \in Slots(u) : r # s => w.slots[r] = u.slots[r]
    <3>1. w.size = u.size /\ w.slots = [u.slots EXCEPT ![s] = Entry(k, t.slots[n].value)]
      BY <1>2, <2>12
    <3>2. PICK v \in Values \cup {NoValue} : v = t.slots[n].value
      BY <2>1
    <3>3. w.slots = [u.slots EXCEPT ![s] = Entry(k, v)]
      BY <3>1, <3>2
    <3>4. /\ Sound(w) /\ LiveSlots(w) = LiveSlots(u) \cup {s}
          /\ Differs(u, w, s, Entry(k, v))
      BY ONLY <2>1, <2>3, <2>4, <2>10, <2>13, <3>1, <3>3, Inserted
    <3>. QED
      BY <3>2, <3>4 DEF Differs
  <2>15. s \notin LiveSlots(u) /\ Entry(k, t.slots[n].value).used = 1
    BY <2>9 DEF LiveSlots, Entry
  <2>16. \A r \in LiveSlots(u) : w.slots[r] = u.slots[r]
    BY <2>5, <2>14, <2>15
  <2>17. \A r \in Slots(w) : w.slots[r].used # 2
    BY <2>3, <2>14, <2>15
  <2>18. \A r \in LiveSlots(w) : \E j \in Before(t, n + 1) : w.slots[r] = t.slots[j]
    BY <2>1, <2>2, <2>3, <2>14, <2>16
  <2>19. \A j \in Before(t, n + 1) : \E r \in LiveSlots(w) : w.slots[r] = t.slots[j]
    <3>1. \A j \in Before(t, n) : \E r \in LiveSlots(u) : u.slots[r] = t.slots[j]
      BY <2>3
    <3>2. \A j \in Before(t, n) : \E r \in LiveSlots(w) : w.slots[r] = t.slots[j]
      BY <2>14, <2>16, <3>1
    <3>3. w.slots[s] = t.slots[n] /\ s \in LiveSlots(w)
      BY <2>1, <2>14
    <3>. QED
      BY <2>2, <3>2, <3>3
  <2>20. Cardinality(LiveSlots(w)) = Cardinality(Before(t, n + 1))
    <3>1. IsFiniteSet(LiveSlots(u)) /\ IsFiniteSet(Before(t, n))
      <4>1. Before(t, n) \in SUBSET LiveSlots(t) /\ IsFiniteSet(LiveSlots(t))
        BY LiveFinite DEF Before
      <4>. QED
        BY <2>3, <4>1, LiveFinite, FS_Subset
    <3>2. Cardinality(LiveSlots(w)) = Cardinality(LiveSlots(u)) + 1
      BY <2>14, <2>15, <3>1, FS_AddElement
    <3>3. Cardinality(Before(t, n + 1)) = Cardinality(Before(t, n)) + 1
      BY <2>2, <3>1, FS_AddElement
    <3>. QED
      BY <2>3, <3>2, <3>3
  <2>21. Moved(t, w, n + 1)
    BY <2>14, <2>17, <2>18, <2>19, <2>20 DEF Moved
  <2>. QED
    BY <2>21 DEF w
<1>. QED
  BY <1>3, <1>4

(* A table that is rehashed has the entries it had, and no removed slots.  *)
LEMMA Rehashed ==
  ASSUME NEW t, Formed(t), Unique(t), NEW size \in Nat, t.size <= size
  PROVE  Moved(t, New(size, Rehash(t, size)), t.size)
<1>1. PICK g : /\ Rehash(t, size) = g[t.size]
               /\ \A n \in 0..t.size : g[n] = Filled(t, size, g, n)
  BY RehashIs
<1>2. t.size \in Nat
  BY FormedFacts
<1>. DEFINE S == {n \in Nat : n <= t.size => Moved(t, New(size, g[n]), n)}
<1>3. 0 \in S
  <2>1. g[0] = Empty(size)
    BY <1>1, <1>2 DEF Filled
  <2>. QED
    BY <2>1, NothingMoved
<1>4. ASSUME NEW n \in S  PROVE n + 1 \in S
  <2>. SUFFICES ASSUME n + 1 <= t.size  PROVE Moved(t, New(size, g[n + 1]), n + 1)
    OBVIOUS
  <2>1. n \in Nat /\ n \in 0..(t.size - 1) /\ n + 1 \in 0..t.size /\ (n + 1) - 1 = n /\ n + 1 # 0
    BY <1>2
  <2>2. Moved(t, New(size, g[n]), n)
    BY <1>2, <2>1
  <2>3. g[n + 1] = Filled(t, size, g, n + 1)
    BY <1>1, <2>1
  <2>4. g[n + 1] = IF t.slots[n].used = 1 THEN Place(g[n], size, t.slots[n]) ELSE g[n]
    BY <2>1, <2>3 DEF Filled
  <2>. QED
    BY <2>1, <2>2, <2>4, NextMoved
<1>. HIDE DEF S
<1>5. S \in SUBSET Nat
  BY DEF S
<1>6. S = Nat
  BY <1>3, <1>4, <1>5, Induction
<1>. QED
  BY <1>1, <1>2, <1>6 DEF S

(* u has the entries of t, wherever they are.                              *)
SameEntries(t, u) ==
  /\ \A s \in LiveSlots(u) : \E j \in LiveSlots(t) : u.slots[s] = t.slots[j]
  /\ \A j \in LiveSlots(t) : \E s \in LiveSlots(u) : u.slots[s] = t.slots[j]
  /\ Cardinality(LiveSlots(u)) = Cardinality(LiveSlots(t))

(* The count of a table has no part in where its entries are.              *)
LEMMA Recounted ==
  ASSUME NEW t, Sound(t), NEW u, Formed(u), u.size = t.size, u.slots = t.slots
  PROVE  Sound(u) /\ LiveSlots(u) = LiveSlots(t) /\ Slots(u) = Slots(t)
<1>1. Slots(u) = Slots(t) /\ Distances(u) = Distances(t)
  BY DEF Slots, Distances
<1>2. LiveSlots(u) = LiveSlots(t)
  BY <1>1 DEF LiveSlots
<1>3. \A k, d : Trodden(u, k, d) <=> Trodden(t, k, d)
  BY <1>1 DEF Trodden, At
<1>4. \A s \in LiveSlots(u) : Reached(u, s)
  BY <1>1, <1>2, <1>3 DEF Sound, Reached
<1>5. Unique(u)
  BY <1>2 DEF Sound, Unique
<1>. QED
  BY <1>1, <1>2, <1>4, <1>5 DEF Sound

(* Growing a table keeps its entries and leaves no removed slot.           *)
LEMMA GrownIs ==
  ASSUME NEW t, Sound(t)
  PROVE  /\ Sound(Grown(t)) /\ SameEntries(t, Grown(t))
         /\ \A s \in Slots(Grown(t)) : Grown(t).slots[s].used # 2
         /\ Grown(t).size = NewSize(t) /\ Grown(t).count = t.count
<1>. DEFINE size == NewSize(t)
            w == New(size, Rehash(t, size))
            u == Grown(t)
<1>1. Formed(t) /\ Unique(t) /\ t.size \in Nat /\ t.count \in Nat
  BY FormedFacts DEF Sound
<1>2. size \in Nat /\ t.size <= size
  BY <1>1, TablesAssumption DEF NewSize
<1>3. u.size = size /\ u.count = t.count /\ u.slots = w.slots /\ w.size = size
      /\ u = [size |-> size, slots |-> w.slots, count |-> t.count]
  BY DEF Grown, New
<1>. HIDE DEF size
<1>4. Moved(t, w, t.size)
  BY <1>1, <1>2, Rehashed
<1>5. u.size = NewSize(t)
  BY <1>3 DEF size
<1>. HIDE DEF w, u
<1>6. Before(t, t.size) = LiveSlots(t)
  BY <1>1, FormedFacts DEF Before
<1>7. Sound(w) /\ Formed(w)
  BY <1>4 DEF Moved, Sound
<1>8. Slots(u) = Slots(w)
  BY <1>3 DEF Slots
<1>9. Formed(u)
  <2>1. w.slots \in [Slots(w) -> Cells]
    BY <1>7, FormedFacts
  <2>. QED
    BY <1>1, <1>2, <1>3, <1>8, <2>1 DEF Formed
<1>10. Sound(u) /\ LiveSlots(u) = LiveSlots(w)
  BY <1>3, <1>7, <1>9, Recounted
<1>11. SameEntries(t, u)
  BY <1>3, <1>4, <1>6, <1>10 DEF Moved, SameEntries
<1>12. \A s \in Slots(u) : u.slots[s].used # 2
  BY <1>3, <1>4, <1>8 DEF Moved
<1>. QED
  BY <1>3, <1>5, <1>10, <1>11, <1>12 DEF u

-----------------------------------------------------------------------------
(* Lemmas about where a new entry goes.                                    *)

(* The slots of dict and set for a key that is not there: a probe comes to *)
(* both, and neither is that of an entry, for a dict if a slot is left     *)
(* that was never used, for a set if there is any slot but of an entry.    *)
LEMMA SlotIs ==
  ASSUME NEW t, Sound(t), t.size > 0, NEW k \in Keys, ~Found(t, k)
  PROVE  /\ Absent(t, k) /\ Fit(t, k, DictSlot(t, k)) /\ Fit(t, k, SetSlot(t, k))
         /\ Unused(t) => DictSlot(t, k) \notin LiveSlots(t)
         /\ LiveSlots(t) # Slots(t) => SetSlot(t, k) \notin LiveSlots(t)
<1>. DEFINE m == Least(Stops(t, k))
            p == Least(Passed(t, k))
<1>1. Formed(t) /\ t.size \in Nat /\ Slots(t) = 0..(t.size - 1) /\ Distances(t) = 0..(t.size - 1)
  BY FormedFacts DEF Sound
<1>2. Absent(t, k)
  BY FoundIs DEF Absent
<1>8. ASSUME NEW s \in Slots(t)  PROVE \E d \in Distances(t) : Probe(t.size, k, d) = s
  <2>1. s \in 0..(t.size - 1)
    BY <1>1
  <2>2. \E d \in 0..(t.size - 1) : Probe(t.size, k, d) = s
    BY ONLY <1>1, <2>1, t.size > 0, k \in Keys, ProbeOnto
  <2>. QED
    BY <1>1, <2>2
<1>3. ASSUME Stops(t, k) # {}
      PROVE  /\ Fit(t, k, DictSlot(t, k)) /\ DictSlot(t, k) \notin LiveSlots(t)
  <2>1. DictSlot(t, k) = Probe(t.size, k, m)
    BY <1>3 DEF DictSlot
  <2>2. /\ m \in Distances(t) /\ m \in Stops(t, k) /\ Trodden(t, k, m)
    BY <1>1, <1>3, StopsIs
  <2>3. ~ Holds(At(t, k, m), k)
    BY <1>3 DEF Found
  <2>. HIDE DEF m
  <2>4. At(t, k, m).used = 0
    BY <2>2, <2>3 DEF Stops
  <2>. QED
    BY <2>1, <2>2, <2>4 DEF Fit, LiveSlots, At
<1>4. ASSUME Stops(t, k) = {}  PROVE Fit(t, k, DictSlot(t, k)) /\ ~ Unused(t)
  <2>1. DictSlot(t, k) = Probe(t.size, k, 0)
    BY <1>4 DEF DictSlot
  <2>2. 0 \in Distances(t) /\ Trodden(t, k, 0)
    BY <1>1 DEF Trodden
  <2>3. ASSUME NEW s \in Slots(t)  PROVE t.slots[s].used # 0
    <3>1. PICK d \in Distances(t) : Probe(t.size, k, d) = s
      BY <1>8
    <3>. QED
      BY <1>4, <3>1 DEF Stops, At
  <2>. QED
    BY <2>1, <2>2, <2>3 DEF Fit, Unused
<1>5. Fit(t, k, DictSlot(t, k)) /\ (Unused(t) => DictSlot(t, k) \notin LiveSlots(t))
  BY <1>3, <1>4
<1>6. ASSUME Passed(t, k) # {}
      PROVE  Fit(t, k, SetSlot(t, k)) /\ SetSlot(t, k) \notin LiveSlots(t)
  <2>1. SetSlot(t, k) = Probe(t.size, k, p)
    BY <1>6 DEF SetSlot
  <2>2. Passed(t, k) \in SUBSET Nat
    BY <1>1 DEF Passed
  <2>3. p \in Passed(t, k)
    BY <1>6, <2>2, LeastIs
  <2>. HIDE DEF p
  <2>4. p \in Distances(t) /\ At(t, k, p).used = 2 /\ \A e \in Stops(t, k) : p < e
    BY <2>3 DEF Passed
  <2>5. ASSUME NEW e \in Distances(t), e < p  PROVE At(t, k, e).used # 0
    <3>1. e \notin Stops(t, k)
      BY <1>1, <2>4, <2>5
    <3>. QED
      BY <3>1 DEF Stops
  <2>6. Trodden(t, k, p)
    BY <2>5 DEF Trodden
  <2>. QED
    BY <2>1, <2>4, <2>6 DEF Fit, LiveSlots, At
<1>7. ASSUME Passed(t, k) = {}
      PROVE  /\ Fit(t, k, SetSlot(t, k))
             /\ LiveSlots(t) # Slots(t) => SetSlot(t, k) \notin LiveSlots(t)
  <2>1. SetSlot(t, k) = DictSlot(t, k)
    BY <1>7 DEF SetSlot
  <2>2. ASSUME Stops(t, k) = {}, NEW s \in Slots(t)  PROVE s \in LiveSlots(t)
    <3>1. PICK d \in Distances(t) : Probe(t.size, k, d) = s
      BY <1>8
    <3>2. At(t, k, d).used # 0 /\ At(t, k, d).used # 2
      BY <1>7, <2>2 DEF Stops, Passed
    <3>3. At(t, k, d) = t.slots[s] /\ At(t, k, d).used \in {0, 1, 2}
      BY <1>1, <3>1, AtIs
    <3>. QED
      BY <3>2, <3>3 DEF LiveSlots
  <2>3. LiveSlots(t) \subseteq Slots(t)
    BY DEF LiveSlots
  <2>. QED
    BY <1>3, <1>5, <2>1, <2>2, <2>3
<1>. QED
  BY <1>2, <1>5, <1>6, <1>7

-----------------------------------------------------------------------------
(* Lemmas about the operations, for any table and any kind of table.       *)

(* A table with other slots and another count.                             *)
Changed(t, u, f, c) == Formed(u) /\ u.size = t.size /\ u.slots = f /\ u.count = c

LEMMA ChangedIs ==
  ASSUME NEW t, Formed(t), NEW f, f \in [Slots(t) -> Cells], NEW c, c \in Nat
  PROVE  Changed(t, [t EXCEPT !.slots = f, !.count = c], f, c)
<1>. DEFINE u == [t EXCEPT !.slots = f, !.count = c]
<1>1. t = [size |-> t.size, slots |-> t.slots, count |-> t.count] /\ t.size \in Nat
  BY DEF Formed
<1>2. u = [size |-> t.size, slots |-> f, count |-> c]
  <2>1. PICK n, g, m : t = [size |-> n, slots |-> g, count |-> m] /\ n = t.size
    BY <1>1
  <2>2. [t EXCEPT !.slots = f] = [size |-> n, slots |-> f, count |-> m]
    BY ONLY <2>1
  <2>3. PICK a : a = [t EXCEPT !.slots = f]
    OBVIOUS
  <2>4. a = [size |-> n, slots |-> f, count |-> m]
    BY ONLY <2>2, <2>3, Zenon
  <2>5. [a EXCEPT !.count = c] = [size |-> n, slots |-> f, count |-> c]
    BY ONLY <2>4
  <2>6. u = [a EXCEPT !.count = c]
    BY ONLY <2>3 DEF u
  <2>. QED
    BY ONLY <2>1, <2>5, <2>6, Zenon
<1>. HIDE DEF u
<1>3. u.size = t.size /\ u.slots = f /\ u.count = c
  BY <1>2
<1>4. Slots(u) = Slots(t)
  BY <1>3 DEF Slots
<1>. QED
  BY <1>1, <1>2, <1>3, <1>4 DEF Formed, Changed, u

(* u has an entry of k with v, and besides it those of t with another key. *)
With(t, u, k, v) ==
  /\ \E x \in LiveSlots(u) : u.slots[x] = Entry(k, v)
  /\ \A r \in LiveSlots(u) : u.slots[r].key # k => r \in LiveSlots(t) /\ u.slots[r] = t.slots[r]
  /\ \A j \in LiveSlots(t) : t.slots[j].key # k => j \in LiveSlots(u) /\ u.slots[j] = t.slots[j]

(* A table with room for one more entry.                                   *)
Room(t) == t.size >= 2 /\ 3 * (t.count + 1) <= 2 * t.size

Kept(kd, t) == Sound(t) /\ Counted(kd, t) /\ Sized(t)

(* A key that is there gets its new value.                                 *)
LEMMA FoundStored ==
  ASSUME NEW kd, NEW t, Sound(t), Counted(kd, t), Room(t),
         NEW k \in Keys, NEW v \in Values \cup {NoValue}, NEW s, Found(t, k)
  PROVE  Kept(kd, Stored(t, s, k, v)) /\ With(t, Stored(t, s, k, v), k, v)
<1>. DEFINE u == Stored(t, s, k, v)
            x == DictSlot(t, k)
            f == [t.slots EXCEPT ![x].value = v]
<1>1. Formed(t) /\ t.size \in Nat /\ t.count \in Nat /\ t.slots \in [Slots(t) -> Cells]
  BY FormedFacts DEF Sound
<1>2. x \in LiveSlots(t) /\ t.slots[x].key = k
  BY FoundIs
<1>3. x \in Slots(t) /\ t.slots[x] \in Cells /\ t.slots[x].used = 1
  BY <1>1, <1>2, FormedFacts
<1>4. u = [t EXCEPT !.slots = f]
  BY DEF Stored
<1>5. t = [t EXCEPT !.count = t.count]
  BY <1>1 DEF Formed
<1>6. u = [t EXCEPT !.slots = f, !.count = t.count]
  BY <1>1, <1>4 DEF Formed
<1>7. f \in [Slots(t) -> Cells]
  <2>1. t.slots[x] = Entry(k, t.slots[x].value)
    BY <1>2, <1>3 DEF Cells, Free, Removed, Entry
  <2>2. [t.slots[x] EXCEPT !.value = v] = Entry(k, v)
    BY <2>1 DEF Entry
  <2>3. Entry(k, v) \in Cells
    BY DEF Cells
  <2>. QED
    BY <1>1, <1>3, <2>2, <2>3
<1>. HIDE DEF u, x
<1>8. Formed(u) /\ u.size = t.size /\ u.slots = f /\ u.count = t.count
  <2>. HIDE DEF f
  <2>9. Changed(t, [t EXCEPT !.slots = f, !.count = t.count], f, t.count)
    BY <1>1, <1>6, <1>7, ChangedIs
  <2>. QED
    BY <2>9, <1>1, <1>6, <1>7 DEF Changed
<1>9. Sound(u) /\ LiveSlots(u) = LiveSlots(t) /\ Differs(t, u, x, Entry(t.slots[x].key, v))
  BY <1>2, <1>8, Updated
<1>10. With(t, u, k, v)
  <2>1. u.slots[x] = Entry(k, v) /\ Entry(k, v).key = k
    BY <1>2, <1>9 DEF Differs, Entry
  <2>2. \A r \in LiveSlots(t) : r # x => u.slots[r] = t.slots[r]
    BY <1>1, <1>9, FormedFacts DEF Differs
  <2>. QED
    BY <1>2, <1>9, <2>1, <2>2 DEF With
<1>11. Counted(kd, u)
  BY <1>8, <1>9 DEF Counted
<1>12. Sized(u)
  BY <1>1, <1>8 DEF Sized, Room
<1>. QED
  BY <1>9, <1>10, <1>11, <1>12 DEF Kept, u

(* Any other key takes a slot that the probe for it comes to; in a set the *)
(* slot must not be that of another entry.                                 *)
LEMMA NewStored ==
  ASSUME NEW kd, NEW t, Sound(t), Counted(kd, t), Room(t),
         NEW k \in Keys, NEW v \in Values \cup {NoValue}, NEW s, ~Found(t, k),
         Absent(t, k), Fit(t, k, s), kd = "set" => s \notin LiveSlots(t)
  PROVE  /\ Kept(kd, Stored(t, s, k, v))
         /\ s \notin LiveSlots(t) => With(t, Stored(t, s, k, v), k, v)
<1>. DEFINE u == Stored(t, s, k, v)
            f == [t.slots EXCEPT ![s] = Entry(k, v)]
<1>1. Formed(t) /\ t.size \in Nat /\ t.count \in Nat /\ t.slots \in [Slots(t) -> Cells]
  BY FormedFacts DEF Sound
<1>2. s \in Slots(t)
  BY <1>1, AtIs DEF Fit
<1>3. u = [t EXCEPT !.slots = f, !.count = t.count + 1]
  BY DEF Stored
<1>4. f \in [Slots(t) -> Cells]
  <2>1. Entry(k, v) \in Cells
    BY DEF Cells
  <2>. QED
    BY <1>1, <1>2, <2>1
<1>. HIDE DEF u
<1>5. Formed(u) /\ u.size = t.size /\ u.slots = f /\ u.count = t.count + 1
  <2>1. t.count + 1 \in Nat
    BY <1>1
  <2>. HIDE DEF f
  <2>9. Changed(t, [t EXCEPT !.slots = f, !.count = t.count + 1], f, t.count + 1)
    BY <1>1, <1>3, <1>4, <2>1, ChangedIs
  <2>. QED
    BY <2>9, <1>1, <1>3, <1>4, <2>1 DEF Changed
<1>6. Sound(u) /\ LiveSlots(u) = LiveSlots(t) \cup {s} /\ Differs(t, u, s, Entry(k, v))
  BY <1>5, Inserted
<1>7. ASSUME s \notin LiveSlots(t)  PROVE With(t, u, k, v)
  <2>1. u.slots[s] = Entry(k, v) /\ Entry(k, v).key = k
    BY <1>6 DEF Differs, Entry
  <2>2. \A r \in LiveSlots(t) : r # s => u.slots[r] = t.slots[r]
    BY <1>1, <1>6, FormedFacts DEF Differs
  <2>. QED
    BY <1>6, <1>7, <2>1, <2>2 DEF With
<1>8. Counted(kd, u)
  <2>1. IsFiniteSet(LiveSlots(t)) /\ Cardinality(LiveSlots(t)) \in Nat
    BY <1>1, LiveFinite
  <2>2. Cardinality(LiveSlots(u)) = IF s \in LiveSlots(t) THEN Cardinality(LiveSlots(t))
                                   ELSE Cardinality(LiveSlots(t)) + 1
    BY <1>6, <2>1, FS_AddElement
  <2>. QED
    BY <1>1, <1>5, <2>1, <2>2 DEF Counted
<1>9. Sized(u)
  BY <1>1, <1>5 DEF Sized, Room
<1>. QED
  BY <1>6, <1>7, <1>8, <1>9 DEF Kept, u

(* An entry of k is removed, and no other.                                 *)
Without(t, u, k) ==
  /\ \A r \in LiveSlots(u) : u.slots[r].key # k /\ r \in LiveSlots(t) /\ u.slots[r] = t.slots[r]
  /\ \A j \in LiveSlots(t) : t.slots[j].key # k => j \in LiveSlots(u)

LEMMA Popped ==
  ASSUME NEW kd, NEW t, Kept(kd, t), NEW k \in Keys, Found(t, k),
         NEW u, u = [t EXCEPT !.slots[DictSlot(t, k)] = Removed, !.count = @ - 1]
  PROVE  Kept(kd, u) /\ Without(t, u, k)
<1>. DEFINE x == DictSlot(t, k)
            f == [t.slots EXCEPT ![x] = Removed]
<1>1. Sound(t) /\ Counted(kd, t) /\ Sized(t)
  BY DEF Kept
<1>2. Formed(t) /\ t.size \in Nat /\ t.count \in Nat /\ t.slots \in [Slots(t) -> Cells]
  BY <1>1, FormedFacts DEF Sound
<1>3. x \in LiveSlots(t) /\ t.slots[x].key = k
  BY <1>1, FoundIs
<1>4. x \in Slots(t)
  BY <1>3 DEF LiveSlots
<1>5. u = [t EXCEPT !.slots = f, !.count = t.count - 1]
  OBVIOUS
<1>6. f \in [Slots(t) -> Cells]
  <2>1. Removed \in Cells
    BY DEF Cells
  <2>. QED
    BY <1>2, <1>4, <2>1
<1>7. IsFiniteSet(LiveSlots(t)) /\ Cardinality(LiveSlots(t)) \in Nat
  BY <1>2, LiveFinite
<1>8. Cardinality(LiveSlots(t) \ {x}) = Cardinality(LiveSlots(t)) - 1
      /\ Cardinality(LiveSlots(t) \ {x}) \in Nat
  BY <1>3, <1>7, FS_RemoveElement, FS_CardinalityType
<1>9. t.count - 1 \in Nat
  BY <1>1, <1>2, <1>7, <1>8 DEF Counted
<1>. HIDE DEF x
<1>10. Formed(u) /\ u.size = t.size /\ u.slots = f /\ u.count = t.count - 1
  <2>. HIDE DEF f
  <2>9. Changed(t, [t EXCEPT !.slots = f, !.count = t.count - 1], f, t.count - 1)
    BY <1>2, <1>5, <1>6, <1>9, ChangedIs
  <2>. QED
    BY <2>9, <1>2, <1>5, <1>6, <1>9 DEF Changed
<1>11. Sound(u) /\ LiveSlots(u) = LiveSlots(t) \ {x} /\ Differs(t, u, x, Removed)
  BY <1>1, <1>3, <1>10, Taken
<1>12. Counted(kd, u)
  BY <1>1, <1>2, <1>7, <1>8, <1>10, <1>11 DEF Counted
<1>13. Sized(u)
  BY <1>1, <1>2, <1>9, <1>10 DEF Sized
<1>14. Without(t, u, k)
  <2>1. \A r \in LiveSlots(u) : r \in LiveSlots(t) /\ r # x /\ u.slots[r] = t.slots[r]
    BY <1>2, <1>11, FormedFacts DEF Differs
  <2>2. \A r \in LiveSlots(t) : r # x => t.slots[r].key # k
    BY <1>1, <1>3 DEF Sound, Unique
  <2>. QED
    BY <1>3, <1>11, <2>1, <2>2 DEF Without
<1>. QED
  BY <1>11, <1>12, <1>13, <1>14 DEF Kept

(* What Roomy makes of a table has room, and its entries; a slot is left   *)
(* in it that has no entry, and one never used if there was one.           *)
LEMMA RoomyIs ==
  ASSUME NEW kd, NEW t, Kept(kd, t)
  PROVE  /\ Sound(Roomy(t)) /\ Counted(kd, Roomy(t)) /\ Room(Roomy(t))
         /\ SameEntries(t, Roomy(t)) /\ LiveSlots(Roomy(t)) # Slots(Roomy(t))
         /\ Unused(t) => Unused(Roomy(t))
<1>. DEFINE r == Roomy(t)
            g == Grown(t)
<1>1. Sound(t) /\ Counted(kd, t) /\ Sized(t) /\ Formed(t) /\ t.size \in Nat /\ t.count \in Nat
  BY FormedFacts DEF Kept, Sound
<1>2. /\ Sound(g) /\ SameEntries(t, g) /\ g.size = NewSize(t) /\ g.count = t.count
      /\ \A s \in Slots(g) : g.slots[s].used # 2
  BY <1>1, GrownIs
<1>3. Crowded(t) => r = g
  BY DEF Roomy
<1>4. ~Crowded(t) => r = t
  BY DEF Roomy
<1>. HIDE DEF r, g
<1>5. Sound(r) /\ SameEntries(t, r) /\ r.count = t.count
  BY <1>1, <1>2, <1>3, <1>4 DEF SameEntries
<1>6. Counted(kd, r)
  BY <1>1, <1>5 DEF Counted, SameEntries
<1>7. Room(r)
  <2>1. CASE Crowded(t)
    <3>1. CASE t.size = 0
      BY <1>1, <1>2, <1>3, <2>1, <3>1, TablesAssumption DEF Room, NewSize, Sized
    <3>2. CASE t.size # 0
      BY <1>1, <1>2, <1>3, <2>1, <3>2 DEF Room, NewSize, Sized
    <3>. QED
      BY <3>1, <3>2
  <2>2. CASE ~Crowded(t)
    <3>1. t.size # 0 /\ ~ ((t.count + 1) * 3 > t.size * 2)
      BY <2>2 DEF Crowded
    <3>. QED
      BY <1>1, <1>4, <2>2, <3>1 DEF Room, Sized
  <2>. QED
    BY <2>1, <2>2
<1>8. LiveSlots(r) # Slots(r)
  <2>1. Formed(r) /\ r.size \in Nat /\ r.count \in Nat /\ Slots(r) = 0..(r.size - 1)
    BY <1>5, FormedFacts DEF Sound
  <2>2. Cardinality(Slots(r)) = r.size
    BY ONLY <2>1, Below
  <2>. QED
    BY <1>6, <1>7, <2>1, <2>2, LiveFinite DEF Counted, Room
<1>9. ASSUME Unused(t)  PROVE Unused(r)
  <2>1. CASE Crowded(t)
    <3>1. \A s \in Slots(r) : r.slots[s].used \in {0, 1, 2}
      BY <1>5, FormedFacts DEF Sound
    <3>2. PICK s \in Slots(r) : r.slots[s].used # 1
      BY <1>8 DEF LiveSlots
    <3>. QED
      BY <1>2, <1>3, <2>1, <3>1, <3>2 DEF Unused
  <2>. QED
    BY <1>4, <1>9, <2>1
<1>. QED
  BY <1>5, <1>6, <1>7, <1>8, <1>9 DEF r

(* Either kind of table keeps what it stores into a table with room.       *)
LEMMA StoredKept ==
  ASSUME NEW kd, NEW t, Kept(kd, t), NEW k \in Keys, NEW v \in Values \cup {NoValue},
         NEW s, s = IF kd = "set" THEN SetSlot(Roomy(t), k) ELSE DictSlot(Roomy(t), k)
  PROVE  /\ Kept(kd, Stored(Roomy(t), s, k, v))
         /\ (kd = "set" \/ Unused(t)) => With(Roomy(t), Stored(Roomy(t), s, k, v), k, v)
<1>1. PICK r : r = Roomy(t)
  OBVIOUS
<1>2. /\ Sound(r) /\ Counted(kd, r) /\ Room(r) /\ LiveSlots(r) # Slots(r)
      /\ Unused(t) => Unused(r)
  BY ONLY <1>1, Kept(kd, t), RoomyIs
<1>3. CASE Found(r, k)
  <2>1. Kept(kd, Stored(r, s, k, v)) /\ With(r, Stored(r, s, k, v), k, v)
    BY ONLY <1>2, <1>3, k \in Keys, v \in Values \cup {NoValue}, FoundStored
  <2>. QED
    BY ONLY <1>1, <2>1
<1>4. CASE ~Found(r, k)
  <2>1. r.size > 0
    BY <1>2, FormedFacts DEF Room, Sound
  <2>2. /\ Absent(r, k) /\ Fit(r, k, DictSlot(r, k)) /\ Fit(r, k, SetSlot(r, k))
        /\ Unused(r) => DictSlot(r, k) \notin LiveSlots(r)
        /\ LiveSlots(r) # Slots(r) => SetSlot(r, k) \notin LiveSlots(r)
    BY ONLY <1>2, <1>4, <2>1, k \in Keys, SlotIs
  <2>3. (kd = "set" \/ Unused(t)) => s \notin LiveSlots(r)
    BY <1>1, <1>2, <2>2
  <2>4. Fit(r, k, s)
    BY <1>1, <2>2
  <2>5. /\ Kept(kd, Stored(r, s, k, v))
        /\ s \notin LiveSlots(r) => With(r, Stored(r, s, k, v), k, v)
    BY ONLY <1>2, <1>4, <2>2, <2>3, <2>4, k \in Keys, v \in Values \cup {NoValue}, NewStored
  <2>. QED
    BY ONLY <1>1, <2>3, <2>5
<1>. QED
  BY <1>3, <1>4

-----------------------------------------------------------------------------
(* The invariant.                                                          *)

LEMMA InvIs == IInv <=> kind \in {"dict", "set"} /\ Kept(kind, table)
BY DEF IInv, Kept

LEMMA InitInv == Init => IInv
<1>. SUFFICES ASSUME Init  PROVE IInv
  OBVIOUS
<1>1. kind \in {"dict", "set"} /\ table = [size |-> 0, slots |-> Empty(0), count |-> 0]
  BY DEF Init
<1>2. Slots(table) = {} /\ table.size = 0 /\ table.count = 0
  BY <1>1 DEF Slots
<1>3. Empty(0) \in [Slots(table) -> Cells]
  BY <1>2 DEF Empty
<1>4. Formed(table)
  BY <1>1, <1>2, <1>3 DEF Formed
<1>5. LiveSlots(table) = {}
  BY <1>2 DEF LiveSlots
<1>. QED
  BY <1>1, <1>2, <1>4, <1>5, FS_EmptySet DEF IInv, Sound, Unique, Counted, Sized

(* What each operation keeps, and how the entries differ after it.         *)
LEMMA SetCopyIs ==
  ASSUME IInv, NEW k \in Keys, NEW v \in Values, SetCopy(k, v)
  PROVE  IInv' /\ (Unused(table) => With(Roomy(table), table', k, v))
<1>1. PICK t : t = table
  OBVIOUS
<1>2. kind = "dict" /\ kind' = kind /\ table' = Stored(Roomy(t), DictSlot(Roomy(t), k), k, v)
  BY <1>1 DEF SetCopy
<1>3. Kept("dict", t) /\ v \in Values \cup {NoValue}
  BY <1>1, <1>2, InvIs
<1>4. /\ Kept("dict", Stored(Roomy(t), DictSlot(Roomy(t), k), k, v))
      /\ Unused(t) => With(Roomy(t), Stored(Roomy(t), DictSlot(Roomy(t), k), k, v), k, v)
  BY ONLY <1>3, k \in Keys, StoredKept
<1>5. PICK u : u = table'
  OBVIOUS
<1>6. Kept("dict", u) /\ (Unused(t) => With(Roomy(t), u, k, v))
  BY ONLY <1>2, <1>4, <1>5
<1>. QED
  BY <1>1, <1>2, <1>5, <1>6 DEF IInv, Kept

LEMMA AddIs ==
  ASSUME IInv, NEW k \in Keys, Add(k)
  PROVE  IInv' /\ With(Roomy(table), table', k, NoValue)
<1>1. PICK t : t = table
  OBVIOUS
<1>2. kind = "set" /\ kind' = kind /\ table' = Stored(Roomy(t), SetSlot(Roomy(t), k), k, NoValue)
  BY <1>1 DEF Add
<1>3. Kept("set", t) /\ NoValue \in Values \cup {NoValue}
  BY <1>1, <1>2, InvIs
<1>4. /\ Kept("set", Stored(Roomy(t), SetSlot(Roomy(t), k), k, NoValue))
      /\ With(Roomy(t), Stored(Roomy(t), SetSlot(Roomy(t), k), k, NoValue), k, NoValue)
  BY ONLY <1>3, k \in Keys, StoredKept
<1>5. PICK u : u = table'
  OBVIOUS
<1>6. Kept("set", u) /\ With(Roomy(t), u, k, NoValue)
  BY ONLY <1>2, <1>4, <1>5
<1>. QED
  BY <1>1, <1>2, <1>5, <1>6 DEF IInv, Kept

LEMMA PopIs ==
  ASSUME IInv, NEW k \in Keys, Pop(k)
  PROVE  IInv' /\ Without(table, table', k)
<1>1. PICK t, kd : t = table /\ kd = kind
  OBVIOUS
<1>2. PICK u : u = table'
  OBVIOUS
<1>3. Found(t, k) /\ kind' = kd /\ kd \in {"dict", "set"} /\ Kept(kd, t)
      /\ u = [t EXCEPT !.slots[DictSlot(t, k)] = Removed, !.count = @ - 1]
  BY <1>1, <1>2, InvIs DEF Pop
<1>4. Kept(kd, u) /\ Without(t, u, k)
  BY ONLY <1>3, k \in Keys, Popped
<1>. QED
  BY <1>1, <1>2, <1>3, <1>4 DEF IInv, Kept

LEMMA NextInv == IInv /\ [Next]_vars => IInv'
<1>. SUFFICES ASSUME IInv, [Next]_vars  PROVE IInv'
  OBVIOUS
<1>1. ASSUME NEW k \in Keys, Add(k)  PROVE IInv'
  BY <1>1, AddIs
<1>2. ASSUME NEW k \in Keys, Pop(k)  PROVE IInv'
  BY <1>2, PopIs
<1>3. ASSUME NEW k \in Keys, NEW v \in Values, SetCopy(k, v)  PROVE IInv'
  BY <1>3, SetCopyIs
<1>4. CASE UNCHANGED vars
  <2>. HIDE DEF IInv
  <2>1. kind' = kind /\ table' = table
    BY <1>4 DEF vars
  <2>. QED
    BY <2>1, SMTT(60) DEF IInv, Sound, Formed, Unique, Reached, Trodden, At, Probe, Distances, Slots,
                LiveSlots, Counted, Sized
<1>. QED
  BY <1>1, <1>2, <1>3, <1>4 DEF Next

(* The invariant holds of every table a program can make.                  *)
THEOREM Inductive == Spec => []IInv
BY InitInv, NextInv, PTL DEF Spec

-----------------------------------------------------------------------------
(* The properties of the runs.                                             *)

(* Tables keep their shape: the slots are those of the size, each free,    *)
(* removed or an entry of a key and a value.                               *)
THEOREM TypeCorrect == Spec => []TypeOK
<1>1. IInv => TypeOK
  BY DEF IInv, Sound, Formed, Cells, TypeOK
<1>. QED
  BY <1>1, Inductive, PTL

(* A lookup finds every entry in the slot it has: neither the slots that   *)
(* removals left on the way nor a move to a larger table loses one.        *)
THEOREM LookupsFindEntries == Spec => []EntriesFound
<1>1. IInv => EntriesFound
  <2>. SUFFICES ASSUME IInv, NEW s \in LiveSlots(table)
                PROVE  Found(table, table.slots[s].key) /\ DictSlot(table, table.slots[s].key) = s
    BY DEF EntriesFound
  <2>1. PICK t : t = table
    OBVIOUS
  <2>2. Sound(t) /\ s \in LiveSlots(t)
    BY <2>1 DEF IInv
  <2>3. t.slots[s].key \in Keys
    BY ONLY <2>2, FormedFacts DEF Sound
  <2>4. Found(t, t.slots[s].key) /\ DictSlot(t, t.slots[s].key) = s
    BY ONLY <2>2, <2>3, FoundIs
  <2>. QED
    BY ONLY <2>1, <2>4
<1>. QED
  BY <1>1, Inductive, PTL

(* The count by which a table is grown, and which a program sees as the    *)
(* length, covers the entries, and is exact in a set.                      *)
THEOREM CountsCoverEntries == Spec => []CountCovers
<1>1. IInv => CountCovers
  BY DEF IInv, Counted, CountCovers
<1>. QED
  BY <1>1, Inductive, PTL

(* A third of every table is left free of entries.                         *)
THEOREM TablesNeverFill == Spec => []NeverFull
<1>1. IInv => NeverFull
  BY DEF IInv, Sized, NeverFull
<1>. QED
  BY <1>1, Inductive, PTL

-----------------------------------------------------------------------------
(* The refinement of Mapping.                                              *)

(* f gives every key of an entry of t its value, and no other key one.     *)
Shows(t, f) ==
  /\ f = [k \in DOMAIN f |-> f[k]]
  /\ \A s \in LiveSlots(t) : t.slots[s].key \in DOMAIN f /\ f[t.slots[s].key] = t.slots[s].value
  /\ \A k \in DOMAIN f : \E s \in LiveSlots(t) : t.slots[s].key = k

(* The content of a table is the only such function.                       *)
LEMMA ContentShows ==
  ASSUME NEW t, Unique(t)
  PROVE  Shows(t, Content(t))
<1>. DEFINE f == Content(t)
<1>1. DOMAIN f = {t.slots[s].key : s \in LiveSlots(t)} /\ f = [k \in DOMAIN f |-> f[k]]
  BY DEF Content
<1>2. ASSUME NEW s \in LiveSlots(t)
      PROVE  t.slots[s].key \in DOMAIN f /\ f[t.slots[s].key] = t.slots[s].value
  <2>. DEFINE r == CHOOSE x \in LiveSlots(t) : t.slots[x].key = t.slots[s].key
  <2>1. r \in LiveSlots(t) /\ t.slots[r].key = t.slots[s].key
    OBVIOUS
  <2>. HIDE DEF r
  <2>2. r = s
    BY <2>1 DEF Unique
  <2>3. f[t.slots[s].key] = t.slots[r].value
    BY DEF Content, r
  <2>. QED
    BY <1>1, <2>2, <2>3
<1>. HIDE DEF f
<1>3. \A k \in DOMAIN f : \E s \in LiveSlots(t) : t.slots[s].key = k
  BY <1>1
<1>4. Shows(t, f)
  BY <1>1, <1>2, <1>3 DEF Shows
<1>. QED
  BY <1>4 DEF f

LEMMA ShownIsContent ==
  ASSUME NEW t, Unique(t), NEW f, Shows(t, f)
  PROVE  Content(t) = f
<1>. DEFINE c == Content(t)
<1>1. Shows(t, c)
  BY ContentShows
<1>. HIDE DEF c
<1>2. DOMAIN c = DOMAIN f
  BY <1>1 DEF Shows
<1>3. \A k \in DOMAIN f : c[k] = f[k]
  BY <1>1, <1>2 DEF Shows
<1>4. c = f
  BY <1>1, <1>2, <1>3 DEF Shows
<1>. QED
  BY <1>4 DEF c

(* A table that is grown shows what it showed.                             *)
LEMMA SameContent ==
  ASSUME NEW t, Unique(t), NEW u, Unique(u), SameEntries(t, u)
  PROVE  Content(u) = Content(t)
<1>1. PICK f : f = Content(t)
  OBVIOUS
<1>2. Shows(t, f)
  BY <1>1, ContentShows
<1>3. Shows(u, f)
  BY ONLY <1>2, SameEntries(t, u) DEF Shows, SameEntries
<1>. QED
  BY <1>1, <1>3, ShownIsContent

SetTo(f, k, v) == [j \in DOMAIN f \cup {k} |-> IF j = k THEN v ELSE f[j]]

LEMMA WithContent ==
  ASSUME NEW t, Unique(t), NEW u, Unique(u), NEW k, NEW v, With(t, u, k, v)
  PROVE  Content(u) = SetTo(Content(t), k, v)
<1>1. PICK f : f = Content(t)
  OBVIOUS
<1>2. Shows(t, f)
  BY <1>1, ContentShows
<1>. DEFINE g == SetTo(f, k, v)
<1>3. DOMAIN g = DOMAIN f \cup {k} /\ g = [j \in DOMAIN g |-> g[j]] /\ g[k] = v
      /\ \A j \in DOMAIN f : j # k => g[j] = f[j]
  BY DEF SetTo
<1>4. PICK x \in LiveSlots(u) : u.slots[x].key = k /\ u.slots[x].value = v
  BY DEF With, Entry
<1>. HIDE DEF g
<1>5. ASSUME NEW s \in LiveSlots(u)
      PROVE  u.slots[s].key \in DOMAIN g /\ g[u.slots[s].key] = u.slots[s].value
  <2>1. CASE u.slots[s].key = k
    <3>1. s = x
      BY <1>4, <2>1 DEF Unique
    <3>. QED
      BY <1>3, <1>4, <3>1
  <2>2. CASE u.slots[s].key # k
    <3>1. s \in LiveSlots(t) /\ u.slots[s] = t.slots[s]
      BY <2>2 DEF With
    <3>. QED
      BY <1>2, <1>3, <2>2, <3>1 DEF Shows
  <2>. QED
    BY <2>1, <2>2
<1>6. ASSUME NEW j \in DOMAIN g  PROVE \E s \in LiveSlots(u) : u.slots[s].key = j
  <2>1. CASE j = k
    BY <1>4, <2>1
  <2>2. CASE j # k
    <3>1. PICK s \in LiveSlots(t) : t.slots[s].key = j
      BY <1>2, <1>3, <2>2 DEF Shows
    <3>. QED
      BY <2>2, <3>1 DEF With
  <2>. QED
    BY <2>1, <2>2
<1>7. Shows(u, g)
  BY <1>3, <1>5, <1>6 DEF Shows
<1>8. Content(u) = g
  BY <1>7, ShownIsContent
<1>. QED
  BY <1>1, <1>8 DEF g

LEMMA WithoutContent ==
  ASSUME NEW t, Unique(t), NEW u, Unique(u), NEW k, Without(t, u, k),
         NEW x \in LiveSlots(t), t.slots[x].key = k
  PROVE  /\ k \in DOMAIN Content(t)
         /\ Content(u) = [j \in DOMAIN Content(t) \ {k} |-> Content(t)[j]]
<1>1. PICK f : f = Content(t)
  OBVIOUS
<1>2. Shows(t, f)
  BY <1>1, ContentShows
<1>. DEFINE g == [j \in DOMAIN f \ {k} |-> f[j]]
<1>3. DOMAIN g = DOMAIN f \ {k} /\ g = [j \in DOMAIN g |-> g[j]] /\ \A j \in DOMAIN g : g[j] = f[j]
  OBVIOUS
<1>. HIDE DEF g
<1>4. ASSUME NEW s \in LiveSlots(u)
      PROVE  u.slots[s].key \in DOMAIN g /\ g[u.slots[s].key] = u.slots[s].value
  BY <1>2, <1>3 DEF Shows, Without
<1>5. ASSUME NEW j \in DOMAIN g  PROVE \E s \in LiveSlots(u) : u.slots[s].key = j
  <2>1. PICK s \in LiveSlots(t) : t.slots[s].key = j
    BY <1>2, <1>3 DEF Shows
  <2>. QED
    BY <1>3, <2>1 DEF Without
<1>6. Shows(u, g)
  BY <1>3, <1>4, <1>5 DEF Shows
<1>7. Content(u) = g
  BY <1>6, ShownIsContent
<1>. QED
  BY <1>1, <1>2, <1>7 DEF g, Shows

(* A step of the table is the step of the map, for a key that is stored    *)
(* and for one that is removed.                                            *)
LEMMA StoreRefines ==
  ASSUME IInv, IInv', NEW k \in Keys, NEW v, With(Roomy(table), table', k, v)
  PROVE  M!Set(k, v)
<1>1. PICK t, u, r, kd : t = table /\ u = table' /\ r = Roomy(t) /\ kd = kind
  OBVIOUS
<1>2. Kept(kd, t) /\ Unique(t)
  BY <1>1 DEF IInv, Kept, Sound
<1>3. Unique(u)
  BY <1>1 DEF IInv, Sound
<1>4. Unique(r) /\ SameEntries(t, r)
  <2>1. Sound(r) /\ SameEntries(t, r)
    BY ONLY <1>1, <1>2, RoomyIs
  <2>. QED
    BY <2>1 DEF Sound
<1>5. With(r, u, k, v)
  BY <1>1
<1>6. Content(r) = Content(t)
  BY ONLY <1>2, <1>4, SameContent
<1>7. Content(u) = SetTo(Content(r), k, v)
  BY ONLY <1>3, <1>4, <1>5, WithContent
<1>8. Content(table)' = [j \in DOMAIN Content(table) \cup {k} |->
                           IF j = k THEN v ELSE Content(table)[j]]
  <2>1. Content(table)' = Content(u)
    BY <1>1 DEF Content, LiveSlots, Slots
  <2>. QED
    BY ONLY <1>1, <1>6, <1>7, <2>1 DEF SetTo
<1>. QED
  BY <1>8 DEF M!Set

LEMMA PopRefines ==
  ASSUME IInv, NEW k \in Keys, Pop(k)
  PROVE  M!Pop(k)
<1>1. IInv' /\ Without(table, table', k)
  BY PopIs
<1>2. PICK t, u : t = table /\ u = table'
  OBVIOUS
<1>3. Sound(t) /\ Unique(t) /\ Found(t, k)
  BY <1>2 DEF IInv, Sound, Pop
<1>4. Unique(u) /\ Without(t, u, k)
  BY <1>1, <1>2 DEF IInv, Sound
<1>5. PICK x \in LiveSlots(t) : t.slots[x].key = k
  BY <1>3, FoundIs
<1>6. /\ k \in DOMAIN Content(t)
      /\ Content(u) = [j \in DOMAIN Content(t) \ {k} |-> Content(t)[j]]
  BY ONLY <1>3, <1>4, <1>5, WithoutContent
<1>7. k \in DOMAIN Content(table)
      /\ Content(table)' = [j \in DOMAIN Content(table) \ {k} |-> Content(table)[j]]
  <2>1. Content(table)' = Content(u)
    BY <1>2 DEF Content, LiveSlots, Slots
  <2>. QED
    BY ONLY <1>2, <1>6, <2>1
<1>. QED
  BY <1>7 DEF M!Pop

LEMMA InitShowsNothing == Init => M!Init
<1>. SUFFICES ASSUME Init  PROVE M!Init
  OBVIOUS
<1>1. LiveSlots(table) = {}
  BY DEF Init, LiveSlots, Slots
<1>. QED
  BY <1>1 DEF M!Init, Content

LEMMA StepRefines == IInv => (kind = "set" \/ Unused(table) => Refines)
<1>. SUFFICES ASSUME IInv, kind = "set" \/ Unused(table)  PROVE Refines
  OBVIOUS
<1>1. ASSUME NEW k \in Keys, Pop(k)  PROVE M!Pop(k)
  BY <1>1, PopRefines
<1>2. ASSUME NEW k \in Keys, Add(k)  PROVE M!Set(k, NoValue)
  BY <1>2, AddIs, StoreRefines
<1>3. ASSUME NEW k \in Keys, NEW v \in Values, SetCopy(k, v)  PROVE M!Set(k, v)
  <2>1. Unused(table)
    BY <1>3 DEF SetCopy
  <2>. QED
    BY <1>3, <2>1, SetCopyIs, StoreRefines
<1>. QED
  BY <1>1, <1>2, <1>3 DEF Refines

(* A set is always the set of the elements added and not removed, and a    *)
(* dict with a slot left that was never used is the map of its keys.       *)
THEOREM TableIsMap == Spec => ActsAsMap
<1>1. Init => M!Init
  BY InitShowsNothing
<1>2. IInv => [kind = "set" \/ Unused(table) => Refines]_vars
  BY StepRefines
<1>. QED
  BY <1>1, <1>2, Inductive, PTL DEF Spec, ActsAsMap
=============================================================================
