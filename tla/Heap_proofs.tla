----------------------------- MODULE Heap_proofs -----------------------------
(***************************************************************************)
(* Proofs of the properties of Heap, for every number of objects, items    *)
(* and references, and for every reach of the containment check.           *)
(*                                                                         *)
(* An operation changes one object, or makes one, and retains some; what   *)
(* it does to the references and to the bytes is read off that one object. *)
(* The lemmas therefore speak of a heap before and after, as constants,    *)
(* and an action is put together from them.                                *)
(***************************************************************************)
EXTENDS Heap, Iteration, FiniteSetTheorems, SequenceTheorems, TLAPS

-----------------------------------------------------------------------------
(* Lemmas about how often a value is in a sequence.                        *)

One(x, v) == IF x = v THEN 1 ELSE 0
Places(x, s) == {i \in DOMAIN s : s[i] = x}

LEMMA OccurrencesIs == \A x, s : Occurrences(x, s) = Cardinality(Places(x, s))
BY DEF Occurrences, Places

(* A set with another element or without it.                               *)
LEMMA OneMore ==
  ASSUME NEW P, IsFiniteSet(P), NEW n, n \notin P, NEW x, NEW v,
         NEW Q, Q = IF x = v THEN P \cup {n} ELSE P
  PROVE  Cardinality(Q) = Cardinality(P) + One(x, v) /\ Cardinality(P) \in Nat
<1>1. Cardinality(P) \in Nat
  BY FS_CardinalityType
<1>2. CASE x = v
  <2>1. Cardinality(P \cup {n}) = Cardinality(P) + 1
    BY FS_AddElement
  <2>. QED
    BY <1>1, <1>2, <2>1 DEF One
<1>3. CASE x # v
  BY <1>1, <1>3 DEF One
<1>. QED
  BY <1>2, <1>3

LEMMA OccurrencesType ==
  ASSUME NEW S, NEW s \in Seq(S), NEW x
  PROVE  /\ IsFiniteSet(Places(x, s)) /\ Occurrences(x, s) = Cardinality(Places(x, s))
         /\ Occurrences(x, s) \in Nat
         /\ (Occurrences(x, s) = 0) <=> \A i \in DOMAIN s : s[i] # x
<1>1. DOMAIN s = 1..Len(s) /\ Len(s) \in Nat
  OBVIOUS
<1>2. IsFiniteSet(DOMAIN s)
  BY <1>1, FS_Interval
<1>3. IsFiniteSet(Places(x, s))
  BY <1>2, FS_Subset DEF Places
<1>. QED
  BY <1>3, FS_CardinalityType, FS_EmptySet DEF Places, Occurrences

LEMMA OccurrencesEmpty == \A x : Occurrences(x, <<>>) = 0
<1>. SUFFICES ASSUME NEW x  PROVE Occurrences(x, <<>>) = 0
  OBVIOUS
<1>1. Places(x, <<>>) = {}
  BY DEF Places
<1>. QED
  BY <1>1, FS_EmptySet DEF Occurrences, Places

LEMMA OccurrencesOne == \A x, v : Occurrences(x, <<v>>) = One(x, v)
<1>. SUFFICES ASSUME NEW x, NEW v  PROVE Occurrences(x, <<v>>) = One(x, v)
  OBVIOUS
<1>1. Places(x, <<v>>) = IF x = v THEN {1} ELSE {}
  BY DEF Places
<1>. QED
  BY <1>1, FS_EmptySet, FS_Singleton DEF Occurrences, Places, One

(* Two sequences that differ at one place.                                 *)
LEMMA OccurrencesSet ==
  ASSUME NEW S, NEW s \in Seq(S), NEW i \in DOMAIN s, NEW v, NEW x
  PROVE  Occurrences(x, [s EXCEPT ![i] = v]) + One(x, s[i]) = Occurrences(x, s) + One(x, v)
<1>. DEFINE u == [s EXCEPT ![i] = v]
            P == Places(x, s) \ {i}
<1>1. IsFiniteSet(P) /\ i \notin P /\ Cardinality(P) \in Nat
  BY OccurrencesType, FS_RemoveElement, FS_CardinalityType
<1>2. Places(x, s) = IF x = s[i] THEN P \cup {i} ELSE P
  <2>1. i \in Places(x, s) <=> x = s[i]
    BY DEF Places
  <2>. QED
    BY <2>1
<1>3. Places(x, u) = IF x = v THEN P \cup {i} ELSE P
  <2>1. DOMAIN u = DOMAIN s /\ u[i] = v /\ \A j \in DOMAIN s : j # i => u[j] = s[j]
    OBVIOUS
  <2>2. i \in Places(x, u) <=> x = v
    BY <2>1 DEF Places
  <2>. HIDE DEF u
  <2>3. Places(x, u) \ {i} = P
    BY <2>1 DEF Places
  <2>. QED
    BY <2>2, <2>3
<1>. HIDE DEF P, u
<1>5. Cardinality(Places(x, s)) = Cardinality(P) + One(x, s[i])
  BY ONLY <1>1, <1>2, OneMore
<1>6. Cardinality(Places(x, u)) = Cardinality(P) + One(x, v)
  BY ONLY <1>1, <1>3, OneMore
<1>7. One(x, v) \in Nat /\ One(x, s[i]) \in Nat
  BY DEF One
<1>. QED
  BY <1>1, <1>5, <1>6, <1>7, OccurrencesIs DEF u

LEMMA OccurrencesAppend ==
  ASSUME NEW S, NEW s \in Seq(S), NEW v, NEW x
  PROVE  Occurrences(x, Append(s, v)) = Occurrences(x, s) + One(x, v)
<1>. DEFINE u == Append(s, v)
            P == Places(x, s)
            n == Len(s) + 1
<1>1. IsFiniteSet(P) /\ n \notin P /\ Cardinality(P) \in Nat /\ Occurrences(x, s) = Cardinality(P)
  <2>1. n \notin P
    BY DEF Places
  <2>. QED
    BY <2>1, OccurrencesType
<1>2. Places(x, u) = IF x = v THEN P \cup {n} ELSE P
  <2>1. DOMAIN u = DOMAIN s \cup {n} /\ u[n] = v /\ \A i \in DOMAIN s : u[i] = s[i]
    OBVIOUS
  <2>. HIDE DEF u, n
  <2>. QED
    BY <2>1 DEF Places
<1>. HIDE DEF P, u, n
<1>3. Cardinality(Places(x, u)) = Cardinality(P) + One(x, v)
  BY ONLY <1>1, <1>2, OneMore
<1>. QED
  BY <1>1, <1>3, OccurrencesIs DEF u

LEMMA OccurrencesLast ==
  ASSUME NEW S, NEW s \in Seq(S), s # <<>>, NEW x
  PROVE  Occurrences(x, SubSeq(s, 1, Len(s) - 1)) + One(x, s[Len(s)]) = Occurrences(x, s)
<1>. DEFINE u == SubSeq(s, 1, Len(s) - 1)
<1>1. u \in Seq(S) /\ s = Append(u, s[Len(s)])
  <2>1. Len(s) \in Nat /\ Len(s) > 0 /\ s[Len(s)] \in S /\ u \in Seq(S)
    OBVIOUS
  <2>2. SubSeq(s, 1, Len(s)) = u \o <<s[Len(s)]>>
    BY <2>1, SubSeqRecursiveSecond
  <2>. QED
    BY <2>1, <2>2, SubSeqFull, AppendIsConcat
<1>. HIDE DEF u
<1>2. Occurrences(x, Append(u, s[Len(s)])) = Occurrences(x, u) + One(x, s[Len(s)])
  BY <1>1, OccurrencesAppend
<1>. QED
  BY <1>1, <1>2 DEF u

LEMMA OccurrencesConcat ==
  ASSUME NEW S, NEW s \in Seq(S), NEW t \in Seq(S), NEW x
  PROVE  Occurrences(x, s \o t) = Occurrences(x, s) + Occurrences(x, t)
<1>. DEFINE u == s \o t
            n == Len(s)
            P == Places(x, s)
            Q == Places(x, t)
            R == {i \in (n + 1)..(n + Len(t)) : t[i - n] = x}
<1>1. n \in Nat /\ Len(t) \in Nat /\ DOMAIN s = 1..n /\ DOMAIN t = 1..Len(t)
      /\ DOMAIN u = 1..(n + Len(t)) /\ (\A i \in 1..n : u[i] = s[i])
      /\ \A i \in (n + 1)..(n + Len(t)) : u[i] = t[i - n]
  OBVIOUS
<1>. HIDE DEF u, n
<1>2. Places(x, u) = P \cup R /\ P \cap R = {}
  BY <1>1 DEF Places
<1>3. IsFiniteSet(P) /\ IsFiniteSet(Q)
  BY OccurrencesType
<1>4. IsFiniteSet(R) /\ Cardinality(R) = Cardinality(Q)
  <2>. DEFINE f == [j \in Q |-> j + n]
  <2>1. f \in Bijection(Q, R)
    <3>1. Q \in SUBSET Nat /\ \A j \in Q : j \in 1..Len(t) /\ t[j] = x
      BY <1>1 DEF Places
    <3>2. \A j \in Q : j + n \in R
      BY <1>1, <3>1
    <3>3. f \in [Q -> R]
      BY <3>2
    <3>4. \A a, b \in Q : f[a] = f[b] => a = b
      BY <1>1, <3>1
    <3>5. \A i \in R : \E j \in Q : f[j] = i
      <4>1. \A i \in R : i - n \in Q /\ (i - n) + n = i
        BY <1>1 DEF Places
      <4>. QED
        BY <4>1
    <3>. HIDE DEF f, Q, R
    <3>6. f \in Injection(Q, R)
      BY <3>3, <3>4 DEF Injection, IsInjective
    <3>7. f \in Surjection(Q, R)
      BY <3>3, <3>5 DEF Surjection
    <3>. QED
      BY <3>6, <3>7 DEF Bijection
  <2>. HIDE DEF f, Q, R
  <2>2. ExistsBijection(Q, R)
    BY <2>1 DEF ExistsBijection
  <2>. QED
    BY <1>3, <2>2, FS_Bijection
<1>. HIDE DEF P, Q, R
<1>5. Cardinality(P \cup R) = Cardinality(P) + Cardinality(R)
  <2>1. Cardinality(P \cap R) = 0 /\ Cardinality(P) \in Nat /\ Cardinality(R) \in Nat
    BY <1>2, <1>3, <1>4, FS_EmptySet, FS_CardinalityType
  <2>2. Cardinality(P \cup R) = Cardinality(P) + Cardinality(R) - Cardinality(P \cap R)
    BY <1>3, <1>4, FS_Union
  <2>. QED
    BY <2>1, <2>2
<1>. QED
  BY <1>2, <1>4, <1>5 DEF Occurrences, Places, P, Q, u

(* The head of a sequence and the rest of it.                              *)
LEMMA OccurrencesHead ==
  ASSUME NEW S, NEW s \in Seq(S), s # <<>>, NEW x
  PROVE  Occurrences(x, s) = One(x, Head(s)) + Occurrences(x, Tail(s))
<1>1. s = <<Head(s)>> \o Tail(s) /\ <<Head(s)>> \in Seq(S) /\ Tail(s) \in Seq(S)
  OBVIOUS
<1>2. PICK a, b : a = <<Head(s)>> /\ b = Tail(s)
  OBVIOUS
<1>3. Occurrences(x, a \o b) = Occurrences(x, a) + Occurrences(x, b)
  BY <1>1, <1>2, OccurrencesConcat
<1>4. Occurrences(x, a) = One(x, Head(s))
  BY <1>2, OccurrencesOne
<1>. QED
  BY <1>1, <1>2, <1>3, <1>4

-----------------------------------------------------------------------------
(* Lemmas about the pairs that make up the references and the bytes.       *)

Finite(f) == \A o \in Objects : IsFiniteSet(f[o])

(* The pairs of one object, and those of the others.                       *)
LEMMA PairsSplit ==
  ASSUME NEW f, Finite(f), NEW p \in Objects,
         NEW rest, rest = UNION {{o} \X f[o] : o \in Objects \ {p}}
  PROVE  /\ IsFiniteSet(rest) /\ Cardinality(rest) \in Nat /\ Cardinality(f[p]) \in Nat
         /\ Cardinality(Pairs(f)) = Cardinality(rest) + Cardinality(f[p])
<1>. DEFINE Q == Objects \ {p}
            T == {{o} \X f[o] : o \in Q}
            F == [o \in Q |-> {o} \X f[o]]
            own == {p} \X f[p]
<1>1. \A o \in Objects : IsFiniteSet({o} \X f[o])
  BY FS_Singleton, FS_Product DEF Finite
<1>2. IsFiniteSet(T)
  <2>1. IsFiniteSet(Q)
    BY BoundsAssumption, FS_Subset
  <2>2. F \in [Q -> T] /\ \A t \in T : \E o \in Q : F[o] = t
    OBVIOUS
  <2>. HIDE DEF F, T, Q
  <2>3. F \in Surjection(Q, T)
    BY <2>2 DEF Surjection
  <2>. QED
    BY <2>1, <2>3, FS_Surjection
<1>3. \A t \in T : IsFiniteSet(t)
  BY <1>1
<1>4. rest = UNION T
  OBVIOUS
<1>. HIDE DEF T
<1>5. IsFiniteSet(rest)
  BY <1>2, <1>3, <1>4, FS_UNION
<1>6. IsFiniteSet(own) /\ Cardinality(own) = Cardinality(f[p]) /\ Cardinality(f[p]) \in Nat
  <2>1. IsFiniteSet({p}) /\ Cardinality({p}) = 1 /\ IsFiniteSet(f[p])
    BY FS_Singleton DEF Finite
  <2>2. Cardinality(f[p]) \in Nat
    BY <2>1, FS_CardinalityType
  <2>3. IsFiniteSet(own) /\ Cardinality(own) = 1 * Cardinality(f[p])
    BY <2>1, FS_Product
  <2>. QED
    BY <2>2, <2>3
<1>7. Pairs(f) = rest \cup own /\ rest \cap own = {}
  BY DEF Pairs
<1>. HIDE DEF own
<1>8. Cardinality(rest \cup own) = Cardinality(rest) + Cardinality(own)
  <2>1. Cardinality(rest \cap own) = 0 /\ Cardinality(rest) \in Nat
    BY <1>5, <1>7, FS_EmptySet, FS_CardinalityType
  <2>2. Cardinality(rest \cup own) = Cardinality(rest) + Cardinality(own) - Cardinality(rest \cap own)
    BY <1>5, <1>6, FS_Union
  <2>. QED
    BY <1>6, <2>1, <2>2
<1>. QED
  BY <1>5, <1>6, <1>7, <1>8, FS_CardinalityType

(* When only the pairs of p change, the number changes by theirs.          *)
LEMMA PairsChange ==
  ASSUME NEW f, Finite(f), NEW g, Finite(g), NEW p \in Objects,
         \A o \in Objects : o # p => f[o] = g[o]
  PROVE  /\ Cardinality(Pairs(f)) \in Nat /\ Cardinality(Pairs(g)) \in Nat
         /\ Cardinality(f[p]) \in Nat /\ Cardinality(g[p]) \in Nat
         /\ Cardinality(f[p]) <= Cardinality(Pairs(f))
         /\ Cardinality(Pairs(g)) + Cardinality(f[p]) = Cardinality(Pairs(f)) + Cardinality(g[p])
<1>1. PICK rest : rest = UNION {{o} \X f[o] : o \in Objects \ {p}}
  OBVIOUS
<1>2. rest = UNION {{o} \X g[o] : o \in Objects \ {p}}
  BY <1>1
<1>3. /\ Cardinality(rest) \in Nat /\ Cardinality(f[p]) \in Nat
      /\ Cardinality(Pairs(f)) = Cardinality(rest) + Cardinality(f[p])
  BY ONLY <1>1, Finite(f), p \in Objects, PairsSplit
<1>4. /\ Cardinality(g[p]) \in Nat
      /\ Cardinality(Pairs(g)) = Cardinality(rest) + Cardinality(g[p])
  BY ONLY <1>2, Finite(g), p \in Objects, PairsSplit
<1>. QED
  BY <1>3, <1>4

-----------------------------------------------------------------------------
(* Heaps: the objects and their shape.                                     *)

Obj ==
  [kind : Kinds \cup {"freed"}, items : Seq(Objects), capacity : Nat, count : Nat,
   block : Nat, current : Nat, stop : Nat]

Heaps == [Objects -> Obj]

(* The references to x in the items of live objects, all and those of p.   *)
ItemSets(h, x) ==
  [p \in Objects |-> {i \in DOMAIN h[p].items : h[p].count > 0 /\ h[p].items[i] = x}]
In(h, x) == Cardinality(Pairs(ItemSets(h, x)))
Own(h, p, x) == IF h[p].count > 0 THEN Occurrences(x, h[p].items) ELSE 0

(* The bytes of a kind, all and those of p.                                *)
BlockSets(h, kind) == [p \in Objects |-> IF h[p].kind = kind THEN 0..h[p].block ELSE {}]
Bytes(h, kind) == Cardinality(Pairs(BlockSets(h, kind)))
Size(h, p, kind) == IF h[p].kind = kind THEN h[p].block + 1 ELSE 0

LEMMA ObjFacts ==
  ASSUME NEW h \in Heaps, NEW o \in Objects
  PROVE  /\ h[o] \in Obj /\ h[o].kind \in Kinds \cup {"freed"} /\ h[o].items \in Seq(Objects)
         /\ h[o].capacity \in Nat /\ h[o].count \in Nat /\ h[o].block \in Nat
         /\ h[o].current \in Nat /\ h[o].stop \in Nat
         /\ DOMAIN h[o].items = 1..Len(h[o].items) /\ Len(h[o].items) \in Nat
<1>1. h[o] \in Obj
  BY DEF Heaps
<1>. QED
  BY <1>1 DEF Obj

(* Liveness and items of q are the same in both heaps.                     *)
SameItems(h, g, q) == g[q].items = h[q].items /\ (g[q].count > 0 <=> h[q].count > 0)

LEMMA ItemSetsFacts ==
  ASSUME NEW h \in Heaps, NEW x
  PROVE  /\ Finite(ItemSets(h, x))
         /\ \A p \in Objects : /\ Cardinality(ItemSets(h, x)[p]) = Own(h, p, x)
                               /\ Own(h, p, x) \in Nat
<1>1. ASSUME NEW p \in Objects
      PROVE  /\ IsFiniteSet(ItemSets(h, x)[p])
             /\ Cardinality(ItemSets(h, x)[p]) = Own(h, p, x) /\ Own(h, p, x) \in Nat
  <2>1. ItemSets(h, x)[p] = IF h[p].count > 0 THEN Places(x, h[p].items) ELSE {}
    BY DEF ItemSets, Places
  <2>2. h[p].items \in Seq(Objects)
    BY ObjFacts
  <2>3. IsFiniteSet(Places(x, h[p].items)) /\ Occurrences(x, h[p].items) \in Nat
        /\ Occurrences(x, h[p].items) = Cardinality(Places(x, h[p].items))
    BY <2>2, OccurrencesType
  <2>. QED
    BY <2>1, <2>3, FS_EmptySet DEF Own
<1>. QED
  BY <1>1 DEF Finite

LEMMA InChanges ==
  ASSUME NEW h \in Heaps, NEW g \in Heaps, NEW p \in Objects, NEW x,
         \A q \in Objects : q # p => SameItems(h, g, q)
  PROVE  /\ In(h, x) \in Nat /\ In(g, x) \in Nat /\ Own(h, p, x) \in Nat /\ Own(g, p, x) \in Nat
         /\ Own(h, p, x) <= In(h, x)
         /\ In(g, x) + Own(h, p, x) = In(h, x) + Own(g, p, x)
<1>1. \A q \in Objects : q # p => ItemSets(h, x)[q] = ItemSets(g, x)[q]
  BY DEF SameItems, ItemSets
<1>2. /\ Finite(ItemSets(h, x)) /\ Finite(ItemSets(g, x))
      /\ Cardinality(ItemSets(h, x)[p]) = Own(h, p, x)
      /\ Cardinality(ItemSets(g, x)[p]) = Own(g, p, x)
  BY ItemSetsFacts
<1>3. PICK f1, f2 : f1 = ItemSets(h, x) /\ f2 = ItemSets(g, x)
  OBVIOUS
<1>4. /\ Cardinality(Pairs(f1)) \in Nat /\ Cardinality(Pairs(f2)) \in Nat
      /\ Cardinality(f1[p]) \in Nat /\ Cardinality(f2[p]) \in Nat
      /\ Cardinality(f1[p]) <= Cardinality(Pairs(f1))
      /\ Cardinality(Pairs(f2)) + Cardinality(f1[p]) = Cardinality(Pairs(f1)) + Cardinality(f2[p])
  BY ONLY <1>1, <1>2, <1>3, p \in Objects, PairsChange
<1>. QED
  BY <1>2, <1>3, <1>4 DEF In

LEMMA InSame ==
  ASSUME NEW h \in Heaps, NEW g \in Heaps, NEW x,
         \A q \in Objects : SameItems(h, g, q)
  PROVE  In(g, x) = In(h, x)
<1>1. ItemSets(h, x) = ItemSets(g, x)
  BY DEF SameItems, ItemSets
<1>. QED
  BY <1>1 DEF In

LEMMA InType ==
  ASSUME NEW h \in Heaps, NEW p \in Objects, NEW x
  PROVE  In(h, x) \in Nat /\ Own(h, p, x) \in Nat /\ Own(h, p, x) <= In(h, x)
<1>1. \A q \in Objects : SameItems(h, h, q)
  BY DEF SameItems
<1>. QED
  BY <1>1, InChanges

LEMMA BlockSetsFacts ==
  ASSUME NEW h \in Heaps, NEW kind
  PROVE  /\ Finite(BlockSets(h, kind))
         /\ \A p \in Objects : /\ Cardinality(BlockSets(h, kind)[p]) = Size(h, p, kind)
                               /\ Size(h, p, kind) \in Nat
<1>1. ASSUME NEW p \in Objects
      PROVE  /\ IsFiniteSet(BlockSets(h, kind)[p])
             /\ Cardinality(BlockSets(h, kind)[p]) = Size(h, p, kind) /\ Size(h, p, kind) \in Nat
  <2>1. BlockSets(h, kind)[p] = IF h[p].kind = kind THEN 0..h[p].block ELSE {}
    BY DEF BlockSets
  <2>2. h[p].block \in Nat
    BY ObjFacts
  <2>3. IsFiniteSet(0..h[p].block) /\ Cardinality(0..h[p].block) = h[p].block + 1
    BY <2>2, FS_Interval
  <2>. QED
    BY <2>1, <2>2, <2>3, FS_EmptySet DEF Size
<1>. QED
  BY <1>1 DEF Finite

LEMMA BytesChange ==
  ASSUME NEW h \in Heaps, NEW g \in Heaps, NEW p \in Objects, NEW kind,
         \A q \in Objects : q # p => g[q].kind = h[q].kind /\ g[q].block = h[q].block
  PROVE  /\ Bytes(h, kind) \in Nat /\ Bytes(g, kind) \in Nat
         /\ Size(h, p, kind) \in Nat /\ Size(g, p, kind) \in Nat
         /\ Size(h, p, kind) <= Bytes(h, kind)
         /\ Bytes(g, kind) + Size(h, p, kind) = Bytes(h, kind) + Size(g, p, kind)
<1>1. \A q \in Objects : q # p => BlockSets(h, kind)[q] = BlockSets(g, kind)[q]
  BY DEF BlockSets
<1>2. /\ Finite(BlockSets(h, kind)) /\ Finite(BlockSets(g, kind))
      /\ Cardinality(BlockSets(h, kind)[p]) = Size(h, p, kind)
      /\ Cardinality(BlockSets(g, kind)[p]) = Size(g, p, kind)
  BY BlockSetsFacts
<1>3. PICK f1, f2 : f1 = BlockSets(h, kind) /\ f2 = BlockSets(g, kind)
  OBVIOUS
<1>4. /\ Cardinality(Pairs(f1)) \in Nat /\ Cardinality(Pairs(f2)) \in Nat
      /\ Cardinality(f1[p]) \in Nat /\ Cardinality(f2[p]) \in Nat
      /\ Cardinality(f1[p]) <= Cardinality(Pairs(f1))
      /\ Cardinality(Pairs(f2)) + Cardinality(f1[p]) = Cardinality(Pairs(f1)) + Cardinality(f2[p])
  BY ONLY <1>1, <1>2, <1>3, p \in Objects, PairsChange
<1>. QED
  BY <1>2, <1>3, <1>4 DEF Bytes

LEMMA BytesSame ==
  ASSUME NEW h \in Heaps, NEW g \in Heaps, NEW kind,
         \A q \in Objects : g[q].kind = h[q].kind /\ g[q].block = h[q].block
  PROVE  Bytes(g, kind) = Bytes(h, kind)
<1>1. BlockSets(h, kind) = BlockSets(g, kind)
  BY DEF BlockSets
<1>. QED
  BY <1>1 DEF Bytes

-----------------------------------------------------------------------------
(* Lemmas about the changes an operation makes to a heap.                  *)

(* What the block of an object is and how many items it has.               *)
ShapedObject(r) ==
  /\ r.kind = "freed" => r = Freed
  /\ Len(r.items) <= MaxItems
  /\ r.block = IF r.kind = "list" THEN r.capacity
               ELSE IF r.kind = "tuple" THEN Len(r.items) ELSE 0
  /\ r.kind = "range" => Len(r.items) = 1
Shaped(h) == \A o \in Objects : ShapedObject(h[o])

LEMMA FreedIs ==
  /\ Freed \in Obj /\ ShapedObject(Freed)
  /\ Freed.kind = "freed" /\ Freed.items = <<>> /\ Freed.count = 0 /\ Freed.block = 0
<1>1. Freed \in Obj
  BY DEF Freed, Obj
<1>2. Freed.kind = "freed" /\ Freed.items = <<>> /\ Freed.count = 0 /\ Freed.block = 0
  BY DEF Freed
<1>3. Len(Freed.items) <= MaxItems
  BY <1>2, BoundsAssumption
<1>. QED
  BY <1>1, <1>2, <1>3 DEF ShapedObject

LEMMA FreedCount ==
  ASSUME NEW h, Shaped(h), NEW o \in Objects, h[o].count > 0
  PROVE  h[o].kind # "freed"
BY FreedIs DEF Shaped, ShapedObject

(* g is h but for object o, which is r.                                    *)
Put(h, g, o, r) == g \in Heaps /\ g[o] = r /\ \A x \in Objects : x # o => g[x] = h[x]

LEMMA PutIs ==
  ASSUME NEW h \in Heaps, NEW o \in Objects, NEW r \in Obj
  PROVE  Put(h, [h EXCEPT ![o] = r], o, r)
BY DEF Put, Heaps

(* The objects are alike but for their counts.                             *)
Alike(a, b) ==
  /\ b.kind = a.kind /\ b.items = a.items /\ b.capacity = a.capacity
  /\ b.block = a.block /\ b.current = a.current /\ b.stop = a.stop

LEMMA AlikeShaped ==
  ASSUME NEW a, NEW b, Alike(a, b), ShapedObject(a), b.kind # "freed"
  PROVE  ShapedObject(b)
BY DEF Alike, ShapedObject

Alive(h, items) == \A i \in DOMAIN items : h[items[i]].count > 0

Grew(h, g, x, n) ==
  Alike(h[x], g[x]) /\ g[x].count = h[x].count + n /\ (g[x].count > 0 <=> h[x].count > 0)

(* Objects that are alive get another reference for each place in items.   *)
RetainedTo(h, g, items) ==
  g \in Heaps /\ Shaped(g) /\ \A x \in Objects : Grew(h, g, x, Occurrences(x, items))

LEMMA RetainedIs ==
  ASSUME NEW h \in Heaps, Shaped(h), NEW items \in Seq(Objects), Alive(h, items)
  PROVE  RetainedTo(h, Retained(h, items), items)
<1>. DEFINE g == Retained(h, items)
<1>1. ASSUME NEW x \in Objects
      PROVE  g[x] \in Obj /\ Grew(h, g, x, Occurrences(x, items)) /\ ShapedObject(g[x])
  <2>1. Occurrences(x, items) \in Nat /\ (Occurrences(x, items) # 0 => h[x].count > 0)
    BY OccurrencesType DEF Alive
  <2>2. PICK n \in Nat : n = Occurrences(x, items)
    BY <2>1
  <2>3. g[x] = [h[x] EXCEPT !.count = @ + n]
    BY <2>2 DEF Retained
  <2>4. h[x] \in Obj /\ h[x].count \in Nat
    BY ObjFacts
  <2>. HIDE DEF g
  <2>5. g[x] \in Obj
    BY <2>3, <2>4, SMTT(60) DEF Obj
  <2>6. Alike(h[x], g[x]) /\ g[x].count = h[x].count + n
    BY <2>3, <2>4 DEF Obj, Alike
  <2>7. ShapedObject(g[x])
    <3>1. CASE n = 0
      <4>1. g[x] = h[x]
        BY <2>3, <2>4, <3>1 DEF Obj
      <4>. QED
        BY <4>1 DEF Shaped
    <3>2. CASE n # 0
      <4>1. h[x].kind # "freed"
        BY <2>1, <2>2, <3>2, FreedCount
      <4>. QED
        BY <2>6, <4>1, AlikeShaped DEF Shaped, Alike
    <3>. QED
      BY <3>1, <3>2
  <2>. QED
    BY <2>1, <2>2, <2>4, <2>5, <2>6, <2>7 DEF Grew
<1>2. g \in Heaps
  <2>1. g = [x \in Objects |-> g[x]]
    BY DEF Retained
  <2>. HIDE DEF g
  <2>. QED
    BY <1>1, <2>1 DEF Heaps
<1>. QED
  BY <1>1, <1>2 DEF RetainedTo, Shaped

(* What an object may be made with.                                        *)
Fits(kind, items, capacity) ==
  /\ kind \in Kinds /\ items \in Seq(Objects) /\ Len(items) <= MaxItems /\ capacity \in Nat
  /\ \/ kind = "list"
     \/ kind = "tuple" /\ capacity = Len(items)
     \/ kind = "string" /\ capacity = 0
     \/ kind = "range" /\ capacity = 0 /\ Len(items) = 1

(* g is h with a new object o, which refers to its items.                  *)
MadeTo(h, g, o, kind, items, capacity) ==
  /\ g \in Heaps /\ Shaped(g) /\ Fits(kind, items, capacity) /\ h[o] = Freed
  /\ g[o].kind = kind /\ g[o].items = items /\ g[o].count = 1 /\ g[o].block = capacity
  /\ Occurrences(o, items) = 0 /\ Alive(h, items)
  /\ \A x \in Objects : x # o => Grew(h, g, x, Occurrences(x, items))

LEMMA MadeIs ==
  ASSUME NEW h \in Heaps, Shaped(h), NEW o \in Objects, h[o].kind = "freed",
         NEW kind, NEW items, NEW capacity, Fits(kind, items, capacity), Alive(h, items)
  PROVE  MadeTo(h, Made(h, o, kind, items, capacity), o, kind, items, capacity)
<1>. DEFINE g == Made(h, o, kind, items, capacity)
<1>1. PICK r : r = [kind |-> kind, items |-> items, capacity |-> capacity, count |-> 1,
                    block |-> capacity, current |-> 0, stop |-> 0]
  OBVIOUS
<1>2. PICK m : m = Retained(h, items)
  OBVIOUS
<1>3. g = [m EXCEPT ![o] = r]
  BY <1>1, <1>2 DEF Made
<1>. HIDE DEF g
<1>4. items \in Seq(Objects) /\ kind \in Kinds
  BY DEF Fits
<1>5. RetainedTo(h, m, items)
  BY <1>2, <1>4, RetainedIs
<1>6. r \in Obj
  BY <1>1 DEF Obj, Fits
<1>7. r.kind = kind /\ r.items = items /\ r.count = 1 /\ r.block = capacity /\ r.capacity = capacity
  BY <1>1
<1>8. ShapedObject(r)
  BY <1>7 DEF ShapedObject, Fits, Kinds
<1>9. Put(m, g, o, r)
  <2>1. m \in Heaps
    BY <1>5 DEF RetainedTo
  <2>. QED
    BY ONLY <1>3, <1>6, <2>1, o \in Objects, PutIs
<1>10. h[o] = Freed /\ h[o].count = 0
  BY FreedIs DEF Shaped, ShapedObject
<1>11. Occurrences(o, items) = 0
  BY <1>4, <1>10, OccurrencesType DEF Alive
<1>12. \A x \in Objects : x # o => Grew(h, g, x, Occurrences(x, items))
  BY <1>5, <1>9 DEF RetainedTo, Put, Grew
<1>13. Shaped(g)
  BY <1>5, <1>8, <1>9 DEF RetainedTo, Put, Shaped
<1>14. MadeTo(h, g, o, kind, items, capacity)
  BY <1>7, <1>9, <1>10, <1>11, <1>12, <1>13 DEF MadeTo, Put
<1>. QED
  BY <1>14 DEF g

(* The references and bytes that come with it.                             *)
LEMMA MadeRefers ==
  ASSUME NEW h \in Heaps, NEW g, NEW o \in Objects, NEW kind, NEW items, NEW capacity,
         MadeTo(h, g, o, kind, items, capacity), NEW x, NEW k
  PROVE  /\ In(g, x) = In(h, x) + Occurrences(x, items)
         /\ In(h, x) \in Nat /\ Occurrences(x, items) \in Nat
         /\ Bytes(g, k) = Bytes(h, k) + (IF k = kind THEN 1 + capacity ELSE 0) \/ k = "freed"
<1>1. g \in Heaps /\ items \in Seq(Objects) /\ capacity \in Nat /\ kind \in Kinds
      /\ h[o].count = 0 /\ h[o].kind = "freed" /\ h[o].block = 0
  BY FreedIs DEF MadeTo, Fits
<1>2. \A q \in Objects : q # o => SameItems(h, g, q) /\ g[q].kind = h[q].kind /\ g[q].block = h[q].block
  BY DEF MadeTo, Grew, Alike, SameItems
<1>3. Own(h, o, x) = 0 /\ Own(g, o, x) = Occurrences(x, items)
  BY <1>1 DEF Own, MadeTo
<1>4. In(h, x) \in Nat /\ In(g, x) \in Nat /\ Occurrences(x, items) \in Nat
      /\ In(g, x) + 0 = In(h, x) + Occurrences(x, items)
  BY <1>1, <1>2, <1>3, InChanges, OccurrencesType
<1>5. ASSUME k # "freed"
      PROVE  Bytes(g, k) = Bytes(h, k) + (IF k = kind THEN 1 + capacity ELSE 0)
  <2>1. Size(h, o, k) = 0 /\ Size(g, o, k) = IF k = kind THEN 1 + capacity ELSE 0
    BY <1>1, <1>5 DEF Size, MadeTo
  <2>2. Bytes(h, k) \in Nat /\ Bytes(g, k) \in Nat
        /\ Bytes(g, k) + Size(h, o, k) = Bytes(h, k) + Size(g, o, k)
    BY <1>1, <1>2, BytesChange
  <2>. QED
    BY <1>1, <2>1, <2>2
<1>. QED
  BY <1>4, <1>5

(* Another object with other items.                                        *)
LEMMA WithItemsIs ==
  ASSUME NEW r \in Obj, NEW items \in Seq(Objects)
  PROVE  /\ WithItems(r, items) \in Obj /\ WithItems(r, items).items = items
         /\ WithItems(r, items).count = r.count /\ WithItems(r, items).kind = r.kind
         /\ WithItems(r, items).block = r.block /\ WithItems(r, items).capacity = r.capacity
BY DEF WithItems, Obj

LEMMA FilledIs ==
  ASSUME NEW r \in Obj, NEW items \in Seq(Objects), NEW capacity \in Nat
  PROVE  /\ Filled(r, items, capacity) \in Obj /\ Filled(r, items, capacity).items = items
         /\ Filled(r, items, capacity).count = r.count /\ Filled(r, items, capacity).kind = r.kind
         /\ Filled(r, items, capacity).block = capacity
         /\ Filled(r, items, capacity).capacity = capacity
BY DEF Filled, Obj

-----------------------------------------------------------------------------
(* The capacity of a list that is filled.                                  *)

Capacities(g, n) ==
  g = [i \in 0..n |-> IF i = 0 THEN 0
                      ELSE IF g[i - 1] = i - 1 THEN NextCapacity(g[i - 1])
                      ELSE g[i - 1]]

LEMMA NextCapacityIs == \A c \in Nat : NextCapacity(c) \in Nat
BY BoundsAssumption DEF NextCapacity

LEMMA CapacityIs ==
  ASSUME NEW n \in Nat
  PROVE  CapacityFor(n) \in Nat
<1>1. \E g : Capacities(g, n)
  <2>. DEFINE F == [p \in Nat \X Nat |-> IF p[1] = p[2] - 1 THEN NextCapacity(p[1]) ELSE p[1]]
  <2>1. F \in [Nat \X Nat -> Nat]
    BY NextCapacityIs
  <2>2. \A c \in Nat, i \in Nat : F[<<c, i>>] = IF c = i - 1 THEN NextCapacity(c) ELSE c
    OBVIOUS
  <2>. HIDE DEF F
  <2>3. PICK g \in [0..n -> Nat] : Repeats(F, 0, n, g)
    BY <2>1, Repeated
  <2>4. ASSUME NEW i \in 0..n
        PROVE  g[i] = IF i = 0 THEN 0 ELSE IF g[i - 1] = i - 1 THEN NextCapacity(g[i - 1])
                                      ELSE g[i - 1]
    <3>1. CASE i = 0
      BY <2>3, <3>1 DEF Repeats
    <3>2. CASE i # 0
      <4>1. i \in 1..n /\ g[i - 1] \in Nat /\ i \in Nat
        BY <3>2
      <4>2. g[i] = F[<<g[i - 1], i>>]
        BY <2>3, <4>1 DEF Repeats
      <4>. QED
        BY <2>2, <3>2, <4>1, <4>2
    <3>. QED
      BY <3>1, <3>2
  <2>5. g = [i \in 0..n |-> g[i]]
    OBVIOUS
  <2>6. Capacities(g, n)
    BY <2>4, <2>5 DEF Capacities
  <2>. QED
    BY <2>6
<1>. DEFINE g == CHOOSE f : Capacities(f, n)
            S == {i \in Nat : i <= n => g[i] \in Nat}
<1>2. Capacities(g, n)
  BY <1>1
<1>3. CapacityFor(n) = g[n]
  BY DEF CapacityFor, Capacities
<1>. HIDE DEF g
<1>4. \A i \in 0..n : g[i] = IF i = 0 THEN 0
                             ELSE IF g[i - 1] = i - 1 THEN NextCapacity(g[i - 1]) ELSE g[i - 1]
  BY <1>2 DEF Capacities
<1>5. 0 \in S
  BY <1>4
<1>6. ASSUME NEW i \in S  PROVE i + 1 \in S
  <2>. SUFFICES ASSUME i + 1 <= n  PROVE g[i + 1] \in Nat
    OBVIOUS
  <2>1. i \in Nat /\ g[i] \in Nat /\ i + 1 \in 0..n /\ i + 1 # 0 /\ (i + 1) - 1 = i
    OBVIOUS
  <2>2. g[i + 1] = IF g[i] = i THEN NextCapacity(g[i]) ELSE g[i]
    BY <1>4, <2>1
  <2>. QED
    BY <2>1, <2>2, NextCapacityIs
<1>. HIDE DEF S
<1>7. S \in SUBSET Nat
  BY DEF S
<1>8. S = Nat
  BY <1>5, <1>6, <1>7, Induction
<1>. QED
  BY <1>3, <1>8 DEF S

-----------------------------------------------------------------------------
(* The invariant, as predicates of the parts of a state.                   *)

Job == [do : {"release", "free"}, object : Objects]

(* The count of an object is the number of references to it.               *)
Counted(h, hd, lk, w) ==
  \A x \in Objects : h[x].count = hd[x] + lk[x] + In(h, x) + Occurrences(ReleaseOf(x), w)

(* The live objects are listed, each once.                                 *)
Listed(h, l) ==
  /\ l \in Seq(Objects)
  /\ \A x \in Objects : Occurrences(x, l) = IF h[x].count > 0 THEN 1 ELSE 0

(* An object that nothing refers to waits, once, for its block to be freed.*)
Waits(r) == IF r.count = 0 /\ r.kind # "freed" THEN 1 ELSE 0
Freeing(h, w) == \A x \in Objects : Occurrences(FreeOf(x), w) = Waits(h[x])

Sizes(h, b) == b \in [Kinds -> Nat] /\ \A kind \in Kinds : b[kind] = Bytes(h, kind)

Solid(h, l, w, b) ==
  /\ h \in Heaps /\ Shaped(h) /\ Listed(h, l)
  /\ w \in Seq(Job) /\ Freeing(h, w) /\ Sizes(h, b)

Releases(w) == w \in Seq(Job) /\ \A x \in Objects : Occurrences(FreeOf(x), w) = 0

LEMMA JobIs ==
  \A o \in Objects :
    /\ ReleaseOf(o) \in Job /\ FreeOf(o) \in Job /\ ReleaseOf(o).do = "release"
    /\ FreeOf(o).do = "free" /\ FreeOf(o).object = o /\ ReleaseOf(o).object = o
    /\ \A p : (ReleaseOf(o) = ReleaseOf(p) <=> o = p) /\ ReleaseOf(p) # FreeOf(o)
BY DEF ReleaseOf, FreeOf, Job

(* The releases of a sequence of objects.                                  *)
LEMMA ReleasesIs ==
  ASSUME NEW items \in Seq(Objects)
  PROVE  /\ Releases(ReleasesOf(items))
         /\ \A x : Occurrences(ReleaseOf(x), ReleasesOf(items)) = Occurrences(x, items)
         /\ Len(ReleasesOf(items)) = Len(items)
<1>. DEFINE w == ReleasesOf(items)
<1>1. Len(items) \in Nat /\ DOMAIN items = 1..Len(items) /\ \A i \in 1..Len(items) : items[i] \in Objects
  OBVIOUS
<1>2. w = [i \in 1..Len(items) |-> ReleaseOf(items[i])]
  BY DEF ReleasesOf
<1>. HIDE DEF w
<1>3. w \in Seq(Job) /\ Len(w) = Len(items) /\ DOMAIN w = 1..Len(items)
  BY <1>1, <1>2, JobIs
<1>4. \A i \in DOMAIN w : w[i] = ReleaseOf(items[i]) /\ w[i].do = "release"
  BY <1>1, <1>2, <1>3, JobIs
<1>5. ASSUME NEW x  PROVE Occurrences(ReleaseOf(x), w) = Occurrences(x, items)
  <2>1. Places(ReleaseOf(x), w) = Places(x, items)
    BY <1>1, <1>3, <1>4, JobIs DEF Places
  <2>. QED
    BY <2>1, OccurrencesIs
<1>6. ASSUME NEW x \in Objects  PROVE Occurrences(FreeOf(x), w) = 0
  BY <1>3, <1>4, JobIs, OccurrencesType
<1>. QED
  BY <1>3, <1>5, <1>6 DEF Releases, w

LEMMA ReleaseOne ==
  ASSUME NEW o \in Objects
  PROVE  /\ Releases(<<ReleaseOf(o)>>)
         /\ \A x : Occurrences(ReleaseOf(x), <<ReleaseOf(o)>>) = One(x, o)
<1>1. Releases(<<ReleaseOf(o)>>)
  BY JobIs, OccurrencesOne DEF Releases, One
<1>2. ASSUME NEW x  PROVE Occurrences(ReleaseOf(x), <<ReleaseOf(o)>>) = One(x, o)
  <2>1. Occurrences(ReleaseOf(x), <<ReleaseOf(o)>>) = One(ReleaseOf(x), ReleaseOf(o))
    BY OccurrencesOne
  <2>. QED
    BY <2>1, JobIs DEF One
<1>. QED
  BY <1>1, <1>2

LEMMA ReleaseNone ==
  Releases(<<>>) /\ \A x : Occurrences(x, <<>>) = 0
BY OccurrencesEmpty DEF Releases

(* No object waits to be freed when there is no work.                      *)
LEMMA NothingWaits ==
  ASSUME NEW h, NEW l, NEW b, Solid(h, l, <<>>, b), NEW x \in Objects, h[x].count = 0
  PROVE  h[x].kind = "freed" /\ h[x] = Freed
<1>1. Occurrences(FreeOf(x), <<>>) = 0
  BY OccurrencesEmpty
<1>. QED
  BY <1>1 DEF Solid, Freeing, Waits, Shaped, ShapedObject

(* Objects with references held outside are alive.                         *)
LEMMA HeldAlive ==
  ASSUME NEW h \in Heaps, NEW hd \in [Objects -> Nat], NEW lk \in [Objects -> Nat],
         NEW w \in Seq(Job), Counted(h, hd, lk, w), NEW x \in Objects
  PROVE  /\ hd[x] > 0 => h[x].count > 0
         /\ h[x].count = 0 => hd[x] = 0 /\ lk[x] = 0 /\ In(h, x) = 0
         /\ hd[x] \in Nat /\ lk[x] \in Nat /\ In(h, x) \in Nat
         /\ h[x].count = hd[x] + lk[x] + In(h, x) + Occurrences(ReleaseOf(x), w)
         /\ Occurrences(ReleaseOf(x), w) \in Nat
<1>1. h[x].count = hd[x] + lk[x] + In(h, x) + Occurrences(ReleaseOf(x), w)
  BY DEF Counted
<1>2. hd[x] \in Nat /\ lk[x] \in Nat /\ In(h, x) \in Nat /\ Occurrences(ReleaseOf(x), w) \in Nat
  BY InType, OccurrencesType
<1>. QED
  BY <1>1, <1>2

(* The items of a live object are alive.                                   *)
LEMMA ItemsAlive ==
  ASSUME NEW h \in Heaps, NEW hd \in [Objects -> Nat], NEW lk \in [Objects -> Nat],
         NEW w \in Seq(Job), Counted(h, hd, lk, w), NEW p \in Objects, h[p].count > 0
  PROVE  Alive(h, h[p].items)
<1>. SUFFICES ASSUME NEW i \in DOMAIN h[p].items  PROVE h[h[p].items[i]].count > 0
  BY DEF Alive
<1>. DEFINE x == h[p].items[i]
<1>1. h[p].items \in Seq(Objects) /\ x \in Objects
  BY ObjFacts
<1>2. Occurrences(x, h[p].items) \in Nat /\ Occurrences(x, h[p].items) # 0
  BY <1>1, OccurrencesType
<1>. HIDE DEF x
<1>3. Own(h, p, x) \in Nat /\ Own(h, p, x) # 0 /\ In(h, x) \in Nat /\ Own(h, p, x) <= In(h, x)
  BY <1>1, <1>2, InType DEF Own
<1>4. h[x].count \in Nat /\ In(h, x) # 0
  BY <1>1, <1>3, ObjFacts
<1>5. h[x].count = 0 => In(h, x) = 0
  BY <1>1, HeldAlive
<1>6. h[x].count > 0
  BY <1>4, <1>5
<1>. QED
  BY <1>6 DEF x

-----------------------------------------------------------------------------
(* Cycles.                                                                 *)

Circle(h, kinds, S) ==
  /\ S # {} /\ \A o \in S : o \in Objects /\ h[o].count > 0 /\ h[o].kind \in kinds
  /\ \A o \in S : \E i \in DOMAIN h[o].items : h[o].items[i] \in S
CyclicIn(h, kinds) == \E S : Circle(h, kinds, S)

LEMMA CyclicIs == \A kinds : Cyclic(kinds) <=> CyclicIn(heap, kinds)
<1>. SUFFICES ASSUME NEW kinds  PROVE Cyclic(kinds) <=> CyclicIn(heap, kinds)
  OBVIOUS
<1>1. ASSUME Cyclic(kinds)  PROVE CyclicIn(heap, kinds)
  <2>1. PICK S \in SUBSET LiveOf(kinds) : S # {} /\ \A o \in S : Within(o, S)
    BY <1>1 DEF Cyclic
  <2>2. Circle(heap, kinds, S)
    BY <2>1 DEF Circle, LiveOf, Within
  <2>. QED
    BY <2>2 DEF CyclicIn
<1>2. ASSUME CyclicIn(heap, kinds)  PROVE Cyclic(kinds)
  <2>1. PICK S : Circle(heap, kinds, S)
    BY <1>2 DEF CyclicIn
  <2>2. S \in SUBSET LiveOf(kinds) /\ S # {} /\ \A o \in S : Within(o, S)
    BY <2>1 DEF Circle, LiveOf, Within
  <2>. QED
    BY <2>2 DEF Cyclic
<1>. QED
  BY <1>1, <1>2

(* The objects of g are objects of h with fewer items.                     *)
Fewer(h, g, x) ==
  g[x].count > 0 => /\ h[x].count > 0 /\ h[x].kind = g[x].kind
                    /\ \A i \in DOMAIN g[x].items : \E j \in DOMAIN h[x].items :
                         h[x].items[j] = g[x].items[i]

LEMMA CyclicFewer ==
  ASSUME NEW h, NEW g, \A x \in Objects : Fewer(h, g, x), NEW kinds, CyclicIn(g, kinds)
  PROVE  CyclicIn(h, kinds)
<1>1. PICK S : Circle(g, kinds, S)
  BY DEF CyclicIn
<1>2. Circle(h, kinds, S)
  <2>1. ASSUME NEW o \in S
        PROVE  /\ o \in Objects /\ h[o].count > 0 /\ h[o].kind \in kinds
               /\ \E i \in DOMAIN h[o].items : h[o].items[i] \in S
    <3>1. /\ o \in Objects /\ g[o].count > 0 /\ g[o].kind \in kinds
          /\ \E i \in DOMAIN g[o].items : g[o].items[i] \in S
      BY <1>1 DEF Circle
    <3>. QED
      BY <3>1 DEF Fewer
  <2>2. S # {}
    BY <1>1 DEF Circle
  <2>. QED
    BY <2>1, <2>2 DEF Circle
<1>. QED
  BY <1>2 DEF CyclicIn

(* A new object, which nothing refers to, is in no cycle.                  *)
LEMMA CyclicMade ==
  ASSUME NEW h \in Heaps, NEW g, NEW o \in Objects, NEW kind, NEW items, NEW capacity,
         MadeTo(h, g, o, kind, items, capacity), In(h, o) = 0,
         NEW kinds, CyclicIn(g, kinds)
  PROVE  CyclicIn(h, kinds)
<1>1. PICK S : Circle(g, kinds, S)
  BY DEF CyclicIn
<1>. DEFINE T == S \ {o}
<1>2. ASSUME NEW q \in T
      PROVE  /\ q \in Objects /\ h[q].count > 0 /\ h[q].kind \in kinds
             /\ \E i \in DOMAIN h[q].items : h[q].items[i] \in T
  <2>1. /\ q \in Objects /\ q # o /\ g[q].count > 0 /\ g[q].kind \in kinds
        /\ \E i \in DOMAIN g[q].items : g[q].items[i] \in S
    BY <1>1 DEF Circle
  <2>2. h[q].count > 0 /\ h[q].kind = g[q].kind /\ h[q].items = g[q].items
    BY <2>1 DEF MadeTo, Grew, Alike
  <2>3. Own(h, q, o) \in Nat /\ Own(h, q, o) <= 0
    BY <2>1, InType
  <2>4. h[q].items \in Seq(Objects)
    BY <2>1, ObjFacts
  <2>5. Occurrences(o, h[q].items) = 0
    BY <2>2, <2>3 DEF Own
  <2>6. \A i \in DOMAIN h[q].items : h[q].items[i] # o
    BY <2>4, <2>5, OccurrencesType
  <2>. QED
    BY <2>1, <2>2, <2>6
<1>3. T # {}
  <2>. SUFFICES ASSUME T = {}  PROVE FALSE
    OBVIOUS
  <2>1. o \in S /\ S = {o}
    BY <1>1 DEF Circle
  <2>2. \E i \in DOMAIN g[o].items : g[o].items[i] = o
    BY <1>1, <2>1 DEF Circle
  <2>3. g[o].items \in Seq(Objects) /\ Occurrences(o, g[o].items) = 0
    BY DEF MadeTo, Fits
  <2>. QED
    BY <2>2, <2>3, OccurrencesType
<1>. HIDE DEF T
<1>4. Circle(h, kinds, T)
  BY <1>2, <1>3 DEF Circle
<1>. QED
  BY <1>4 DEF CyclicIn

-----------------------------------------------------------------------------
(* The operations of a running program, on constants.                      *)

Tallies == [Objects -> Nat]

(* What holds while the program runs, with the work w still to be done.    *)
Good(h, l, hd, lk, w, b, gu) ==
  /\ Solid(h, l, w, b) /\ hd \in Tallies /\ lk \in Tallies
  /\ Counted(h, hd, lk, w)
  /\ gu \/ ~ CyclicIn(h, {"list"})

(* How the bytes of a kind go from old to new.                             *)
Tagged(b, c, kind, old, new) ==
  /\ c = [k \in Kinds |-> c[k]]
  /\ \A k \in Kinds : c[k] = IF k = kind THEN b[k] - old + new ELSE b[k]

(* The counts stay right when those of p, the references held outside and  *)
(* the work change alike.                                                  *)
Balanced(h, g, p, hd, lk, w, hd2, lk2, w2) ==
  \A x \in Objects :
    g[x].count + Own(h, p, x) + hd[x] + lk[x] + Occurrences(ReleaseOf(x), w)
      = h[x].count + Own(g, p, x) + hd2[x] + lk2[x] + Occurrences(ReleaseOf(x), w2)

LEMMA StillCounted ==
  ASSUME NEW h \in Heaps, NEW g \in Heaps, NEW p \in Objects,
         \A q \in Objects : q # p => SameItems(h, g, q),
         NEW hd \in Tallies, NEW lk \in Tallies, NEW w \in Seq(Job), Counted(h, hd, lk, w),
         NEW hd2 \in Tallies, NEW lk2 \in Tallies, NEW w2 \in Seq(Job),
         Balanced(h, g, p, hd, lk, w, hd2, lk2, w2)
  PROVE  Counted(g, hd2, lk2, w2)
<1>. SUFFICES ASSUME NEW x \in Objects
              PROVE  g[x].count = hd2[x] + lk2[x] + In(g, x) + Occurrences(ReleaseOf(x), w2)
  BY DEF Counted
<1>1. /\ In(h, x) \in Nat /\ In(g, x) \in Nat /\ Own(h, p, x) \in Nat /\ Own(g, p, x) \in Nat
      /\ In(g, x) + Own(h, p, x) = In(h, x) + Own(g, p, x)
  BY InChanges
<1>2. h[x].count \in Nat /\ g[x].count \in Nat
  BY ObjFacts
<1>3. Occurrences(ReleaseOf(x), w) \in Nat /\ Occurrences(ReleaseOf(x), w2) \in Nat
  BY OccurrencesType
<1>4. hd[x] \in Nat /\ lk[x] \in Nat /\ hd2[x] \in Nat /\ lk2[x] \in Nat
  BY DEF Tallies
<1>5. h[x].count = hd[x] + lk[x] + In(h, x) + Occurrences(ReleaseOf(x), w)
  BY DEF Counted
<1>6. g[x].count + Own(h, p, x) + hd[x] + lk[x] + Occurrences(ReleaseOf(x), w)
        = h[x].count + Own(g, p, x) + hd2[x] + lk2[x] + Occurrences(ReleaseOf(x), w2)
  BY DEF Balanced
<1>7. PICK a \in Nat, n \in Nat, i1 \in Nat, i2 \in Nat, o1 \in Nat, o2 \in Nat, w1 \in Nat, w3 \in Nat :
        /\ a = h[x].count /\ n = g[x].count /\ i1 = In(h, x) /\ i2 = In(g, x)
        /\ o1 = Own(h, p, x) /\ o2 = Own(g, p, x)
        /\ w1 = Occurrences(ReleaseOf(x), w) /\ w3 = Occurrences(ReleaseOf(x), w2)
  BY <1>1, <1>2, <1>3
<1>8. PICK c \in Nat, d \in Nat, u1 \in Nat, u2 \in Nat :
        c = hd[x] /\ d = lk[x] /\ u1 = hd2[x] /\ u2 = lk2[x]
  BY <1>4
<1>9. a = c + d + i1 + w1 /\ i2 + o1 = i1 + o2 /\ n + o1 + c + d + w1 = a + o2 + u1 + u2 + w3
  BY <1>1, <1>5, <1>6, <1>7, <1>8
<1>10. n + o1 = i1 + o2 + u1 + u2 + w3
  BY ONLY <1>9
<1>11. n = u1 + u2 + i2 + w3
  BY ONLY <1>9, <1>10
<1>. QED
  BY <1>7, <1>8, <1>11

(* The bytes stay right when those of p change as its block does.          *)
LEMMA StillSized ==
  ASSUME NEW h \in Heaps, NEW g \in Heaps, NEW p \in Objects,
         \A q \in Objects : q # p => g[q].kind = h[q].kind /\ g[q].block = h[q].block,
         NEW b, Sizes(h, b), NEW kind \in Kinds, NEW c, NEW old, NEW new,
         Tagged(b, c, kind, old, new),
         old = Size(h, p, kind), new = Size(g, p, kind),
         \A k \in Kinds : k # kind => Size(h, p, k) = 0 /\ Size(g, p, k) = 0
  PROVE  Sizes(g, c)
<1>1. ASSUME NEW k \in Kinds  PROVE c[k] = Bytes(g, k) /\ c[k] \in Nat
  <2>1. /\ Bytes(h, k) \in Nat /\ Bytes(g, k) \in Nat
        /\ Size(h, p, k) \in Nat /\ Size(g, p, k) \in Nat
        /\ Size(h, p, k) <= Bytes(h, k)
        /\ Bytes(g, k) + Size(h, p, k) = Bytes(h, k) + Size(g, p, k)
    BY BytesChange
  <2>2. b[k] = Bytes(h, k)
    BY DEF Sizes
  <2>3. c[k] = IF k = kind THEN b[k] - old + new ELSE b[k]
    BY DEF Tagged
  <2>4. CASE k = kind
    BY <2>1, <2>2, <2>3, <2>4
  <2>5. CASE k # kind
    BY <2>1, <2>2, <2>3, <2>5
  <2>. QED
    BY <2>4, <2>5
<1>. QED
  BY <1>1 DEF Sizes, Tagged

LEMMA TaggedSame ==
  ASSUME NEW h, NEW b, Sizes(h, b), NEW kind, NEW n \in Nat
  PROVE  Tagged(b, b, kind, n, n)
BY DEF Sizes, Tagged

(* With no work but releases no object waits to be freed.                  *)
LEMMA NobodyWaits ==
  ASSUME NEW g, NEW w, Releases(w), \A x \in Objects : g[x].count = 0 => g[x].kind = "freed"
  PROVE  Freeing(g, w)
BY DEF Freeing, Releases, Waits

LEMMA ListedMade ==
  ASSUME NEW h \in Heaps, NEW g \in Heaps, NEW l, Listed(h, l), NEW o \in Objects,
         h[o].count = 0, g[o].count > 0,
         \A x \in Objects : x # o => (g[x].count > 0 <=> h[x].count > 0)
  PROVE  Listed(g, <<o>> \o l)
<1>1. l \in Seq(Objects) /\ <<o>> \in Seq(Objects) /\ <<o>> \o l \in Seq(Objects)
  BY DEF Listed
<1>2. ASSUME NEW x \in Objects
      PROVE  Occurrences(x, <<o>> \o l) = IF g[x].count > 0 THEN 1 ELSE 0
  <2>1. PICK a : a = <<o>>
    OBVIOUS
  <2>2. Occurrences(x, a \o l) = Occurrences(x, a) + Occurrences(x, l)
    BY <1>1, <2>1, OccurrencesConcat
  <2>3. Occurrences(x, a) = One(x, o)
    BY <2>1, OccurrencesOne
  <2>4. Occurrences(x, l) = IF h[x].count > 0 THEN 1 ELSE 0
    BY DEF Listed
  <2>5. CASE x = o
    BY <2>1, <2>2, <2>3, <2>4, <2>5 DEF One
  <2>6. CASE x # o
    BY <2>1, <2>2, <2>3, <2>4, <2>6 DEF One
  <2>. QED
    BY <2>5, <2>6
<1>. QED
  BY <1>1, <1>2 DEF Listed

LEMMA ListedSame ==
  ASSUME NEW h, NEW g, NEW l, Listed(h, l),
         \A x \in Objects : g[x].count > 0 <=> h[x].count > 0
  PROVE  Listed(g, l)
BY DEF Listed

(* A container, a string or an iterator is made.                           *)
LEMMA MadeGood ==
  ASSUME NEW h \in Heaps, NEW g, NEW o \in Objects, NEW kind, NEW items, NEW capacity,
         MadeTo(h, g, o, kind, items, capacity),
         NEW l, NEW hd, NEW lk, NEW b, NEW gu, Good(h, l, hd, lk, <<>>, b, gu),
         NEW hd2 \in Tallies, NEW w, Releases(w),
         \A x \in Objects : hd2[x] + Occurrences(ReleaseOf(x), w) = hd[x] + One(x, o),
         NEW c, Tagged(b, c, kind, 0, 1 + capacity)
  PROVE  Good(g, <<o>> \o l, hd2, lk, w, c, gu)
<1>1. /\ Solid(h, l, <<>>, b) /\ hd \in Tallies /\ lk \in Tallies
      /\ Counted(h, hd, lk, <<>>) /\ (gu \/ ~ CyclicIn(h, {"list"}))
  BY DEF Good
<1>2. /\ g \in Heaps /\ Shaped(g) /\ h[o] = Freed /\ h[o].count = 0 /\ h[o].kind = "freed"
      /\ g[o].kind = kind /\ g[o].items = items /\ g[o].count = 1 /\ g[o].block = capacity
      /\ Occurrences(o, items) = 0 /\ items \in Seq(Objects) /\ capacity \in Nat /\ kind \in Kinds
  BY FreedIs DEF MadeTo, Fits
<1>3. \A x \in Objects : x # o => Grew(h, g, x, Occurrences(x, items))
  BY DEF MadeTo
<1>4. \A q \in Objects : q # o => SameItems(h, g, q) /\ g[q].kind = h[q].kind /\ g[q].block = h[q].block
  BY <1>3 DEF Grew, Alike, SameItems
<1>5. Listed(g, <<o>> \o l)
  <2>1. Listed(h, l) /\ g[o].count > 0
    BY <1>1, <1>2 DEF Solid
  <2>2. \A x \in Objects : x # o => (g[x].count > 0 <=> h[x].count > 0)
    BY <1>3 DEF Grew
  <2>. QED
    BY <1>2, <2>1, <2>2, ListedMade
<1>6. Freeing(g, w)
  <2>1. ASSUME NEW x \in Objects, g[x].count = 0  PROVE g[x].kind = "freed"
    <3>1. x # o
      BY <1>2, <2>1
    <3>2. h[x].count \in Nat /\ h[x].count = 0
      BY <1>3, <2>1, <3>1, ObjFacts DEF Grew
    <3>. QED
      BY <1>1, <1>4, <3>1, <3>2, NothingWaits
  <2>. QED
    BY <2>1, NobodyWaits
<1>7. Sizes(g, c)
  <2>1. Size(h, o, kind) = 0 /\ Size(g, o, kind) = 1 + capacity
        /\ \A k \in Kinds : k # kind => Size(h, o, k) = 0 /\ Size(g, o, k) = 0
    BY <1>2 DEF Size, Kinds
  <2>2. Sizes(h, b)
    BY <1>1 DEF Solid
  <2>. QED
    BY ONLY <1>2, <1>4, <2>1, <2>2, StillSized, h \in Heaps, o \in Objects, Tagged(b, c, kind, 0, 1 + capacity)
<1>8. Counted(g, hd2, lk, w)
  <2>1. ASSUME NEW x \in Objects
        PROVE  g[x].count + Own(h, o, x) + hd[x] + lk[x] + Occurrences(ReleaseOf(x), <<>>)
                 = h[x].count + Own(g, o, x) + hd2[x] + lk[x] + Occurrences(ReleaseOf(x), w)
    <3>1. /\ Occurrences(ReleaseOf(x), <<>>) = 0 /\ Occurrences(x, items) \in Nat
          /\ Occurrences(ReleaseOf(x), w) \in Nat
      BY <1>2, OccurrencesEmpty, OccurrencesType DEF Releases
    <3>2. Own(h, o, x) = 0 /\ Own(g, o, x) = Occurrences(x, items)
      BY <1>2 DEF Own
    <3>3. h[x].count \in Nat /\ hd[x] \in Nat /\ hd2[x] \in Nat /\ lk[x] \in Nat
      BY <1>1, ObjFacts DEF Tallies
    <3>4. g[x].count + 0 = h[x].count + Occurrences(x, items) + One(x, o)
      BY <1>2, <1>3, <3>1, <3>3 DEF Grew, One
    <3>5. hd2[x] + Occurrences(ReleaseOf(x), w) = hd[x] + One(x, o) /\ One(x, o) \in Nat
      BY DEF One
    <3>6. PICK a \in Nat, q \in Nat, i \in Nat, j \in Nat, k \in Nat, t \in Nat, n \in Nat, u \in Nat :
            /\ a = h[x].count /\ q = Occurrences(x, items) /\ i = hd[x] /\ j = hd2[x] /\ k = lk[x]
            /\ t = Occurrences(ReleaseOf(x), w) /\ n = g[x].count /\ u = One(x, o)
      BY <1>2, <3>1, <3>3, <3>5, ObjFacts
    <3>7. n = a + q + u /\ j + t = i + u
      BY <3>4, <3>5, <3>6
    <3>8. n + 0 + i + k + 0 = a + q + j + k + t
      BY ONLY <3>7
    <3>. QED
      BY <3>1, <3>2, <3>6, <3>8
  <2>2. w \in Seq(Job) /\ <<>> \in Seq(Job)
    BY DEF Releases
  <2>3. Balanced(h, g, o, hd, lk, <<>>, hd2, lk, w)
    BY <2>1 DEF Balanced
  <2>. QED
    BY <1>1, <1>2, <1>4, <2>2, <2>3, StillCounted
<1>9. gu \/ ~ CyclicIn(g, {"list"})
  <2>1. In(h, o) = 0
    <3>1. <<>> \in Seq(Job)
      OBVIOUS
    <3>. QED
      BY <1>1, <1>2, <3>1, HeldAlive DEF Tallies
  <2>. QED
    BY <1>1, <2>1, CyclicMade
<1>. QED
  BY <1>1, <1>2, <1>5, <1>6, <1>7, <1>8, <1>9 DEF Good, Solid, Releases

(* Object p gets other items, and those kept another reference; or only    *)
(* references change hands.                                                *)
LEMMA ReplacedGood ==
  ASSUME NEW h \in Heaps, NEW m, NEW kept \in Seq(Objects), RetainedTo(h, m, kept),
         NEW p \in Objects, h[p].count > 0,
         NEW r \in Obj, ShapedObject(r), r.kind = h[p].kind, r.count = m[p].count,
         NEW g, Put(m, g, p, r),
         NEW l, NEW hd, NEW lk, NEW b, NEW gu, Good(h, l, hd, lk, <<>>, b, gu),
         NEW hd2 \in Tallies, NEW lk2 \in Tallies, NEW w, Releases(w),
         \A x \in Objects :
           Occurrences(x, kept) + Occurrences(x, h[p].items) + hd[x] + lk[x]
             = Occurrences(x, r.items) + hd2[x] + lk2[x] + Occurrences(ReleaseOf(x), w),
         NEW c, Tagged(b, c, h[p].kind, h[p].block, r.block),
         NEW gu2, gu2 \/ ~ CyclicIn(g, {"list"})
  PROVE  Good(g, l, hd2, lk2, w, c, gu2)
<1>1. /\ Solid(h, l, <<>>, b) /\ hd \in Tallies /\ lk \in Tallies
      /\ Counted(h, hd, lk, <<>>)
  BY DEF Good
<1>2. /\ m \in Heaps /\ g \in Heaps /\ Shaped(m) /\ g[p] = r /\ r.count > 0 /\ r.items \in Seq(Objects)
      /\ \A x \in Objects : Grew(h, m, x, Occurrences(x, kept))
      /\ \A x \in Objects : x # p => g[x] = m[x]
  BY DEF RetainedTo, Put, Grew, Obj
<1>3. Shaped(g)
  BY <1>2 DEF Shaped
<1>4. \A q \in Objects : q # p => SameItems(h, g, q) /\ g[q].kind = h[q].kind /\ g[q].block = h[q].block
  BY <1>2 DEF Grew, Alike, SameItems
<1>5. \A x \in Objects : g[x].count > 0 <=> h[x].count > 0
  BY <1>2 DEF Grew
<1>6. Listed(g, l)
  BY <1>1, <1>5, ListedSame DEF Solid
<1>7. Freeing(g, w)
  <2>1. ASSUME NEW x \in Objects, g[x].count = 0  PROVE g[x].kind = "freed"
    <3>1. x # p
      BY <1>2, <2>1
    <3>2. h[x].count \in Nat /\ h[x].count = 0
      BY <1>5, <2>1, ObjFacts
    <3>. QED
      BY <1>1, <1>4, <3>1, <3>2, NothingWaits
  <2>. QED
    BY <2>1, NobodyWaits
<1>8. h[p].kind \in Kinds /\ h[p].block \in Nat /\ r.block \in Nat
  <2>1. h[p].kind # "freed"
    BY <1>1, FreedCount DEF Solid
  <2>. QED
    BY <2>1, ObjFacts DEF Obj
<1>9. Sizes(g, c)
  <2>1. Sizes(h, b)
    BY <1>1 DEF Solid
  <2>2. PICK kind \in Kinds, old \in Nat, new \in Nat :
          kind = h[p].kind /\ old = h[p].block + 1 /\ new = r.block + 1
    BY <1>8
  <2>3. Tagged(b, c, kind, old, new)
    <3>1. \A k \in Kinds : b[k] \in Nat
      BY <2>1 DEF Sizes
    <3>2. c = [k \in Kinds |-> c[k]]
          /\ \A k \in Kinds : c[k] = IF k = kind THEN b[k] - h[p].block + r.block ELSE b[k]
      BY <2>2 DEF Tagged
    <3>3. PICK i \in Nat, j \in Nat : i = h[p].block /\ j = r.block
      BY <1>8
    <3>4. \A k \in Kinds : b[k] - i + j = b[k] - old + new
      <4>1. old = i + 1 /\ new = j + 1
        BY <2>2, <3>3
      <4>2. \A n \in Nat : n - i + j = n - old + new
        BY ONLY <4>1
      <4>. QED
        BY <3>1, <4>2
    <3>. QED
      BY <3>2, <3>3, <3>4 DEF Tagged
  <2>4. /\ old = Size(h, p, kind) /\ new = Size(g, p, kind)
        /\ \A k \in Kinds : k # kind => Size(h, p, k) = 0 /\ Size(g, p, k) = 0
    BY <1>2, <2>2 DEF Size
  <2>. QED
    BY ONLY <1>2, <1>4, <2>1, <2>3, <2>4, StillSized, h \in Heaps, p \in Objects, kind \in Kinds
<1>10. Counted(g, hd2, lk2, w)
  <2>1. ASSUME NEW x \in Objects
        PROVE  g[x].count + Own(h, p, x) + hd[x] + lk[x] + Occurrences(ReleaseOf(x), <<>>)
                 = h[x].count + Own(g, p, x) + hd2[x] + lk2[x] + Occurrences(ReleaseOf(x), w)
    <3>1. /\ Occurrences(ReleaseOf(x), <<>>) = 0 /\ Occurrences(x, kept) \in Nat
          /\ Occurrences(ReleaseOf(x), w) \in Nat
          /\ Occurrences(x, h[p].items) \in Nat /\ Occurrences(x, r.items) \in Nat
      BY <1>2, OccurrencesEmpty, OccurrencesType, ObjFacts DEF Releases
    <3>2. Own(h, p, x) = Occurrences(x, h[p].items) /\ Own(g, p, x) = Occurrences(x, r.items)
      BY <1>2 DEF Own
    <3>3. h[x].count \in Nat /\ hd[x] \in Nat /\ hd2[x] \in Nat /\ lk[x] \in Nat /\ lk2[x] \in Nat
      BY <1>1, ObjFacts DEF Tallies
    <3>4. g[x].count = h[x].count + Occurrences(x, kept)
      BY <1>2 DEF Grew
    <3>5. Occurrences(x, kept) + Occurrences(x, h[p].items) + hd[x] + lk[x]
             = Occurrences(x, r.items) + hd2[x] + lk2[x] + Occurrences(ReleaseOf(x), w)
      OBVIOUS
    <3>6. PICK a \in Nat, q \in Nat, i \in Nat, j \in Nat, k \in Nat, t \in Nat, n \in Nat,
              u \in Nat, v \in Nat, y \in Nat :
            /\ a = h[x].count /\ q = Occurrences(x, kept) /\ i = hd[x] /\ j = hd2[x] /\ k = lk[x]
            /\ t = Occurrences(ReleaseOf(x), w) /\ n = g[x].count /\ u = Occurrences(x, h[p].items)
            /\ v = Occurrences(x, r.items) /\ y = lk2[x]
      BY <1>2, <3>1, <3>3, ObjFacts
    <3>7. n = a + q /\ q + u + i + k = v + j + y + t
      BY <3>4, <3>5, <3>6
    <3>8. n + u + i + k + 0 = a + v + j + y + t
      BY ONLY <3>7
    <3>. QED
      BY <3>1, <3>2, <3>6, <3>8
  <2>2. w \in Seq(Job) /\ <<>> \in Seq(Job)
    BY DEF Releases
  <2>3. Balanced(h, g, p, hd, lk, <<>>, hd2, lk2, w)
    BY <2>1 DEF Balanced
  <2>. QED
    BY <1>1, <1>2, <1>4, <2>2, <2>3, StillCounted
<1>. QED
  BY <1>1, <1>2, <1>3, <1>6, <1>7, <1>9, <1>10 DEF Good, Solid, Releases

-----------------------------------------------------------------------------
(* The operations of a running program.                                    *)

Now == Good(heap, live, held, leaked, work, bytes, gaveUp)

LEMMA QuietFacts ==
  ASSUME Now, Quiet
  PROVE  /\ work = <<>> /\ Good(heap, live, held, leaked, <<>>, bytes, gaveUp)
         /\ heap \in Heaps /\ Shaped(heap) /\ held \in Tallies /\ leaked \in Tallies
         /\ Sizes(heap, bytes) /\ (gaveUp \/ ~ CyclicIn(heap, {"list"}))
         /\ \A x \in Objects : held[x] \in Nat /\ leaked[x] \in Nat
         /\ \A x \in Objects : held[x] > 0 => heap[x].count > 0 /\ heap[x].kind # "freed"
         /\ \A x \in Objects : heap[x].kind = "freed" => held[x] = 0
         /\ \A x \in Objects : heap[x].count > 0 => Alive(heap, heap[x].items)
<1>1. /\ work = <<>> /\ Good(heap, live, held, leaked, <<>>, bytes, gaveUp)
      /\ Solid(heap, live, <<>>, bytes) /\ Counted(heap, held, leaked, <<>>) /\ <<>> \in Seq(Job)
      /\ held \in Tallies /\ leaked \in Tallies /\ (gaveUp \/ ~ CyclicIn(heap, {"list"}))
  BY DEF Now, Quiet, Good
<1>2. heap \in Heaps /\ Shaped(heap) /\ Sizes(heap, bytes)
  BY <1>1 DEF Solid
<1>3. \A x \in Objects : held[x] \in Nat /\ leaked[x] \in Nat
  BY <1>1 DEF Tallies
<1>4. \A x \in Objects : held[x] > 0 => heap[x].count > 0
  BY <1>1, <1>2, HeldAlive DEF Tallies
<1>5. \A x \in Objects : heap[x].count > 0 => heap[x].kind # "freed"
  BY <1>2, FreedCount
<1>6. \A x \in Objects : heap[x].kind = "freed" => held[x] = 0
  BY <1>3, <1>4, <1>5
<1>7. \A x \in Objects : heap[x].count > 0 => Alive(heap, heap[x].items)
  BY <1>1, <1>2, ItemsAlive DEF Tallies
<1>. QED
  BY <1>1, <1>2, <1>3, <1>4, <1>5, <1>6, <1>7

LEMMA GainIs ==
  ASSUME NEW hd \in Tallies, NEW o \in Objects
  PROVE  /\ [hd EXCEPT ![o] = @ + 1] \in Tallies
         /\ \A x \in Objects : [hd EXCEPT ![o] = @ + 1][x] = hd[x] + One(x, o)
BY DEF Tallies, One

LEMMA Gained ==
  ASSUME held \in Tallies, NEW o \in Objects, Gain(o)
  PROVE  held' \in Tallies /\ \A x \in Objects : held'[x] = held[x] + One(x, o)
BY GainIs DEF Gain

LEMMA LoseIs ==
  ASSUME NEW hd \in Tallies, NEW o \in Objects, hd[o] > 0
  PROVE  /\ [hd EXCEPT ![o] = @ - 1] \in Tallies
         /\ \A x \in Objects : [hd EXCEPT ![o] = @ - 1][x] + One(x, o) = hd[x]
BY DEF Tallies, One

LEMMA Lost ==
  ASSUME held \in Tallies, NEW o \in Objects, held[o] > 0, Lose(o)
  PROVE  held' \in Tallies /\ \A x \in Objects : held'[x] + One(x, o) = held[x]
BY LoseIs DEF Lose

LEMMA MoreBytes ==
  ASSUME NEW h, NEW b, Sizes(h, b), NEW kind \in Kinds, NEW n \in Nat, NEW c,
         c = [b EXCEPT ![kind] = @ + 1 + n]
  PROVE  Tagged(b, c, kind, 0, 1 + n)
<1>1. b \in [Kinds -> Nat] /\ b[kind] \in Nat
  BY DEF Sizes
<1>2. b[kind] + 1 + n = b[kind] - 0 + (1 + n)
  BY <1>1
<1>3. c = [k \in Kinds |-> IF k = kind THEN b[k] - 0 + (1 + n) ELSE b[k]]
  BY <1>1, <1>2
<1>. QED
  BY <1>3 DEF Tagged

LEMMA OneByte ==
  ASSUME NEW h, NEW b, Sizes(h, b), NEW kind \in Kinds, NEW c, c = [b EXCEPT ![kind] = @ + 1]
  PROVE  Tagged(b, c, kind, 0, 1 + 0)
<1>1. b \in [Kinds -> Nat] /\ b[kind] \in Nat /\ b[kind] + 1 = b[kind] + 1 + 0
  BY DEF Sizes
<1>2. c = [b EXCEPT ![kind] = @ + 1 + 0]
  BY <1>1
<1>. QED
  BY <1>2, MoreBytes

LEMMA AliveNone == \A h : Alive(h, <<>>)
BY DEF Alive

LEMMA NewStringGood ==
  ASSUME Now, Quiet, NewString
  PROVE  Now'
<1>1. PICK o \in Objects :
        Fresh(o) /\ Gain(o) /\ live' = <<o>> \o live /\ heap' = Made(heap, o, "string", <<>>, 0)
  BY DEF NewString
<1>2. /\ bytes' = [bytes EXCEPT !["string"] = @ + 1] /\ work' = <<>>
      /\ leaked' = leaked /\ gaveUp' = gaveUp
  BY QuietFacts DEF NewString, History
<1>3. Fits("string", <<>>, 0) /\ heap[o].kind = "freed"
  BY <1>1, BoundsAssumption DEF Fits, Kinds, Fresh, Is
<1>4. MadeTo(heap, heap', o, "string", <<>>, 0)
  BY <1>1, <1>3, QuietFacts, AliveNone, MadeIs
<1>5. held' \in Tallies
      /\ \A x \in Objects : held'[x] + Occurrences(ReleaseOf(x), <<>>) = held[x] + One(x, o)
  <2>1. held' \in Tallies /\ \A x \in Objects : held'[x] = held[x] + One(x, o)
    BY <1>1, QuietFacts, GainIs DEF Gain
  <2>2. \A x \in Objects : held'[x] \in Nat
    BY <2>1 DEF Tallies
  <2>. QED
    BY <2>1, <2>2, OccurrencesEmpty
<1>6. Tagged(bytes, bytes', "string", 0, 1 + 0)
  BY <1>2, QuietFacts, OneByte DEF Kinds
<1>7. Good(heap', <<o>> \o live, held', leaked, <<>>, bytes', gaveUp)
  BY <1>4, <1>5, <1>6, QuietFacts, ReleaseNone, MadeGood
<1>. QED
  BY <1>1, <1>2, <1>7 DEF Now

(* The operands that are given back.                                       *)
LEMMA LessIs ==
  ASSUME Now, Quiet, NEW spent \in Seq(Objects), OnStack(spent)
  PROVE  /\ Less(spent) \in Tallies
         /\ \A x \in Objects : /\ Less(spent)[x] + Occurrences(x, spent) = held[x]
                               /\ Occurrences(x, spent) \in Nat /\ Less(spent)[x] \in Nat
<1>1. ASSUME NEW x \in Objects
      PROVE  /\ Occurrences(x, spent) \in Nat /\ held[x] - Occurrences(x, spent) \in Nat
             /\ held[x] \in Nat
  <2>1. Occurrences(x, spent) \in Nat /\ held[x] \in Nat
    BY OccurrencesType, QuietFacts
  <2>2. Occurrences(x, spent) <= held[x]
    BY DEF OnStack
  <2>. QED
    BY <2>1, <2>2
<1>. QED
  BY <1>1 DEF Less, Tallies

LEMMA NothingSpent == Now /\ Quiet => OnStack(<<>>)
BY QuietFacts, OccurrencesEmpty DEF OnStack

(* A container that got its items.                                         *)
LEMMA Succeeds ==
  ASSUME Now, Quiet, NEW o \in Objects, Fresh(o),
         NEW spent \in Seq(Objects), OnStack(spent),
         NEW kind, NEW items, NEW capacity, Fits(kind, items, capacity), Alive(heap, items),
         heap' = Made(heap, o, kind, items, capacity), live' = <<o>> \o live,
         held' = [Less(spent) EXCEPT ![o] = 1], work' = ReleasesOf(spent),
         bytes' = [bytes EXCEPT ![kind] = @ + 1 + capacity],
         leaked' = leaked, gaveUp' = gaveUp
  PROVE  Now'
<1>1. kind \in Kinds /\ capacity \in Nat /\ heap[o].kind = "freed" /\ held[o] = 0
  BY QuietFacts DEF Fits, Fresh, Is
<1>2. MadeTo(heap, heap', o, kind, items, capacity)
  BY <1>1, QuietFacts, MadeIs
<1>3. Releases(work') /\ \A x : Occurrences(ReleaseOf(x), work') = Occurrences(x, spent)
  BY ReleasesIs
<1>4. held' \in Tallies
      /\ \A x \in Objects : held'[x] + Occurrences(ReleaseOf(x), work') = held[x] + One(x, o)
  <2>1. Less(spent) \in Tallies
        /\ \A x \in Objects : /\ Less(spent)[x] + Occurrences(x, spent) = held[x]
                              /\ Occurrences(x, spent) \in Nat /\ Less(spent)[x] \in Nat
    BY LessIs
  <2>2. held' \in Tallies /\ held'[o] = 1 /\ \A x \in Objects : x # o => held'[x] = Less(spent)[x]
    BY <2>1 DEF Tallies
  <2>3. Occurrences(o, spent) = 0
    BY <1>1, <2>1
  <2>4. ASSUME NEW x \in Objects
        PROVE  held'[x] + Occurrences(x, spent) = held[x] + One(x, o)
    BY <1>1, <2>1, <2>2, <2>3 DEF One
  <2>. QED
    BY <1>3, <2>2, <2>4
<1>5. Tagged(bytes, bytes', kind, 0, 1 + capacity)
  BY <1>1, QuietFacts, MoreBytes
<1>6. Good(heap', <<o>> \o live, held', leaked, work', bytes', gaveUp)
  <2>1. /\ Good(heap, live, held, leaked, <<>>, bytes, gaveUp) /\ heap \in Heaps
    BY QuietFacts
  <2>2. Releases(work')
    BY <1>3
  <2>. QED
    BY ONLY <1>2, <1>4, <1>5, <2>1, <2>2, o \in Objects, MadeGood
<1>. QED
  BY <1>6 DEF Now

(* A list that did not grow and is given back with what it has.            *)
LEMMA Fails ==
  ASSUME Now, Quiet, NEW o \in Objects, Fresh(o),
         NEW back \in Seq(Objects), OnStack(back),
         NEW kind, NEW items, NEW capacity, Fits(kind, items, capacity), Alive(heap, items),
         heap' = Made(heap, o, kind, items, capacity), live' = <<o>> \o live,
         held' = Less(back), work' = ReleasesOf(<<o>> \o back),
         bytes' = [bytes EXCEPT ![kind] = @ + 1 + capacity],
         leaked' = leaked, gaveUp' = gaveUp
  PROVE  Now'
<1>1. kind \in Kinds /\ capacity \in Nat /\ heap[o].kind = "freed"
  BY DEF Fits, Fresh, Is
<1>2. MadeTo(heap, heap', o, kind, items, capacity)
  BY <1>1, QuietFacts, MadeIs
<1>3. Releases(work') /\ \A x : Occurrences(ReleaseOf(x), work') = One(x, o) + Occurrences(x, back)
  <2>1. PICK a : a = <<o>>
    OBVIOUS
  <2>2. a \in Seq(Objects) /\ a \o back \in Seq(Objects)
    BY <2>1
  <2>3. \A x : Occurrences(x, a \o back) = Occurrences(x, a) + Occurrences(x, back)
    BY <2>2, OccurrencesConcat
  <2>4. \A x : Occurrences(x, a) = One(x, o)
    BY <2>1, OccurrencesOne
  <2>. QED
    BY <2>1, <2>2, <2>3, <2>4, ReleasesIs
<1>4. held' \in Tallies
      /\ \A x \in Objects : held'[x] + Occurrences(ReleaseOf(x), work') = held[x] + One(x, o)
  <2>1. Less(back) \in Tallies
        /\ \A x \in Objects : /\ Less(back)[x] + Occurrences(x, back) = held[x]
                              /\ Occurrences(x, back) \in Nat /\ Less(back)[x] \in Nat
    BY LessIs
  <2>2. \A x \in Objects : One(x, o) \in Nat
    BY DEF One
  <2>3. ASSUME NEW x \in Objects
        PROVE  Less(back)[x] + (One(x, o) + Occurrences(x, back)) = held[x] + One(x, o)
    BY <2>1, <2>2
  <2>. QED
    BY <1>3, <2>1, <2>3
<1>5. Tagged(bytes, bytes', kind, 0, 1 + capacity)
  BY <1>1, QuietFacts, MoreBytes
<1>6. Good(heap', <<o>> \o live, held', leaked, work', bytes', gaveUp)
  BY <1>2, <1>3, <1>4, <1>5, QuietFacts, MadeGood
<1>. QED
  BY <1>6 DEF Now

(* The first items of a sequence.                                          *)
LEMMA FirstItems ==
  ASSUME NEW items \in Seq(Objects), NEW n \in 0..Len(items), NEW h, Alive(h, items)
  PROVE  SubSeq(items, 1, n) \in Seq(Objects) /\ Alive(h, SubSeq(items, 1, n))
         /\ Len(SubSeq(items, 1, n)) = n /\ n \in Nat
<1>1. Len(items) \in Nat /\ n \in Nat /\ n <= Len(items)
  OBVIOUS
<1>2. PICK t : t = SubSeq(items, 1, n)
  OBVIOUS
<1>3. t \in Seq(Objects) /\ Len(t) = n /\ \A i \in 1..n : t[i] = items[i]
  BY <1>1, <1>2
<1>4. Alive(h, t)
  BY <1>1, <1>3 DEF Alive
<1>. QED
  BY <1>1, <1>2, <1>3, <1>4

LEMMA ContainerGood ==
  ASSUME Now, Quiet, NEW kind, NEW items \in Seq(Objects), Alive(heap, items),
         NEW spent \in Seq(Objects), OnStack(spent),
         NEW back \in Seq(Objects), OnStack(back), Container(kind, items, spent, back)
  PROVE  Now'
<1>1. Len(items) <= MaxItems /\ Len(items) \in Nat /\ CapacityFor(Len(items)) \in Nat
  BY CapacityIs DEF Container
<1>2. CASE kind = "list" /\ ListOf(items, spent, back)
  <2>1. PICK o \in Objects :
          /\ Fresh(o) /\ live' = <<o>> \o live /\ History
          /\ \/ /\ held' = [Less(spent) EXCEPT ![o] = 1] /\ work' = ReleasesOf(spent)
                /\ heap' = Made(heap, o, "list", items, CapacityFor(Len(items)))
                /\ bytes' = [bytes EXCEPT !["list"] = @ + 1 + CapacityFor(Len(items))]
             \/ \E n \in 0..(Len(items) - 1) :
                  /\ CapacityFor(n) = n
                  /\ held' = Less(back) /\ work' = ReleasesOf(<<o>> \o back)
                  /\ heap' = Made(heap, o, "list", SubSeq(items, 1, n), n)
                  /\ bytes' = [bytes EXCEPT !["list"] = @ + 1 + n]
    BY <1>2 DEF ListOf
  <2>2. leaked' = leaked /\ gaveUp' = gaveUp
    BY <2>1 DEF History
  <2>3. CASE /\ held' = [Less(spent) EXCEPT ![o] = 1] /\ work' = ReleasesOf(spent)
             /\ heap' = Made(heap, o, "list", items, CapacityFor(Len(items)))
             /\ bytes' = [bytes EXCEPT !["list"] = @ + 1 + CapacityFor(Len(items))]
    <3>1. Fits("list", items, CapacityFor(Len(items)))
      BY <1>1 DEF Fits, Kinds
    <3>. QED
      BY <2>1, <2>2, <2>3, <3>1, Succeeds
  <2>4. CASE \E n \in 0..(Len(items) - 1) :
               /\ CapacityFor(n) = n
               /\ held' = Less(back) /\ work' = ReleasesOf(<<o>> \o back)
               /\ heap' = Made(heap, o, "list", SubSeq(items, 1, n), n)
               /\ bytes' = [bytes EXCEPT !["list"] = @ + 1 + n]
    <3>1. PICK n \in 0..(Len(items) - 1) :
               /\ held' = Less(back) /\ work' = ReleasesOf(<<o>> \o back)
               /\ heap' = Made(heap, o, "list", SubSeq(items, 1, n), n)
               /\ bytes' = [bytes EXCEPT !["list"] = @ + 1 + n]
      BY <2>4
    <3>2. n \in 0..Len(items) /\ n <= MaxItems
      BY <1>1, BoundsAssumption
    <3>3. SubSeq(items, 1, n) \in Seq(Objects) /\ Alive(heap, SubSeq(items, 1, n))
          /\ Len(SubSeq(items, 1, n)) = n /\ n \in Nat
      BY <3>2, FirstItems
    <3>4. Fits("list", SubSeq(items, 1, n), n)
      BY <3>2, <3>3 DEF Fits, Kinds
    <3>. QED
      BY <2>1, <2>2, <3>1, <3>3, <3>4, Fails
  <2>. QED
    BY <2>1, <2>3, <2>4
<1>3. CASE kind = "tuple" /\ TupleOf(items, spent)
  <2>1. PICK o \in Objects :
          /\ Fresh(o) /\ UNCHANGED <<phase, leaked, gaveUp, tangled>>
          /\ \/ /\ held' = [Less(spent) EXCEPT ![o] = 1] /\ work' = ReleasesOf(spent)
                /\ live' = <<o>> \o live /\ UNCHANGED fault
                /\ heap' = Made(heap, o, "tuple", items, Len(items))
                /\ bytes' = [bytes EXCEPT !["tuple"] = @ + 1 + Len(items)]
             \/ /\ items # <<>> /\ fault' = "items of a tuple without a block"
                /\ UNCHANGED <<heap, live, held, work, bytes>>
    BY <1>3 DEF TupleOf
  <2>2. leaked' = leaked /\ gaveUp' = gaveUp
    BY <2>1
  <2>3. CASE /\ held' = [Less(spent) EXCEPT ![o] = 1] /\ work' = ReleasesOf(spent)
             /\ live' = <<o>> \o live
             /\ heap' = Made(heap, o, "tuple", items, Len(items))
             /\ bytes' = [bytes EXCEPT !["tuple"] = @ + 1 + Len(items)]
    <3>1. Fits("tuple", items, Len(items))
      BY <1>1 DEF Fits, Kinds
    <3>. QED
      BY <2>1, <2>2, <2>3, <3>1, Succeeds
  <2>4. CASE UNCHANGED <<heap, live, held, work, bytes>>
    BY <2>2, <2>4 DEF Now
  <2>. QED
    BY <2>1, <2>3, <2>4
<1>. QED
  BY <1>2, <1>3 DEF Container

LEMMA BuildGood ==
  ASSUME Now, Build
  PROVE  Now'
<1>1. Quiet
  BY DEF Build
<1>2. PICK kind \in Sequential, n \in 0..MaxItems : \E values \in [1..n -> HeldOf(Kinds)] :
        OnStack(values) /\ Container(kind, [i \in 1..n |-> values[n + 1 - i]], values, <<>>)
  BY DEF Build
<1>3. PICK values \in [1..n -> HeldOf(Kinds)] :
        OnStack(values) /\ Container(kind, [i \in 1..n |-> values[n + 1 - i]], values, <<>>)
  BY <1>2
<1>4. n \in Nat /\ \A i \in 1..n : values[i] \in Objects /\ held[values[i]] > 0
  BY BoundsAssumption DEF HeldOf
<1>5. values \in Seq(Objects) /\ <<>> \in Seq(Objects)
  BY <1>4
<1>6. PICK items : items = [i \in 1..n |-> values[n + 1 - i]]
  OBVIOUS
<1>7. \A i \in 1..n : n + 1 - i \in 1..n
  BY <1>4
<1>8. items \in Seq(Objects)
  BY <1>4, <1>6, <1>7
<1>9. Alive(heap, items)
  BY <1>1, <1>4, <1>6, <1>7, QuietFacts DEF Alive
<1>. QED
  BY <1>1, <1>3, <1>5, <1>6, <1>8, <1>9, NothingSpent, ContainerGood

(* The items of a container that is held.                                  *)
LEMMA HeldItems ==
  ASSUME Now, Quiet, NEW kinds, NEW a \in HeldOf(kinds)
  PROVE  /\ a \in Objects /\ heap[a].items \in Seq(Objects) /\ Alive(heap, heap[a].items)
         /\ heap[a].count > 0 /\ held[a] > 0 /\ heap[a].kind \in kinds
         /\ heap[a] \in Obj /\ ShapedObject(heap[a]) /\ Len(heap[a].items) \in Nat
<1>1. a \in Objects /\ held[a] > 0 /\ heap[a].kind \in kinds
  BY DEF HeldOf
<1>. QED
  BY <1>1, QuietFacts, ObjFacts DEF Shaped

LEMMA ConcatGood ==
  ASSUME Now, Concat
  PROVE  Now'
<1>1. Quiet
  BY DEF Concat
<1>2. PICK a \in HeldOf(Sequential), b \in HeldOf(Sequential) :
        OnStack(<<a, b>>) /\ Container(heap[a].kind, heap[a].items \o heap[b].items, <<a, b>>, <<a, b>>)
  BY DEF Concat
<1>3. PICK s, t, both : s = heap[a].items /\ t = heap[b].items /\ both = s \o t
  OBVIOUS
<1>4. s \in Seq(Objects) /\ Alive(heap, s) /\ t \in Seq(Objects) /\ Alive(heap, t)
      /\ a \in Objects /\ b \in Objects
  BY <1>1, <1>3, HeldItems
<1>5. both \in Seq(Objects) /\ Alive(heap, both)
  <2>1. Len(s) \in Nat /\ Len(t) \in Nat /\ both \in Seq(Objects) /\ DOMAIN both = 1..(Len(s) + Len(t))
        /\ (\A i \in 1..Len(s) : both[i] = s[i])
        /\ \A i \in (Len(s) + 1)..(Len(s) + Len(t)) : both[i] = t[i - Len(s)]
    <3>1. Len(s) \in Nat /\ Len(t) \in Nat /\ s \o t \in Seq(Objects)
          /\ DOMAIN (s \o t) = 1..(Len(s) + Len(t))
          /\ (\A i \in 1..Len(s) : (s \o t)[i] = s[i])
          /\ \A i \in (Len(s) + 1)..(Len(s) + Len(t)) : (s \o t)[i] = t[i - Len(s)]
      BY <1>4
    <3>. QED
      BY ONLY <1>3, <3>1
  <2>2. ASSUME NEW i \in DOMAIN both  PROVE heap[both[i]].count > 0
    <3>1. CASE i <= Len(s)
      <4>1. i \in DOMAIN s /\ both[i] = s[i]
        BY <1>4, <2>1, <3>1
      <4>. QED
        BY <1>4, <4>1 DEF Alive
    <3>2. CASE ~ (i <= Len(s))
      <4>1. i - Len(s) \in DOMAIN t /\ both[i] = t[i - Len(s)]
        BY <1>4, <2>1, <3>2
      <4>. QED
        BY <1>4, <4>1 DEF Alive
    <3>. QED
      BY <3>1, <3>2
  <2>. QED
    BY <2>1, <2>2 DEF Alive
<1>6. <<a, b>> \in Seq(Objects)
  BY <1>4
<1>. QED
  BY <1>1, <1>2, <1>3, <1>5, <1>6, ContainerGood

LEMMA SliceGood ==
  ASSUME Now, Slice
  PROVE  Now'
<1>1. Quiet
  BY DEF Slice
<1>2. PICK a \in HeldOf(Sequential) : \E from \in 1..MaxItems, to \in 0..MaxItems :
        to <= Len(heap[a].items) /\ Container(heap[a].kind, SubSeq(heap[a].items, from, to), <<>>, <<>>)
  BY DEF Slice
<1>3. PICK from \in 1..MaxItems, to \in 0..MaxItems :
        to <= Len(heap[a].items) /\ Container(heap[a].kind, SubSeq(heap[a].items, from, to), <<>>, <<>>)
  BY <1>2
<1>4. PICK s : s = heap[a].items
  OBVIOUS
<1>5. s \in Seq(Objects) /\ Alive(heap, s)
  BY <1>1, <1>4, HeldItems
<1>6. PICK items : items = SubSeq(s, from, to)
  OBVIOUS
<1>7. from \in Nat /\ from > 0 /\ to \in Nat /\ to <= Len(s)
  BY <1>3, <1>4, BoundsAssumption
<1>8. items \in Seq(Objects) /\ Alive(heap, items)
  <2>1. ASSUME to < from
        PROVE  items = <<>>
    BY <1>5, <1>6, <1>7, <2>1, SubSeqEmpty
  <2>2. ASSUME from <= to
        PROVE  /\ items \in Seq(Objects) /\ Len(items) = to - from + 1
               /\ \A i \in 1..(to - from + 1) : items[i] = s[from + i - 1]
    <3>1. from \in Int /\ to \in Int /\ \A i \in from..to : s[i] \in Objects
      BY <1>5, <1>7, <2>2
    <3>2. /\ SubSeq(s, from, to) \in Seq(Objects)
          /\ Len(SubSeq(s, from, to)) = IF from <= to THEN to - from + 1 ELSE 0
          /\ \A i \in 1..(to - from + 1) : SubSeq(s, from, to)[i] = s[from + i - 1]
      BY <1>5, <1>7, <2>2, <3>1
    <3>. QED
      BY <1>6, <2>2, <3>2
  <2>3. CASE from <= to
    <3>1. \A i \in 1..(to - from + 1) : from + i - 1 \in 1..Len(s)
      BY <1>5, <1>7, <2>3
    <3>2. DOMAIN items = 1..(to - from + 1)
      BY <1>7, <2>2, <2>3
    <3>3. ASSUME NEW i \in DOMAIN items  PROVE heap[items[i]].count > 0
      <4>1. items[i] = s[from + i - 1]
        BY <2>2, <2>3, <3>2
      <4>2. from + i - 1 \in DOMAIN s
        <5>1. i \in 1..(to - from + 1) /\ DOMAIN s = 1..Len(s)
          BY <1>5, <3>2
        <5>. QED
          BY ONLY <3>1, <5>1
      <4>. QED
        BY <1>5, <4>1, <4>2 DEF Alive
    <3>. QED
      BY <2>2, <2>3, <3>3 DEF Alive
  <2>4. CASE to < from
    BY <2>1, <2>4, AliveNone
  <2>. QED
    BY <1>7, <2>3, <2>4
<1>9. <<>> \in Seq(Objects)
  OBVIOUS
<1>. QED
  BY <1>1, <1>3, <1>4, <1>6, <1>8, <1>9, NothingSpent, ContainerGood

LEMMA CopySequenceGood ==
  ASSUME Now, CopySequence
  PROVE  Now'
<1>1. Quiet
  BY DEF CopySequence
<1>2. PICK a \in HeldOf({"tuple"}) : Container("list", heap[a].items, <<>>, <<>>)
  BY DEF CopySequence
<1>3. heap[a].items \in Seq(Objects) /\ Alive(heap, heap[a].items) /\ <<>> \in Seq(Objects)
  BY <1>1, HeldItems
<1>. QED
  BY <1>1, <1>2, <1>3, NothingSpent, ContainerGood

(* A heap that keeps what it has.                                          *)
LEMMA RetainedNothing ==
  ASSUME NEW h \in Heaps, Shaped(h)
  PROVE  RetainedTo(h, h, <<>>)
<1>1. ASSUME NEW x \in Objects  PROVE Grew(h, h, x, Occurrences(x, <<>>))
  BY OccurrencesEmpty, ObjFacts DEF Grew, Alike
<1>. QED
  BY <1>1 DEF RetainedTo

LEMMA RetainedOne ==
  ASSUME Now, Quiet, NEW v \in Objects, heap[v].count > 0
  PROVE  /\ RetainedTo(heap, Retained(heap, <<v>>), <<v>>) /\ <<v>> \in Seq(Objects)
         /\ \A x : Occurrences(x, <<v>>) = One(x, v)
<1>1. <<v>> \in Seq(Objects) /\ Alive(heap, <<v>>)
  BY DEF Alive
<1>. QED
  BY <1>1, QuietFacts, RetainedIs, OccurrencesOne

(* What changes hands when object p gets the items of r.                   *)
Exchanged(h, kept, p, r, hd, lk, hd2, lk2, w) ==
  \A x \in Objects :
    Occurrences(x, kept) + Occurrences(x, h[p].items) + hd[x] + lk[x]
      = Occurrences(x, r.items) + hd2[x] + lk2[x] + Occurrences(ReleaseOf(x), w)

LEMMA Changes ==
  ASSUME Now, Quiet, NEW kept \in Seq(Objects), NEW m, RetainedTo(heap, m, kept),
         NEW p \in Objects, heap[p].count > 0,
         NEW r \in Obj, ShapedObject(r), r.kind = heap[p].kind, r.count = m[p].count,
         Put(m, heap', p, r), live' = live, held' \in Tallies, leaked' \in Tallies,
         Releases(work'), Exchanged(heap, kept, p, r, held, leaked, held', leaked', work'),
         Tagged(bytes, bytes', heap[p].kind, heap[p].block, r.block),
         gaveUp' \/ ~ CyclicIn(heap', {"list"})
  PROVE  Now'
<1>1. Good(heap, live, held, leaked, <<>>, bytes, gaveUp) /\ heap \in Heaps
  BY QuietFacts
<1>2. PICK h2, hd2, lk2, w2, b2, gu2 :
        h2 = heap' /\ hd2 = held' /\ lk2 = leaked' /\ w2 = work' /\ b2 = bytes' /\ gu2 = gaveUp'
  OBVIOUS
<1>3. \A x \in Objects :
        Occurrences(x, kept) + Occurrences(x, heap[p].items) + held[x] + leaked[x]
          = Occurrences(x, r.items) + hd2[x] + lk2[x] + Occurrences(ReleaseOf(x), w2)
  BY <1>2 DEF Exchanged
<1>4. /\ Put(m, h2, p, r) /\ hd2 \in Tallies /\ lk2 \in Tallies /\ Releases(w2)
      /\ Tagged(bytes, b2, heap[p].kind, heap[p].block, r.block)
      /\ gu2 \/ ~ CyclicIn(h2, {"list"})
  BY <1>2
<1>5. Good(h2, live, hd2, lk2, w2, b2, gu2)
  BY ONLY <1>1, <1>3, <1>4, ReplacedGood, kept \in Seq(Objects), RetainedTo(heap, m, kept),
     p \in Objects, heap[p].count > 0, r \in Obj, ShapedObject(r), r.kind = heap[p].kind,
     r.count = m[p].count
<1>. QED
  BY <1>2, <1>5 DEF Now

(* Objects that refer to nothing new are in no new cycle.                  *)
LEMMA NoNewCycle ==
  ASSUME Now, Quiet, NEW g, \A x \in Objects : Fewer(heap, g, x)
  PROVE  gaveUp \/ ~ CyclicIn(g, {"list"})
BY QuietFacts, CyclicFewer

LEMMA RetainsGood ==
  ASSUME Now, Quiet, NEW v \in Objects, heap[v].count > 0, Gain(v),
         heap' = Retained(heap, <<v>>), UNCHANGED <<live, work, bytes, leaked, gaveUp>>
  PROVE  Now'
<1>1. PICK m : m = heap'
  OBVIOUS
<1>2. /\ RetainedTo(heap, m, <<v>>) /\ <<v>> \in Seq(Objects)
      /\ \A x : Occurrences(x, <<v>>) = One(x, v)
  BY <1>1, RetainedOne
<1>3. m[v] \in Obj /\ ShapedObject(m[v]) /\ Alike(heap[v], m[v]) /\ Put(m, m, v, m[v]) /\ m \in Heaps
  BY <1>2, ObjFacts DEF RetainedTo, Shaped, Grew, Put
<1>4. m[v].kind = heap[v].kind /\ m[v].items = heap[v].items /\ m[v].block = heap[v].block
  BY <1>3 DEF Alike
<1>5. held' \in Tallies /\ \A x \in Objects : held'[x] = held[x] + One(x, v)
  BY QuietFacts, GainIs DEF Gain
<1>6. Exchanged(heap, <<v>>, v, m[v], held, leaked, held', leaked, <<>>)
  <2>1. ASSUME NEW x \in Objects
        PROVE  Occurrences(x, <<v>>) + Occurrences(x, heap[v].items) + held[x] + leaked[x]
                 = Occurrences(x, m[v].items) + held'[x] + leaked[x] + Occurrences(ReleaseOf(x), <<>>)
    <3>1. /\ Occurrences(x, heap[v].items) \in Nat /\ held[x] \in Nat /\ leaked[x] \in Nat
          /\ One(x, v) \in Nat /\ Occurrences(ReleaseOf(x), <<>>) = 0
      BY QuietFacts, ObjFacts, OccurrencesType, OccurrencesEmpty DEF One
    <3>. QED
      BY <1>2, <1>4, <1>5, <3>1
  <2>. QED
    BY <2>1 DEF Exchanged
<1>7. Tagged(bytes, bytes, heap[v].kind, heap[v].block, m[v].block)
  BY <1>4, QuietFacts, ObjFacts, TaggedSame
<1>8. gaveUp \/ ~ CyclicIn(m, {"list"})
  <2>1. \A x \in Objects : Fewer(heap, m, x)
    BY <1>2 DEF RetainedTo, Grew, Alike, Fewer
  <2>. QED
    BY <2>1, NoNewCycle
<1>9. Releases(<<>>) /\ work' = <<>> /\ leaked' \in Tallies
  BY QuietFacts, ReleaseNone
<1>. QED
  BY <1>1, <1>2, <1>3, <1>4, <1>5, <1>6, <1>7, <1>8, <1>9, Changes

LEMMA RetainGood ==
  ASSUME Now, Retain
  PROVE  Now'
<1>1. PICK o \in HeldOf(Kinds) : Gain(o) /\ heap' = Retained(heap, <<o>>)
  BY DEF Retain
<1>2. Quiet /\ UNCHANGED <<live, work, bytes, leaked, gaveUp>>
  BY DEF Retain, History
<1>. QED
  BY <1>1, <1>2, HeldItems, RetainsGood

LEMMA ItemIs ==
  ASSUME NEW h \in Heaps, NEW a \in Objects, Alive(h, h[a].items), NEW i \in DOMAIN h[a].items
  PROVE  h[a].items[i] \in Objects /\ h[h[a].items[i]].count > 0
BY ObjFacts DEF Alive

LEMMA GetItemGood ==
  ASSUME Now, GetItem
  PROVE  Now'
<1>1. Quiet /\ UNCHANGED <<live, work, bytes, leaked, gaveUp>>
  BY DEF GetItem, History
<1>2. PICK a \in HeldOf(Sequential) : \E i \in DOMAIN heap[a].items :
        Gain(heap[a].items[i]) /\ heap' = Retained(heap, <<heap[a].items[i]>>)
  BY DEF GetItem
<1>3. PICK i \in DOMAIN heap[a].items :
        Gain(heap[a].items[i]) /\ heap' = Retained(heap, <<heap[a].items[i]>>)
  BY <1>2
<1>4. heap[a].items[i] \in Objects /\ heap[heap[a].items[i]].count > 0
  BY <1>1, HeldItems, QuietFacts, ItemIs
<1>. QED
  BY <1>1, <1>3, <1>4, RetainsGood

(* A reference held outside is given back: its release is still to be made.*)
LEMMA GivesBack ==
  ASSUME NEW h, NEW l, NEW hd, NEW lk, NEW b, NEW gu, Good(h, l, hd, lk, <<>>, b, gu),
         NEW o \in Objects, hd[o] > 0, NEW hd2, hd2 = [hd EXCEPT ![o] = @ - 1]
  PROVE  Good(h, l, hd2, lk, <<ReleaseOf(o)>>, b, gu)
<1>1. /\ Solid(h, l, <<>>, b) /\ hd \in Tallies /\ lk \in Tallies /\ Counted(h, hd, lk, <<>>)
      /\ gu \/ ~ CyclicIn(h, {"list"})
  BY DEF Good
<1>2. hd2 \in Tallies /\ \A x \in Objects : hd2[x] + One(x, o) = hd[x]
  BY <1>1, LoseIs
<1>3. PICK w : w = <<ReleaseOf(o)>>
  OBVIOUS
<1>4. Releases(w) /\ \A x : Occurrences(ReleaseOf(x), w) = One(x, o)
  BY <1>3, ReleaseOne
<1>5. h \in Heaps /\ <<>> \in Seq(Job) /\ w \in Seq(Job)
  BY <1>1, <1>4 DEF Solid, Releases
<1>6. Freeing(h, w)
  <2>1. \A x \in Objects : h[x].count = 0 => h[x].kind = "freed"
    BY <1>1, NothingWaits
  <2>. QED
    BY <1>4, <2>1, NobodyWaits
<1>7. Counted(h, hd2, lk, w)
  <2>1. ASSUME NEW x \in Objects
        PROVE  h[x].count + Own(h, o, x) + hd[x] + lk[x] + Occurrences(ReleaseOf(x), <<>>)
                 = h[x].count + Own(h, o, x) + hd2[x] + lk[x] + Occurrences(ReleaseOf(x), w)
    <3>1. h[x].count \in Nat /\ Own(h, o, x) \in Nat /\ hd2[x] \in Nat /\ lk[x] \in Nat
          /\ One(x, o) \in Nat
      BY <1>1, <1>2, <1>5, ObjFacts, InType DEF Tallies, One
    <3>2. Occurrences(ReleaseOf(x), <<>>) = 0
      BY OccurrencesEmpty
    <3>. QED
      BY <1>2, <1>4, <3>1, <3>2, SMTT(60)
  <2>2. Balanced(h, h, o, hd, lk, <<>>, hd2, lk, w)
    BY <2>1 DEF Balanced
  <2>3. \A q \in Objects : q # o => SameItems(h, h, q)
    BY DEF SameItems
  <2>. QED
    BY <1>1, <1>2, <1>5, <2>2, <2>3, StillCounted
<1>8. Solid(h, l, w, b)
  BY <1>1, <1>5, <1>6 DEF Solid
<1>. QED
  BY <1>1, <1>2, <1>3, <1>7, <1>8 DEF Good

LEMMA DropGood ==
  ASSUME Now, Drop
  PROVE  Now'
<1>1. Quiet /\ UNCHANGED <<heap, live, bytes, leaked, gaveUp>>
  BY DEF Drop, History
<1>2. PICK o \in HeldOf(Kinds) : Lose(o) /\ work' = <<ReleaseOf(o)>>
  BY DEF Drop
<1>3. o \in Objects /\ held[o] > 0
  BY DEF HeldOf
<1>4. Good(heap, live, held, leaked, <<>>, bytes, gaveUp)
  BY <1>1, QuietFacts
<1>5. PICK hd2 : hd2 = [held EXCEPT ![o] = @ - 1]
  OBVIOUS
<1>6. Good(heap, live, hd2, leaked, <<ReleaseOf(o)>>, bytes, gaveUp)
  BY <1>3, <1>4, <1>5, GivesBack
<1>. QED
  BY <1>1, <1>2, <1>5, <1>6 DEF Now, Lose

(* A list stays one when its items change.                                 *)
LEMMA ListShaped ==
  ASSUME NEW r, r.kind = "list", Len(r.items) <= MaxItems, r.block = r.capacity
  PROVE  ShapedObject(r)
BY DEF ShapedObject

LEMMA ListHas ==
  ASSUME NEW r, r.kind = "list", ShapedObject(r)
  PROVE  Len(r.items) <= MaxItems /\ r.block = r.capacity
BY DEF ShapedObject

(* All items but the last one.                                             *)
LEMMA ButLast ==
  ASSUME NEW s \in Seq(Objects), s # <<>>, NEW u, u = SubSeq(s, 1, Len(s) - 1)
  PROVE  /\ u \in Seq(Objects) /\ Len(u) <= Len(s) /\ s[Len(s)] \in Objects
         /\ Len(s) \in DOMAIN s
         /\ \A i \in DOMAIN u : i \in DOMAIN s /\ u[i] = s[i]
         /\ \A x : /\ Occurrences(x, u) + One(x, s[Len(s)]) = Occurrences(x, s)
                   /\ Occurrences(x, u) \in Nat
<1>1. u \in Seq(Objects) /\ Len(s) \in Nat /\ Len(s) > 0 /\ Len(u) = Len(s) - 1
      /\ DOMAIN s = 1..Len(s) /\ s[Len(s)] \in Objects
      /\ \A i \in DOMAIN u : i \in DOMAIN s /\ u[i] = s[i]
  <2>1. Len(s) \in Nat /\ Len(s) > 0 /\ DOMAIN s = 1..Len(s) /\ s[Len(s)] \in Objects
    OBVIOUS
  <2>2. Len(s) - 1 \in Nat /\ Len(s) - 1 <= Len(s)
    BY <2>1
  <2>3. PICK n \in Nat : n = Len(s) - 1 /\ n <= Len(s)
    BY <2>2
  <2>4. u = SubSeq(s, 1, n)
    BY <2>3
  <2>5. u \in Seq(Objects) /\ Len(u) = n /\ DOMAIN u = 1..n /\ \A i \in 1..n : u[i] = s[i]
    BY <2>1, <2>3, <2>4
  <2>. QED
    BY <2>1, <2>3, <2>5
<1>2. \A x : Occurrences(x, u) + One(x, s[Len(s)]) = Occurrences(x, s)
  BY OccurrencesLast
<1>3. \A x : Occurrences(x, u) \in Nat
  BY <1>1, OccurrencesType
<1>. QED
  BY <1>1, <1>2, <1>3

(* The list that pop leaves.                                               *)
Shorter(list, m, r) ==
  /\ list \in Objects /\ heap[list].count > 0 /\ r \in Obj /\ ShapedObject(r)
  /\ r.kind = heap[list].kind /\ r.count = m[list].count
  /\ LastOf(list) \in Objects /\ heap[LastOf(list)].count > 0
  /\ \A x : /\ Occurrences(x, r.items) + One(x, LastOf(list)) = Occurrences(x, heap[list].items)
            /\ Occurrences(x, r.items) \in Nat
  /\ \A i \in DOMAIN r.items : \E j \in DOMAIN heap[list].items :
       heap[list].items[j] = r.items[i]
  /\ Tagged(bytes, bytes, heap[list].kind, heap[list].block, r.block)

LEMMA ShortList ==
  ASSUME Now, Quiet, NEW list \in HeldOf({"list"}), heap[list].items # <<>>,
         NEW m \in Heaps, Alike(heap[list], m[list]), NEW r,
         r = WithItems(m[list], SubSeq(m[list].items, 1, Len(m[list].items) - 1))
  PROVE  Shorter(list, m, r)
<1>1. PICK s, u : s = heap[list].items /\ u = SubSeq(s, 1, Len(s) - 1)
  OBVIOUS
<1>2. /\ list \in Objects /\ s \in Seq(Objects) /\ Alive(heap, s)
      /\ heap[list].count > 0 /\ heap[list].kind = "list" /\ ShapedObject(heap[list])
      /\ heap \in Heaps /\ Sizes(heap, bytes)
  BY <1>1, HeldItems, QuietFacts
<1>3. /\ u \in Seq(Objects) /\ Len(u) <= Len(s) /\ s[Len(s)] \in Objects /\ Len(s) \in DOMAIN s
      /\ \A i \in DOMAIN u : i \in DOMAIN s /\ u[i] = s[i]
      /\ \A x : /\ Occurrences(x, u) + One(x, s[Len(s)]) = Occurrences(x, s)
                /\ Occurrences(x, u) \in Nat
  <2>1. s # <<>>
    BY <1>1
  <2>2. s \in Seq(Objects) /\ u = SubSeq(s, 1, Len(s) - 1)
    BY <1>1, <1>2
  <2>. QED
    BY ONLY <2>1, <2>2, ButLast
<1>4. m[list] \in Obj /\ m[list].kind = "list" /\ m[list].block = heap[list].block
      /\ m[list].capacity = heap[list].capacity /\ r = WithItems(m[list], u)
  BY <1>1, <1>2, ObjFacts DEF Alike
<1>5. /\ r \in Obj /\ r.items = u /\ r.count = m[list].count /\ r.kind = "list"
      /\ r.block = heap[list].block /\ r.capacity = heap[list].capacity
  BY <1>3, <1>4, WithItemsIs
<1>6. ShapedObject(r)
  <2>1. Len(s) <= MaxItems /\ r.block = r.capacity
    BY <1>1, <1>2, <1>5, ListHas
  <2>2. Len(u) <= MaxItems
    BY <1>2, <1>3, <2>1, BoundsAssumption
  <2>. QED
    BY <1>5, <2>1, <2>2, ListShaped
<1>7. LastOf(list) = s[Len(s)] /\ heap[s[Len(s)]].count > 0
  BY <1>1, <1>2, <1>3 DEF LastOf, Alive
<1>8. Tagged(bytes, bytes, heap[list].kind, heap[list].block, r.block)
  BY <1>2, <1>5, ObjFacts, TaggedSame
<1>. QED
  BY <1>1, <1>2, <1>3, <1>5, <1>6, <1>7, <1>8 DEF Shorter

LEMMA PopGood ==
  ASSUME Now, Pop
  PROVE  Now'
<1>1. Quiet /\ UNCHANGED <<live, work, bytes, leaked, gaveUp>>
  BY DEF Pop, History
<1>2. PICK list \in HeldOf({"list"}) :
        heap[list].items # <<>> /\ Gain(LastOf(list)) /\ heap' = Shortened(list)
  BY DEF Pop
<1>3. PICK r : r = WithItems(heap[list], SubSeq(heap[list].items, 1, Len(heap[list].items) - 1))
  OBVIOUS
<1>4. heap' = [heap EXCEPT ![list] = r]
  BY <1>2, <1>3 DEF Shortened
<1>5. heap \in Heaps /\ Alike(heap[list], heap[list])
  BY <1>1, QuietFacts DEF Alike
<1>6. /\ list \in Objects /\ heap[list].count > 0 /\ r \in Obj /\ ShapedObject(r)
      /\ r.kind = heap[list].kind /\ r.count = heap[list].count
      /\ LastOf(list) \in Objects /\ heap[LastOf(list)].count > 0
      /\ \A x : /\ Occurrences(x, r.items) + One(x, LastOf(list)) = Occurrences(x, heap[list].items)
                /\ Occurrences(x, r.items) \in Nat
      /\ \A i \in DOMAIN r.items : \E j \in DOMAIN heap[list].items :
           heap[list].items[j] = r.items[i]
      /\ Tagged(bytes, bytes, heap[list].kind, heap[list].block, r.block)
  <2>1. Shorter(list, heap, r)
    BY <1>1, <1>2, <1>3, <1>5, ShortList
  <2>. QED
    BY <2>1 DEF Shorter
<1>7. Put(heap, heap', list, r)
  BY <1>4, <1>5, <1>6, PutIs
<1>8. held' \in Tallies /\ \A x \in Objects : held'[x] = held[x] + One(x, LastOf(list))
  BY <1>1, <1>2, <1>6, QuietFacts, Gained
<1>9. Exchanged(heap, <<>>, list, r, held, leaked, held', leaked, <<>>)
  <2>1. ASSUME NEW x \in Objects
        PROVE  Occurrences(x, <<>>) + Occurrences(x, heap[list].items) + held[x] + leaked[x]
                 = Occurrences(x, r.items) + held'[x] + leaked[x] + Occurrences(ReleaseOf(x), <<>>)
    <3>1. /\ Occurrences(x, r.items) \in Nat /\ held[x] \in Nat /\ leaked[x] \in Nat
          /\ One(x, LastOf(list)) \in Nat /\ Occurrences(ReleaseOf(x), <<>>) = 0
          /\ Occurrences(x, <<>>) = 0
      BY <1>1, <1>6, QuietFacts, OccurrencesEmpty DEF One
    <3>2. Occurrences(x, r.items) + One(x, LastOf(list)) = Occurrences(x, heap[list].items)
      BY <1>6
    <3>. QED
      BY <1>8, <3>1, <3>2
  <2>. QED
    BY <2>1 DEF Exchanged
<1>10. gaveUp \/ ~ CyclicIn(heap', {"list"})
  <2>1. \A x \in Objects : Fewer(heap, heap', x)
    BY <1>6, <1>7 DEF Put, Fewer
  <2>. QED
    BY <1>1, <2>1, NoNewCycle
<1>11. RetainedTo(heap, heap, <<>>) /\ <<>> \in Seq(Objects) /\ leaked \in Tallies
       /\ Releases(<<>>) /\ work' = <<>>
  BY <1>1, QuietFacts, RetainedNothing, ReleaseNone
<1>. QED
  BY <1>1, <1>6, <1>7, <1>8, <1>9, <1>10, <1>11, Changes

LEMMA ListPopGood ==
  ASSUME Now, ListPop
  PROVE  Now'
<1>1. Quiet /\ UNCHANGED <<live, work, bytes, gaveUp>>
  BY DEF ListPop
<1>2. PICK list \in HeldOf({"list"}) :
        /\ heap[list].items # <<>> /\ Gain(LastOf(list))
        /\ leaked' = [leaked EXCEPT ![LastOf(list)] = @ + 1]
        /\ heap' = Retained(Shortened(list), <<LastOf(list)>>)
  BY DEF ListPop
<1>3. PICK v : v = LastOf(list)
  OBVIOUS
<1>4. PICK s0 : s0 = WithItems(heap[list], SubSeq(heap[list].items, 1, Len(heap[list].items) - 1))
  OBVIOUS
<1>5. heap \in Heaps /\ Alike(heap[list], heap[list]) /\ leaked \in Tallies
  BY <1>1, QuietFacts DEF Alike
<1>6. list \in Objects /\ heap[list].count > 0 /\ v \in Objects /\ heap[v].count > 0 /\ s0 \in Obj
  <2>1. Shorter(list, heap, s0)
    BY <1>1, <1>2, <1>4, <1>5, ShortList
  <2>. QED
    BY <1>3, <2>1 DEF Shorter
<1>7. PICK m : m = Retained(heap, <<v>>)
  OBVIOUS
<1>8. /\ RetainedTo(heap, m, <<v>>) /\ <<v>> \in Seq(Objects)
      /\ \A x : Occurrences(x, <<v>>) = One(x, v)
  BY <1>1, <1>6, <1>7, RetainedOne
<1>9. m \in Heaps /\ Alike(heap[list], m[list])
  BY <1>6, <1>8 DEF RetainedTo, Grew
<1>10. PICK r : r = WithItems(m[list], SubSeq(m[list].items, 1, Len(m[list].items) - 1))
  OBVIOUS
<1>11. /\ r \in Obj /\ ShapedObject(r) /\ r.kind = heap[list].kind /\ r.count = m[list].count
       /\ \A x : /\ Occurrences(x, r.items) + One(x, LastOf(list)) = Occurrences(x, heap[list].items)
                 /\ Occurrences(x, r.items) \in Nat
       /\ \A i \in DOMAIN r.items : \E j \in DOMAIN heap[list].items :
            heap[list].items[j] = r.items[i]
       /\ Tagged(bytes, bytes, heap[list].kind, heap[list].block, r.block)
  <2>1. Shorter(list, m, r)
    BY <1>1, <1>2, <1>9, <1>10, ShortList
  <2>. QED
    BY <2>1 DEF Shorter
<1>12. Put(m, heap', list, r)
  <2>1. PICK g : g = [heap EXCEPT ![list] = s0]
    OBVIOUS
  <2>2. Put(heap, g, list, s0)
    BY <1>5, <1>6, <2>1, PutIs
  <2>3. heap' = Retained(g, <<v>>)
    BY <1>2, <1>3, <1>4, <2>1 DEF Shortened
  <2>4. ASSUME NEW x \in Objects, NEW h \in Heaps
        PROVE  /\ Retained(h, <<v>>)[x] = [h[x] EXCEPT !.count = @ + One(x, v)]
               /\ One(x, v) \in Nat /\ h[x] \in Obj
    BY <1>8, <2>4, ObjFacts DEF Retained, One
  <2>5. g \in Heaps
    BY <2>2 DEF Put
  <2>6. heap'[list] = r
    <3>1. PICK n \in Nat : n = One(list, v)
      BY <1>6, <2>4, <1>5
    <3>2. heap'[list] = [s0 EXCEPT !.count = @ + n] /\ m[list] = [heap[list] EXCEPT !.count = @ + n]
          /\ heap[list] \in Obj
      BY <1>5, <1>6, <1>7, <2>2, <2>3, <2>4, <2>5, <3>1 DEF Put
    <3>3. PICK u : u = SubSeq(heap[list].items, 1, Len(heap[list].items) - 1)
      OBVIOUS
    <3>4. m[list].items = heap[list].items
      BY <1>9 DEF Alike
    <3>5. PICK a \in Obj : a = heap[list]
      BY <3>2
    <3>6. heap'[list] = [[a EXCEPT !.items = u] EXCEPT !.count = @ + n]
          /\ r = [[a EXCEPT !.count = @ + n] EXCEPT !.items = u]
      BY <1>4, <1>10, <3>2, <3>3, <3>4, <3>5 DEF WithItems
    <3>7. [[a EXCEPT !.items = u] EXCEPT !.count = @ + n] = [[a EXCEPT !.count = @ + n] EXCEPT !.items = u]
      BY DEF Obj
    <3>. QED
      BY <3>6, <3>7
  <2>7. \A x \in Objects : x # list => heap'[x] = m[x]
    <3>1. ASSUME NEW x \in Objects, x # list  PROVE heap'[x] = m[x]
      <4>1. g[x] = heap[x]
        BY <2>2, <3>1 DEF Put
      <4>2. heap'[x] = [g[x] EXCEPT !.count = @ + One(x, v)]
        BY <2>3, <2>4, <2>5
      <4>3. m[x] = [heap[x] EXCEPT !.count = @ + One(x, v)]
        BY <1>5, <1>7, <2>4
      <4>. QED
        BY <4>1, <4>2, <4>3
    <3>. QED
      BY <3>1
  <2>8. heap' \in Heaps
    <3>1. heap' = [x \in Objects |-> heap'[x]]
      BY <2>3 DEF Retained
    <3>2. \A x \in Objects : heap'[x] \in Obj
      BY <1>9, <1>11, <2>6, <2>7, ObjFacts
    <3>. QED
      BY <3>1, <3>2 DEF Heaps
  <2>. QED
    BY <2>6, <2>7, <2>8 DEF Put
<1>13. held' \in Tallies /\ \A x \in Objects : held'[x] = held[x] + One(x, v)
  <2>1. held \in Tallies /\ Gain(v)
    BY <1>1, <1>2, <1>3, QuietFacts
  <2>. QED
    BY <1>6, <2>1, Gained
<1>14. leaked' \in Tallies /\ \A x \in Objects : leaked'[x] = leaked[x] + One(x, v)
  BY <1>2, <1>3, <1>5, <1>6, GainIs
<1>15. Exchanged(heap, <<v>>, list, r, held, leaked, held', leaked', <<>>)
  <2>1. ASSUME NEW x \in Objects
        PROVE  Occurrences(x, <<v>>) + Occurrences(x, heap[list].items) + held[x] + leaked[x]
                 = Occurrences(x, r.items) + held'[x] + leaked'[x] + Occurrences(ReleaseOf(x), <<>>)
    <3>1. /\ Occurrences(x, r.items) \in Nat /\ held[x] \in Nat /\ leaked[x] \in Nat
          /\ One(x, v) \in Nat /\ Occurrences(ReleaseOf(x), <<>>) = 0
      BY <1>1, <1>11, QuietFacts, OccurrencesEmpty DEF One
    <3>2. Occurrences(x, r.items) + One(x, v) = Occurrences(x, heap[list].items)
      BY <1>3, <1>11
    <3>3. held'[x] = held[x] + One(x, v) /\ leaked'[x] = leaked[x] + One(x, v)
          /\ Occurrences(x, <<v>>) = One(x, v)
      BY <1>8, <1>13, <1>14
    <3>. QED
      BY <3>1, <3>2, <3>3
  <2>. QED
    BY <2>1 DEF Exchanged
<1>16. gaveUp \/ ~ CyclicIn(heap', {"list"})
  <2>1. \A x \in Objects : Fewer(heap, heap', x)
    <3>1. ASSUME NEW x \in Objects, x # list  PROVE Fewer(heap, heap', x)
      BY <1>8, <1>12, <3>1 DEF Put, Fewer, RetainedTo, Grew, Alike
    <3>2. Fewer(heap, heap', list)
      BY <1>6, <1>11, <1>12 DEF Put, Fewer
    <3>. QED
      BY <3>1, <3>2
  <2>. QED
    BY <1>1, <2>1, NoNewCycle
<1>17. Releases(<<>>) /\ work' = <<>>
  BY <1>1, QuietFacts, ReleaseNone
<1>. QED
  BY <1>1, <1>6, <1>8, <1>11, <1>12, <1>13, <1>14, <1>15, <1>16, <1>17, Changes

(* An iterator is made like any other object.                              *)
LEMMA RangeMade ==
  ASSUME NEW h \in Heaps, Shaped(h), NEW r \in Objects, h[r].kind = "freed",
         NEW list \in Objects, h[list].count > 0
  PROVE  MadeTo(h, MadeRange(h, r, list), r, "range", <<list>>, 0)
<1>1. PICK m : m = Made(h, r, "range", <<list>>, 0)
  OBVIOUS
<1>2. <<list>> \in Seq(Objects) /\ Alive(h, <<list>>) /\ Len(<<list>>) = 1
  BY DEF Alive
<1>3. Fits("range", <<list>>, 0)
  BY <1>2, BoundsAssumption DEF Fits, Kinds
<1>4. MadeTo(h, m, r, "range", <<list>>, 0)
  BY <1>1, <1>2, <1>3, MadeIs
<1>5. PICK n \in Nat : n = Len(h[list].items)
  BY ObjFacts
<1>6. PICK g : g = MadeRange(h, r, list)
  OBVIOUS
<1>7. g = [m EXCEPT ![r].stop = n]
  BY <1>1, <1>5, <1>6 DEF MadeRange
<1>8. m \in Heaps /\ m[r] \in Obj /\ ShapedObject(m[r])
      /\ m[r].kind = "range" /\ m[r].items = <<list>> /\ m[r].count = 1 /\ m[r].block = 0
  BY <1>4, ObjFacts DEF MadeTo, Shaped
<1>9. PICK q : q = [m[r] EXCEPT !.stop = n]
  OBVIOUS
<1>10. /\ q \in Obj /\ q.kind = "range" /\ q.items = <<list>> /\ q.count = 1 /\ q.block = 0
  BY <1>5, <1>8, <1>9 DEF Obj
<1>11. ShapedObject(q)
  BY <1>8, <1>10 DEF ShapedObject
<1>12. Put(m, g, r, q)
  <2>1. g = [m EXCEPT ![r] = q]
    BY <1>7, <1>8, <1>9 DEF Heaps
  <2>. QED
    BY <1>8, <1>10, <2>1, PutIs
<1>13. Shaped(g)
  BY <1>4, <1>11, <1>12 DEF Put, Shaped, MadeTo
<1>14. \A x \in Objects : x # r => Grew(h, g, x, Occurrences(x, <<list>>))
  BY <1>4, <1>12 DEF Put, MadeTo, Grew
<1>15. MadeTo(h, g, r, "range", <<list>>, 0)
  BY <1>4, <1>10, <1>12, <1>13, <1>14 DEF Put, MadeTo
<1>. QED
  BY <1>6, <1>15

LEMMA IterateListGood ==
  ASSUME Now, IterateList
  PROVE  Now'
<1>1. Quiet /\ work' = <<>> /\ leaked' = leaked /\ gaveUp' = gaveUp
      /\ bytes' = [bytes EXCEPT !["range"] = @ + 1]
  BY QuietFacts DEF IterateList, History
<1>2. PICK list \in HeldOf({"list"}), r \in Objects :
        Fresh(r) /\ Gain(r) /\ live' = <<r>> \o live /\ heap' = MadeRange(heap, r, list)
  BY DEF IterateList
<1>3. list \in Objects /\ heap[list].count > 0 /\ heap[r].kind = "freed"
  BY <1>1, <1>2, HeldItems DEF Fresh, Is
<1>4. MadeTo(heap, heap', r, "range", <<list>>, 0)
  BY <1>1, <1>2, <1>3, QuietFacts, RangeMade
<1>5. held' \in Tallies
      /\ \A x \in Objects : held'[x] + Occurrences(ReleaseOf(x), <<>>) = held[x] + One(x, r)
  <2>1. held' \in Tallies /\ \A x \in Objects : held'[x] = held[x] + One(x, r)
    BY <1>1, <1>2, QuietFacts, Gained
  <2>2. \A x \in Objects : held'[x] \in Nat
    BY <2>1 DEF Tallies
  <2>. QED
    BY <2>1, <2>2, OccurrencesEmpty
<1>6. Tagged(bytes, bytes', "range", 0, 1 + 0)
  BY <1>1, QuietFacts, OneByte DEF Kinds
<1>7. Good(heap', <<r>> \o live, held', leaked, <<>>, bytes', gaveUp)
  BY <1>1, <1>4, <1>5, <1>6, QuietFacts, ReleaseNone, MadeGood
<1>. QED
  BY <1>1, <1>2, <1>7 DEF Now

(* The list of a tuple's items is released when the iterator has it, or    *)
(* when it could not be made.                                              *)
LEMMA IterateTupleGood ==
  ASSUME Now, IterateTuple
  PROVE  Now'
<1>1. Quiet /\ leaked' = leaked /\ gaveUp' = gaveUp
  BY DEF IterateTuple, History
<1>2. PICK t \in HeldOf({"tuple"}), list \in Objects :
       LET items == heap[t].items
           copy == Made(heap, list, "list", items, CapacityFor(Len(items)))
       IN /\ Fresh(list) /\ work' = <<ReleaseOf(list)>>
          /\ \/ \E r \in Objects \ {list} :
                  /\ Fresh(r) /\ Gain(r) /\ live' = <<r, list>> \o live /\ heap' = MadeRange(copy, r, list)
                  /\ bytes' = [bytes EXCEPT !["range"] = @ + 1,
                                            !["list"] = @ + 1 + CapacityFor(Len(items))]
             \/ \E n \in 0..Len(items) :
                  /\ CapacityFor(n) = n \/ n = Len(items)
                  /\ heap' = Made(heap, list, "list", SubSeq(items, 1, n), CapacityFor(n))
                  /\ bytes' = [bytes EXCEPT !["list"] = @ + 1 + CapacityFor(n)]
                  /\ live' = <<list>> \o live /\ UNCHANGED held
  BY DEF IterateTuple
<1>3. PICK items : items = heap[t].items
  OBVIOUS
<1>4. items \in Seq(Objects) /\ Alive(heap, items) /\ Len(items) \in Nat /\ Len(items) <= MaxItems
      /\ heap[list].kind = "freed" /\ work' = <<ReleaseOf(list)>>
  BY <1>1, <1>2, <1>3, HeldItems DEF Fresh, Is, ShapedObject
<1>5. Releases(work') /\ \A x : Occurrences(ReleaseOf(x), work') = One(x, list)
  BY <1>4, ReleaseOne
<1>6. PICK capacity \in Nat : capacity = CapacityFor(Len(items))
  BY <1>4, CapacityIs
<1>7. CASE \E r \in Objects \ {list} :
             /\ Fresh(r) /\ Gain(r) /\ live' = <<r, list>> \o live
             /\ heap' = MadeRange(Made(heap, list, "list", items, capacity), r, list)
             /\ bytes' = [bytes EXCEPT !["range"] = @ + 1, !["list"] = @ + 1 + capacity]
  <2>1. PICK r \in Objects \ {list} :
             /\ Fresh(r) /\ Gain(r) /\ live' = <<r, list>> \o live
             /\ heap' = MadeRange(Made(heap, list, "list", items, capacity), r, list)
             /\ bytes' = [bytes EXCEPT !["range"] = @ + 1, !["list"] = @ + 1 + capacity]
    BY <1>7
  <2>2. PICK copy : copy = Made(heap, list, "list", items, capacity)
    OBVIOUS
  <2>3. Fits("list", items, capacity)
    BY <1>4 DEF Fits, Kinds
  <2>4. MadeTo(heap, copy, list, "list", items, capacity)
    BY <1>1, <1>4, <2>2, <2>3, QuietFacts, MadeIs
  <2>5. PICK hd : hd = [held EXCEPT ![list] = @ + 1]
    OBVIOUS
  <2>6. hd \in Tallies /\ \A x \in Objects : hd[x] = held[x] + One(x, list)
    BY <1>1, <2>5, QuietFacts, GainIs
  <2>7. \A x \in Objects : hd[x] + Occurrences(ReleaseOf(x), <<>>) = held[x] + One(x, list)
    <3>1. \A x \in Objects : hd[x] \in Nat
      BY <2>6 DEF Tallies
    <3>. QED
      BY <2>6, <3>1, OccurrencesEmpty
  <2>8. PICK c : c = [bytes EXCEPT !["list"] = @ + 1 + capacity]
    OBVIOUS
  <2>9. Tagged(bytes, c, "list", 0, 1 + capacity)
    BY <1>1, <2>8, QuietFacts, MoreBytes DEF Kinds
  <2>10. Good(copy, <<list>> \o live, hd, leaked, <<>>, c, gaveUp)
    BY <1>1, <2>4, <2>6, <2>7, <2>9, QuietFacts, ReleaseNone, MadeGood
  <2>11. copy \in Heaps /\ Shaped(copy) /\ copy[list].count > 0 /\ Sizes(copy, c)
    BY <2>4, <2>10 DEF MadeTo, Good, Solid
  <2>12. copy[r].kind = "freed"
    <3>1. heap[r].kind = "freed"
      BY <2>1 DEF Fresh, Is
    <3>. QED
      BY <2>1, <2>4, <3>1 DEF MadeTo, Grew, Alike
  <2>13. MadeTo(copy, heap', r, "range", <<list>>, 0)
    BY <2>1, <2>2, <2>11, <2>12, RangeMade
  <2>14. held' \in Tallies
         /\ \A x \in Objects : held'[x] + Occurrences(ReleaseOf(x), work') = hd[x] + One(x, r)
    <3>1. held' \in Tallies /\ \A x \in Objects : held'[x] = held[x] + One(x, r)
      BY <1>1, <2>1, QuietFacts, Gained
    <3>2. \A x \in Objects : held[x] \in Nat /\ One(x, r) \in Nat /\ One(x, list) \in Nat
      BY <1>1, QuietFacts DEF One
    <3>. QED
      BY <1>5, <2>6, <3>1, <3>2
  <2>15. bytes' = [c EXCEPT !["range"] = @ + 1]
    BY <1>1, <2>1, <2>8, QuietFacts DEF Sizes, Kinds
  <2>16. Tagged(c, bytes', "range", 0, 1 + 0)
    BY <2>11, <2>15, OneByte DEF Kinds
  <2>17. Good(heap', <<r>> \o (<<list>> \o live), held', leaked, work', bytes', gaveUp)
    BY <1>5, <2>1, <2>10, <2>11, <2>13, <2>14, <2>16, MadeGood
  <2>18. <<r>> \o (<<list>> \o live) = <<r, list>> \o live
    <3>1. live \in Seq(Objects)
      BY DEF Now, Good, Solid, Listed
    <3>. QED
      BY <2>1, <3>1
  <2>. QED
    BY <1>1, <2>1, <2>17, <2>18 DEF Now
<1>8. CASE \E n \in 0..Len(items) :
             /\ heap' = Made(heap, list, "list", SubSeq(items, 1, n), CapacityFor(n))
             /\ bytes' = [bytes EXCEPT !["list"] = @ + 1 + CapacityFor(n)]
             /\ live' = <<list>> \o live /\ UNCHANGED held
  <2>1. PICK n \in 0..Len(items) :
             /\ heap' = Made(heap, list, "list", SubSeq(items, 1, n), CapacityFor(n))
             /\ bytes' = [bytes EXCEPT !["list"] = @ + 1 + CapacityFor(n)]
             /\ live' = <<list>> \o live /\ held' = held
    BY <1>8
  <2>2. SubSeq(items, 1, n) \in Seq(Objects) /\ Alive(heap, SubSeq(items, 1, n))
        /\ Len(SubSeq(items, 1, n)) = n /\ n \in Nat
    BY <1>4, FirstItems
  <2>3. CapacityFor(n) \in Nat /\ n <= MaxItems
    BY <1>4, <2>2, CapacityIs, BoundsAssumption
  <2>4. Fits("list", SubSeq(items, 1, n), CapacityFor(n))
    BY <2>2, <2>3 DEF Fits, Kinds
  <2>5. MadeTo(heap, heap', list, "list", SubSeq(items, 1, n), CapacityFor(n))
    BY <1>1, <1>4, <2>1, <2>2, <2>4, QuietFacts, MadeIs
  <2>6. Tagged(bytes, bytes', "list", 0, 1 + CapacityFor(n))
    BY <1>1, <2>1, <2>3, QuietFacts, MoreBytes DEF Kinds
  <2>7. \A x \in Objects : held[x] + Occurrences(ReleaseOf(x), work') = held[x] + One(x, list)
    BY <1>5
  <2>8. held \in Tallies
    BY <1>1, QuietFacts
  <2>9. Good(heap', <<list>> \o live, held, leaked, work', bytes', gaveUp)
    BY <1>1, <1>5, <2>5, <2>6, <2>7, <2>8, QuietFacts, MadeGood
  <2>. QED
    BY <1>1, <2>1, <2>9 DEF Now
<1>. QED
  BY <1>2, <1>3, <1>6, <1>7, <1>8

LEMMA IterateNextGood ==
  ASSUME Now, IterateNext
  PROVE  Now'
<1>1. Quiet /\ UNCHANGED <<live, work, bytes, leaked, gaveUp>>
  BY DEF IterateNext, History
<1>2. PICK r \in HeldOf({"range"}) :
       LET items == heap[heap[r].items[1]].items
           value == items[heap[r].current + 1]
       IN /\ heap[r].current < heap[r].stop /\ heap[r].current < Len(items)
          /\ Gain(value)
          /\ heap' = [Retained(heap, <<value>>) EXCEPT ![r].current = @ + 1]
  BY DEF IterateNext
<1>3. PICK list, v : list = heap[r].items[1] /\ v = heap[list].items[heap[r].current + 1]
  OBVIOUS
<1>4. /\ r \in Objects /\ heap[r].count > 0 /\ heap[r].kind = "range" /\ ShapedObject(heap[r])
      /\ heap[r].items \in Seq(Objects) /\ Alive(heap, heap[r].items) /\ heap \in Heaps
      /\ heap[r].current \in Nat
  BY <1>1, HeldItems, QuietFacts, ObjFacts
<1>5. list \in Objects /\ heap[list].count > 0
  <2>1. 1 \in DOMAIN heap[r].items
    BY <1>4 DEF ShapedObject
  <2>. QED
    BY <1>3, <1>4, <2>1, ItemIs
<1>6. v \in Objects /\ heap[v].count > 0
  <2>1. Alive(heap, heap[list].items) /\ Len(heap[list].items) \in Nat
        /\ DOMAIN heap[list].items = 1..Len(heap[list].items)
    BY <1>1, <1>4, <1>5, QuietFacts, ObjFacts
  <2>2. heap[r].current + 1 \in DOMAIN heap[list].items
    <3>1. heap[r].current < Len(heap[list].items)
      BY <1>2, <1>3
    <3>2. PICK c \in Nat, n \in Nat : c = heap[r].current /\ n = Len(heap[list].items)
      BY <1>4, <2>1
    <3>3. c + 1 \in 1..n
      BY <3>1, <3>2
    <3>. QED
      BY <2>1, <3>2, <3>3
  <2>. QED
    BY <1>3, <1>4, <1>5, <2>1, <2>2, ItemIs
<1>7. PICK m : m = Retained(heap, <<v>>)
  OBVIOUS
<1>8. /\ RetainedTo(heap, m, <<v>>) /\ <<v>> \in Seq(Objects)
      /\ \A x : Occurrences(x, <<v>>) = One(x, v)
  BY <1>1, <1>6, <1>7, RetainedOne
<1>9. m \in Heaps /\ m[r] \in Obj /\ ShapedObject(m[r]) /\ Alike(heap[r], m[r])
  BY <1>4, <1>8, ObjFacts DEF RetainedTo, Grew, Shaped
<1>10. PICK q : q = [m[r] EXCEPT !.current = @ + 1]
  OBVIOUS
<1>11. /\ q \in Obj /\ q.kind = m[r].kind /\ q.items = m[r].items /\ q.count = m[r].count
       /\ q.block = m[r].block /\ q.capacity = m[r].capacity
  BY <1>9, <1>10 DEF Obj
<1>12. /\ ShapedObject(q) /\ q.kind = heap[r].kind /\ q.items = heap[r].items
       /\ q.block = heap[r].block
  BY <1>4, <1>9, <1>11 DEF ShapedObject, Alike
<1>13. Put(m, heap', r, q)
  <2>1. heap' = [m EXCEPT ![r] = q]
    <3>1. heap' = [m EXCEPT ![r].current = @ + 1]
      BY <1>2, <1>3, <1>7
    <3>. QED
      BY ONLY <3>1, <1>10
  <2>. QED
    BY ONLY <1>4, <1>9, <1>11, <2>1, PutIs
<1>14. held' \in Tallies /\ \A x \in Objects : held'[x] = held[x] + One(x, v)
  <2>1. Gain(v) /\ held \in Tallies
    BY <1>1, <1>2, <1>3, QuietFacts
  <2>. QED
    BY <1>6, <2>1, Gained
<1>15. Exchanged(heap, <<v>>, r, q, held, leaked, held', leaked, <<>>)
  <2>1. ASSUME NEW x \in Objects
        PROVE  Occurrences(x, <<v>>) + Occurrences(x, heap[r].items) + held[x] + leaked[x]
                 = Occurrences(x, q.items) + held'[x] + leaked[x] + Occurrences(ReleaseOf(x), <<>>)
    <3>1. /\ Occurrences(x, heap[r].items) \in Nat /\ held[x] \in Nat /\ leaked[x] \in Nat
          /\ One(x, v) \in Nat /\ Occurrences(ReleaseOf(x), <<>>) = 0
      BY <1>1, <1>4, QuietFacts, OccurrencesEmpty, OccurrencesType DEF One
    <3>2. held'[x] = held[x] + One(x, v) /\ Occurrences(x, <<v>>) = One(x, v)
          /\ q.items = heap[r].items
      BY <1>8, <1>12, <1>14
    <3>. QED
      BY <3>1, <3>2
  <2>. QED
    BY <2>1 DEF Exchanged
<1>16. Tagged(bytes, bytes, heap[r].kind, heap[r].block, q.block)
  BY <1>1, <1>4, <1>12, QuietFacts, ObjFacts, TaggedSame
<1>17. gaveUp \/ ~ CyclicIn(heap', {"list"})
  <2>1. ASSUME NEW x \in Objects  PROVE Fewer(heap, heap', x)
    <3>1. CASE x = r
      BY <1>4, <1>12, <1>13, <3>1 DEF Put, Fewer
    <3>2. CASE x # r
      BY <1>8, <1>13, <3>2 DEF Put, Fewer, RetainedTo, Grew, Alike
    <3>. QED
      BY <3>1, <3>2
  <2>. QED
    BY <1>1, <2>1, NoNewCycle
<1>18. Releases(<<>>) /\ work' = <<>> /\ leaked' \in Tallies
  BY <1>1, QuietFacts, ReleaseNone
<1>. QED
  BY <1>1, <1>4, <1>8, <1>11, <1>12, <1>13, <1>14, <1>15, <1>16, <1>17, <1>18, Changes

-----------------------------------------------------------------------------
(* The containment check: what it finds absent is absent.                  *)

Has(s, x) == \E i \in DOMAIN s : s[i] = x

Queues == {s \in Seq(Objects) : Len(s) <= Reach}
Fillings == [lists : Queues, full : BOOLEAN]

LEMMA HasAppend ==
  ASSUME NEW s \in Seq(Objects), NEW v \in Objects
  PROVE  /\ Append(s, v) \in Seq(Objects) /\ Len(Append(s, v)) = Len(s) + 1
         /\ Has(Append(s, v), v) /\ \A x : Has(s, x) => Has(Append(s, v), x)
<1>1. /\ Append(s, v) \in Seq(Objects) /\ Len(Append(s, v)) = Len(s) + 1 /\ Len(s) \in Nat
      /\ DOMAIN Append(s, v) = 1..(Len(s) + 1) /\ DOMAIN s = 1..Len(s)
      /\ Append(s, v)[Len(s) + 1] = v /\ \A i \in 1..Len(s) : Append(s, v)[i] = s[i]
  OBVIOUS
<1>2. Len(s) + 1 \in DOMAIN Append(s, v)
  BY <1>1
<1>3. Has(Append(s, v), v)
  BY <1>1, <1>2 DEF Has
<1>4. ASSUME NEW x, Has(s, x)  PROVE Has(Append(s, v), x)
  <2>1. PICK i \in 1..Len(s) : s[i] = x
    BY <1>1, <1>4 DEF Has
  <2>2. i \in DOMAIN Append(s, v) /\ Append(s, v)[i] = x
    BY <1>1, <2>1
  <2>. QED
    BY <2>2 DEF Has
<1>. QED
  BY <1>1, <1>3, <1>4

(* One item more.                                                          *)
Filling(s, item) ==
  IF s.full \/ ~ Is(item, "list") THEN s
  ELSE IF Len(s.lists) = Reach THEN [lists |-> s.lists, full |-> TRUE]
  ELSE [lists |-> Append(s.lists, item), full |-> FALSE]

LEMMA FillingIs ==
  ASSUME NEW s \in Fillings, NEW item \in Objects, NEW t, t = Filling(s, item)
  PROVE  /\ t \in Fillings /\ \A x : Has(s.lists, x) => Has(t.lists, x)
         /\ ~ t.full => ~ s.full /\ (Is(item, "list") => Has(t.lists, item))
<1>1. s.lists \in Seq(Objects) /\ Len(s.lists) \in Nat /\ Len(s.lists) <= Reach /\ s.full \in BOOLEAN
      /\ Reach \in Nat
  BY BoundsAssumption DEF Fillings, Queues
<1>2. CASE s.full \/ ~ Is(item, "list")
  BY <1>2 DEF Filling
<1>3. CASE ~ s.full /\ Is(item, "list") /\ Len(s.lists) = Reach
  <2>1. t = [lists |-> s.lists, full |-> TRUE]
    BY <1>3 DEF Filling
  <2>. QED
    BY <1>1, <2>1 DEF Fillings, Queues
<1>4. CASE ~ s.full /\ Is(item, "list") /\ Len(s.lists) # Reach
  <2>1. t = [lists |-> Append(s.lists, item), full |-> FALSE]
    BY <1>4 DEF Filling
  <2>2. t.lists = Append(s.lists, item) /\ ~ t.full
    BY <2>1
  <2>3. Append(s.lists, item) \in Queues
    BY <1>1, <1>4, HasAppend DEF Queues
  <2>4. t \in Fillings
    BY <2>1, <2>3 DEF Fillings
  <2>. QED
    BY <1>1, <1>4, <2>2, <2>4, HasAppend
<1>. QED
  BY <1>2, <1>3, <1>4

Afters(g, items, rest) ==
  g = [i \in 0..Len(items) |->
         IF i = 0 THEN [lists |-> rest, full |-> FALSE]
         ELSE IF g[i - 1].full \/ ~ Is(items[i], "list") THEN g[i - 1]
         ELSE IF Len(g[i - 1].lists) = Reach THEN [lists |-> g[i - 1].lists, full |-> TRUE]
         ELSE [lists |-> Append(g[i - 1].lists, items[i]), full |-> FALSE]]

LEMMA AftersExist ==
  ASSUME NEW items \in Seq(Objects), NEW rest \in Queues
  PROVE  \E g : Afters(g, items, rest)
<1>. DEFINE F == [p \in Fillings \X Nat |->
                    IF p[2] \in 1..Len(items) THEN Filling(p[1], items[p[2]]) ELSE p[1]]
            start == [lists |-> rest, full |-> FALSE]
<1>1. Len(items) \in Nat /\ \A i \in 1..Len(items) : items[i] \in Objects
  OBVIOUS
<1>2. F \in [Fillings \X Nat -> Fillings] /\ start \in Fillings
  BY <1>1, FillingIs DEF Fillings
<1>3. \A s \in Fillings : \A i \in 1..Len(items) : F[<<s, i>>] = Filling(s, items[i])
  BY <1>1
<1>. HIDE DEF F
<1>4. PICK g \in [0..Len(items) -> Fillings] : Repeats(F, start, Len(items), g)
  BY <1>1, <1>2, Repeated
<1>5. ASSUME NEW i \in 0..Len(items)
      PROVE  g[i] = IF i = 0 THEN start ELSE Filling(g[i - 1], items[i])
  <2>1. CASE i = 0
    BY <1>4, <2>1 DEF Repeats
  <2>2. CASE i # 0
    <3>1. i \in 1..Len(items) /\ i - 1 \in 0..Len(items)
      BY <1>1, <2>2
    <3>2. g[i] = F[<<g[i - 1], i>>] /\ g[i - 1] \in Fillings
      BY <1>4, <3>1 DEF Repeats
    <3>. QED
      BY <1>3, <2>2, <3>1, <3>2
  <2>. QED
    BY <2>1, <2>2
<1>6. g = [i \in 0..Len(items) |-> IF i = 0 THEN start ELSE Filling(g[i - 1], items[i])]
  BY <1>5
<1>7. Afters(g, items, rest)
  BY <1>6 DEF Afters, Filling
<1>. QED
  BY <1>7

Collected(s, items, rest, n) ==
  /\ s \in Fillings /\ \A x : Has(rest, x) => Has(s.lists, x)
  /\ ~ s.full => \A k \in 1..n : Is(items[k], "list") => Has(s.lists, items[k])

LEMMA WaitingIs ==
  ASSUME NEW items \in Seq(Objects), NEW rest \in Queues, NEW w, w = Waiting(items, rest)
  PROVE  /\ w \in Fillings /\ \A x : Has(rest, x) => Has(w.lists, x)
         /\ ~ w.full => \A i \in DOMAIN items : Is(items[i], "list") => Has(w.lists, items[i])
<1>. DEFINE g == CHOOSE f : Afters(f, items, rest)
            S == {i \in Nat : i <= Len(items) => Collected(g[i], items, rest, i)}
<1>1. Afters(g, items, rest)
  BY AftersExist
<1>2. Waiting(items, rest) = g[Len(items)]
  BY DEF Waiting, Afters
<1>. HIDE DEF g
<1>3. Len(items) \in Nat /\ DOMAIN items = 1..Len(items) /\ \A i \in 1..Len(items) : items[i] \in Objects
  OBVIOUS
<1>4. \A i \in 0..Len(items) :
        g[i] = IF i = 0 THEN [lists |-> rest, full |-> FALSE] ELSE Filling(g[i - 1], items[i])
  BY <1>1 DEF Afters, Filling
<1>5. 0 \in S
  <2>1. g[0] = [lists |-> rest, full |-> FALSE]
    <3>1. 0 \in 0..Len(items)
      BY <1>3
    <3>. QED
      BY <1>4, <3>1
  <2>2. PICK s : s = [lists |-> rest, full |-> FALSE]
    OBVIOUS
  <2>3. s \in Fillings /\ s.lists = rest
    BY <2>2 DEF Fillings
  <2>4. Collected(s, items, rest, 0)
    BY <2>3 DEF Collected
  <2>. QED
    BY <2>1, <2>2, <2>4
<1>6. ASSUME NEW i \in S  PROVE i + 1 \in S
  <2>1. i \in Nat
    OBVIOUS
  <2>. SUFFICES ASSUME i + 1 <= Len(items)  PROVE Collected(g[i + 1], items, rest, i + 1)
    BY <2>1
  <2>2. Collected(g[i], items, rest, i)
    BY <1>3, <2>1
  <2>3. i + 1 \in 1..Len(items) /\ i + 1 \in 0..Len(items) /\ i + 1 # 0 /\ (i + 1) - 1 = i
    BY <1>3, <2>1
  <2>4. g[i + 1] = Filling(g[i], items[i + 1]) /\ items[i + 1] \in Objects
    BY <1>3, <1>4, <2>3
  <2>5. PICK s, item, t : s = g[i] /\ item = items[i + 1] /\ t = g[i + 1]
    OBVIOUS
  <2>6. s \in Fillings /\ item \in Objects /\ t = Filling(s, item)
    BY <2>2, <2>4, <2>5 DEF Collected
  <2>7. /\ t \in Fillings /\ \A x : Has(s.lists, x) => Has(t.lists, x)
        /\ ~ t.full => ~ s.full /\ (Is(item, "list") => Has(t.lists, item))
    BY <2>6, FillingIs
  <2>8. \A k \in 1..(i + 1) : k = i + 1 \/ k \in 1..i
    BY <2>1
  <2>9. Collected(s, items, rest, i)
    BY <2>2, <2>5
  <2>10. Collected(t, items, rest, i + 1)
    BY <2>5, <2>7, <2>8, <2>9 DEF Collected
  <2>. QED
    BY <2>5, <2>10
<1>. HIDE DEF S
<1>7. S \in SUBSET Nat
  BY DEF S
<1>8. S = Nat
  BY <1>5, <1>6, <1>7, Induction
<1>9. Collected(g[Len(items)], items, rest, Len(items))
  BY <1>3, <1>8 DEF S
<1>. QED
  BY <1>2, <1>3, <1>9 DEF Collected

(* The states of a search.                                                 *)
Marks == {v \in SUBSET Objects : Cardinality(v) <= Reach}
Searching ==
  [pending : Queues, visited : Marks, cut : BOOLEAN,
   verdict : {"looking", "found", "absent", "unchecked"}]

LEMMA SearchingIs ==
  ASSUME NEW s \in Searching
  PROVE  /\ s.pending \in Seq(Objects) /\ Len(s.pending) \in Nat /\ Len(s.pending) <= Reach
         /\ s.pending \in Queues /\ s.visited \in Marks
         /\ s.visited \in SUBSET Objects /\ Cardinality(s.visited) <= Reach
         /\ IsFiniteSet(s.visited) /\ Cardinality(s.visited) \in Nat /\ s.cut \in BOOLEAN
         /\ s.verdict \in {"looking", "found", "absent", "unchecked"}
<1>1. /\ s.pending \in Seq(Objects) /\ Len(s.pending) <= Reach /\ s.pending \in Queues
      /\ s.visited \in SUBSET Objects /\ Cardinality(s.visited) <= Reach /\ s.visited \in Marks
      /\ s.cut \in BOOLEAN /\ s.verdict \in {"looking", "found", "absent", "unchecked"}
  BY DEF Searching, Queues, Marks
<1>2. IsFiniteSet(s.visited)
  BY <1>1, BoundsAssumption, FS_Subset
<1>. QED
  BY <1>1, <1>2, FS_CardinalityType

(* The lists waiting when the last one is taken.                           *)
LEMMA Taken ==
  ASSUME NEW p \in Queues, p # <<>>, NEW rest, rest = SubSeq(p, 1, Len(p) - 1)
  PROVE  /\ rest \in Queues /\ Len(rest) + 1 = Len(p) /\ p[Len(p)] \in Objects /\ Len(rest) \in Nat
         /\ \A x : Has(p, x) <=> x = p[Len(p)] \/ Has(rest, x)
<1>1. p \in Seq(Objects) /\ Len(p) \in Nat /\ Len(p) > 0 /\ Len(p) <= Reach /\ DOMAIN p = 1..Len(p)
      /\ p[Len(p)] \in Objects /\ Reach \in Nat
  BY BoundsAssumption DEF Queues
<1>2. Len(p) - 1 \in Nat
  BY <1>1
<1>3. PICK n \in Nat : n = Len(p) - 1
  BY <1>2
<1>4. rest = SubSeq(p, 1, n)
  BY <1>3
<1>5. rest \in Seq(Objects) /\ Len(rest) = n /\ DOMAIN rest = 1..n /\ \A i \in 1..n : rest[i] = p[i]
  BY <1>1, <1>3, <1>4
<1>6. rest \in Queues
  BY <1>1, <1>3, <1>5 DEF Queues
<1>7. ASSUME NEW x
      PROVE  Has(p, x) <=> x = p[Len(p)] \/ Has(rest, x)
  <2>1. \A i : i \in DOMAIN p <=> i = Len(p) \/ i \in 1..n
    BY <1>1, <1>3
  <2>. QED
    BY <1>5, <2>1 DEF Has
<1>. QED
  BY <1>1, <1>3, <1>5, <1>6, <1>7

(* The ways a look goes.                                                   *)
Looked(s, target, t) ==
  /\ t \in Searching
  /\ \/ s.verdict # "looking" /\ t = s
     \/ /\ s.verdict = "looking" /\ s.pending = <<>> /\ t.pending = s.pending
        /\ t.visited = s.visited /\ t.cut = s.cut
        /\ t.verdict = IF s.cut THEN "unchecked" ELSE "absent"
     \/ s.verdict = "looking" /\ t.verdict \in {"found", "unchecked"}
     \/ \E current \in Objects, rest \in Queues :
          /\ s.verdict = "looking" /\ t.verdict = "looking" /\ current # target
          /\ Len(rest) + 1 = Len(s.pending)
          /\ \A x : Has(s.pending, x) <=> x = current \/ Has(rest, x)
          /\ \/ current \in s.visited /\ t.visited = s.visited /\ t.cut = s.cut /\ t.pending = rest
             \/ /\ current \notin s.visited /\ t.visited = s.visited \cup {current}
                /\ Cardinality(t.visited) = Cardinality(s.visited) + 1
                /\ \A x : Has(rest, x) => Has(t.pending, x)
                /\ ~ t.cut => /\ ~ s.cut
                              /\ \A i \in DOMAIN heap[current].items :
                                   Is(heap[current].items[i], "list") => Has(t.pending, heap[current].items[i])

LEMMA LookIs ==
  ASSUME heap \in Heaps, NEW s \in Searching, NEW target, NEW t, t = Look(s, target)
  PROVE  Looked(s, target, t)
<1>. DEFINE current == s.pending[Len(s.pending)]
            rest == SubSeq(s.pending, 1, Len(s.pending) - 1)
            waiting == Waiting(heap[current].items, rest)
<1>1. /\ s.pending \in Queues /\ s.visited \in Marks /\ s.cut \in BOOLEAN
      /\ s.visited \in SUBSET Objects /\ IsFiniteSet(s.visited) /\ Cardinality(s.visited) \in Nat
      /\ Cardinality(s.visited) <= Reach /\ s.pending \in Seq(Objects) /\ Reach \in Nat
  BY SearchingIs, BoundsAssumption
<1>2. CASE s.verdict # "looking"
  <2>1. t = s
    BY <1>2 DEF Look
  <2>. QED
    BY <1>2, <2>1 DEF Looked
<1>3. CASE s.verdict = "looking" /\ s.pending = <<>>
  <2>1. t = [s EXCEPT !.verdict = IF s.cut THEN "unchecked" ELSE "absent"]
    BY <1>3 DEF Look
  <2>2. t \in Searching /\ t.pending = s.pending /\ t.visited = s.visited /\ t.cut = s.cut
        /\ t.verdict = IF s.cut THEN "unchecked" ELSE "absent"
    BY <2>1 DEF Searching
  <2>. QED
    BY <1>3, <2>2 DEF Looked
<1>4. CASE s.verdict = "looking" /\ s.pending # <<>>
  <2>1. /\ rest \in Queues /\ Len(rest) + 1 = Len(s.pending) /\ current \in Objects
        /\ \A x : Has(s.pending, x) <=> x = current \/ Has(rest, x)
    <3>1. PICK p, q : p = s.pending /\ q = rest
      OBVIOUS
    <3>2. p \in Queues /\ p # <<>> /\ q = SubSeq(p, 1, Len(p) - 1)
      BY <1>1, <1>4, <3>1
    <3>3. /\ q \in Queues /\ Len(q) + 1 = Len(p) /\ p[Len(p)] \in Objects
          /\ \A x : Has(p, x) <=> x = p[Len(p)] \/ Has(q, x)
      BY ONLY <3>2, Taken
    <3>. QED
      BY <3>1, <3>3
  <2>2. CASE current = target
    <3>1. t = [s EXCEPT !.verdict = "found"]
      BY <1>4, <2>2 DEF Look
    <3>2. t \in Searching /\ t.verdict = "found"
      BY <3>1 DEF Searching
    <3>. QED
      BY <1>4, <3>2 DEF Looked
  <2>3. CASE current # target /\ current \in s.visited
    <3>1. t = [s EXCEPT !.pending = rest]
      BY <1>4, <2>3 DEF Look
    <3>. HIDE DEF current, rest
    <3>2. t \in Searching /\ t.verdict = "looking" /\ t.visited = s.visited /\ t.cut = s.cut
          /\ t.pending = rest
      BY <1>4, <2>1, <3>1 DEF Searching
    <3>. QED
      BY <1>4, <2>1, <2>3, <3>2 DEF Looked
  <2>4. CASE current # target /\ current \notin s.visited /\ Cardinality(s.visited) = Reach
    <3>1. t = [s EXCEPT !.verdict = "unchecked"]
      BY <1>4, <2>4 DEF Look
    <3>2. t \in Searching /\ t.verdict = "unchecked"
      BY <3>1 DEF Searching
    <3>. QED
      BY <1>4, <3>2 DEF Looked
  <2>5. CASE current # target /\ current \notin s.visited /\ Cardinality(s.visited) # Reach
    <3>1. t = [s EXCEPT !.visited = @ \cup {current}, !.cut = @ \/ waiting.full,
                        !.pending = waiting.lists]
      BY <1>4, <2>5 DEF Look
    <3>. HIDE DEF current, rest
    <3>2. heap[current].items \in Seq(Objects)
      BY <2>1, ObjFacts
    <3>3. /\ waiting \in Fillings /\ \A x : Has(rest, x) => Has(waiting.lists, x)
          /\ ~ waiting.full => \A i \in DOMAIN heap[current].items :
               Is(heap[current].items[i], "list") => Has(waiting.lists, heap[current].items[i])
      BY <2>1, <3>2, WaitingIs
    <3>. HIDE DEF waiting
    <3>4. Cardinality(s.visited \cup {current}) = Cardinality(s.visited) + 1
      BY <1>1, <2>5, FS_AddElement
    <3>5. s.visited \cup {current} \in Marks
      BY <1>1, <2>1, <2>5, <3>4 DEF Marks
    <3>6. waiting.lists \in Queues /\ waiting.full \in BOOLEAN
      BY <3>3 DEF Fillings
    <3>7. /\ t \in Searching /\ t.verdict = "looking" /\ t.visited = s.visited \cup {current}
          /\ t.cut = (s.cut \/ waiting.full) /\ t.pending = waiting.lists
      BY <1>4, <3>1, <3>5, <3>6 DEF Searching
    <3>. QED
      BY <1>4, <2>1, <2>5, <3>3, <3>4, <3>7 DEF Looked
  <2>. QED
    BY <2>2, <2>3, <2>4, <2>5
<1>. QED
  BY <1>2, <1>3, <1>4

(* What a search knows after n looks: as long as nothing was cut short the *)
(* lists that value leads to are visited or wait, and target is not among  *)
(* those visited; and each look either visits a list or has one less wait. *)
Knows(s, value, target, n) ==
  /\ s \in Searching
  /\ s.verdict \in {"looking", "absent"} /\ ~ s.cut =>
       /\ target \notin s.visited /\ (value \in s.visited \/ Has(s.pending, value))
       /\ \A v \in s.visited : \A i \in DOMAIN heap[v].items :
            Is(heap[v].items[i], "list") =>
              heap[v].items[i] \in s.visited \/ Has(s.pending, heap[v].items[i])
  /\ s.verdict = "absent" => ~ s.cut /\ s.pending = <<>>
  /\ s.verdict = "looking" => n + Len(s.pending) <= 1 + Reach * Cardinality(s.visited)

LEMMA KnowsMore ==
  ASSUME NEW s, NEW value, NEW target, NEW n \in Nat, Knows(s, value, target, n),
         NEW t, Looked(s, target, t)
  PROVE  Knows(t, value, target, n + 1)
<1>1. /\ s \in Searching /\ t \in Searching /\ Len(s.pending) \in Nat /\ Len(t.pending) \in Nat
      /\ Cardinality(s.visited) \in Nat /\ Cardinality(t.visited) \in Nat /\ Reach \in Nat
      /\ Len(t.pending) <= Reach
  BY SearchingIs, BoundsAssumption DEF Knows, Looked
<1>2. CASE s.verdict # "looking" /\ t = s
  BY <1>2 DEF Knows
<1>3. CASE /\ s.verdict = "looking" /\ s.pending = <<>> /\ t.pending = s.pending
           /\ t.visited = s.visited /\ t.cut = s.cut
           /\ t.verdict = IF s.cut THEN "unchecked" ELSE "absent"
  BY <1>1, <1>3 DEF Knows
<1>4. CASE s.verdict = "looking" /\ t.verdict \in {"found", "unchecked"}
  BY <1>1, <1>4 DEF Knows
<1>5. ASSUME NEW current \in Objects, NEW rest \in Queues,
             s.verdict = "looking", t.verdict = "looking", current # target,
             Len(rest) + 1 = Len(s.pending),
             \A x : Has(s.pending, x) <=> x = current \/ Has(rest, x),
             current \in s.visited, t.visited = s.visited, t.cut = s.cut, t.pending = rest
      PROVE  Knows(t, value, target, n + 1)
  <2>1. n + Len(s.pending) <= 1 + Reach * Cardinality(t.visited)
    BY <1>5 DEF Knows
  <2>2. (n + 1) + Len(t.pending) <= 1 + Reach * Cardinality(t.visited)
    <3>1. (n + 1) + Len(t.pending) = n + Len(s.pending)
      <4>1. PICK l \in Nat, m \in Nat : l = Len(t.pending) /\ m = Len(s.pending)
        BY <1>1
      <4>2. (n + 1) + l = n + m
        BY <1>5, <4>1
      <4>. QED
        BY <4>1, <4>2
    <3>. QED
      BY <2>1, <3>1
  <2>3. ~ s.cut =>
       /\ target \notin s.visited /\ (value \in s.visited \/ Has(s.pending, value))
       /\ \A v \in s.visited : \A i \in DOMAIN heap[v].items :
            Is(heap[v].items[i], "list") =>
              heap[v].items[i] \in s.visited \/ Has(s.pending, heap[v].items[i])
    BY <1>5 DEF Knows
  <2>. QED
    BY <1>1, <1>5, <2>2, <2>3 DEF Knows
<1>6. ASSUME NEW current \in Objects, NEW rest \in Queues,
             s.verdict = "looking", t.verdict = "looking", current # target,
             Len(rest) + 1 = Len(s.pending),
             \A x : Has(s.pending, x) <=> x = current \/ Has(rest, x),
             t.visited = s.visited \cup {current},
             Cardinality(t.visited) = Cardinality(s.visited) + 1,
             \A x : Has(rest, x) => Has(t.pending, x),
             ~ t.cut => /\ ~ s.cut
                        /\ \A i \in DOMAIN heap[current].items :
                             Is(heap[current].items[i], "list") => Has(t.pending, heap[current].items[i])
      PROVE  Knows(t, value, target, n + 1)
  <2>1. n + Len(s.pending) <= 1 + Reach * Cardinality(s.visited) /\ Len(rest) \in Nat
    BY <1>6 DEF Knows, Queues
  <2>2. (n + 1) + Len(t.pending) <= 1 + Reach * Cardinality(t.visited)
    <3>1. PICK c \in Nat, l \in Nat, m \in Nat :
            c = Cardinality(s.visited) /\ l = Len(t.pending) /\ m = Len(s.pending)
      BY <1>1
    <3>2. \A r \in Nat : r * c \in Int /\ r * (c + 1) = r * c + r
      OBVIOUS
    <3>3. PICK k \in Int : k = Reach * c
      BY <1>1, <3>2
    <3>4. Reach * Cardinality(t.visited) = k + Reach
      BY <1>1, <1>6, <3>1, <3>2, <3>3
    <3>5. n + m <= 1 + k /\ m >= 1 /\ l <= Reach
      BY <1>1, <1>6, <2>1, <3>1, <3>3
    <3>6. (n + 1) + l <= 1 + (k + Reach)
      BY <1>1, <3>5
    <3>. QED
      BY <3>1, <3>4, <3>6, <3>3
  <2>3. ~ s.cut =>
       /\ target \notin s.visited /\ (value \in s.visited \/ Has(s.pending, value))
       /\ \A v \in s.visited : \A i \in DOMAIN heap[v].items :
            Is(heap[v].items[i], "list") =>
              heap[v].items[i] \in s.visited \/ Has(s.pending, heap[v].items[i])
    BY <1>6 DEF Knows
  <2>4. \A x : x \in s.visited \/ Has(s.pending, x) => x \in t.visited \/ Has(t.pending, x)
    BY <1>6
  <2>5. ASSUME ~ t.cut
        PROVE  /\ target \notin t.visited /\ (value \in t.visited \/ Has(t.pending, value))
               /\ \A v \in t.visited : \A i \in DOMAIN heap[v].items :
                    Is(heap[v].items[i], "list") =>
                      heap[v].items[i] \in t.visited \/ Has(t.pending, heap[v].items[i])
    BY <1>6, <2>3, <2>4, <2>5
  <2>. QED
    BY <1>1, <1>6, <2>2, <2>5 DEF Knows
<1>. QED
  BY <1>2, <1>3, <1>4, <1>5, <1>6 DEF Looked

Searches(g, value, target) ==
  g = [n \in 0..(Reach * Reach + 2) |->
         IF n = 0 THEN [pending |-> <<value>>, visited |-> {}, cut |-> FALSE, verdict |-> "looking"]
         ELSE Look(g[n - 1], target)]

LEMMA SearchBegins ==
  ASSUME NEW value \in Objects, NEW target, NEW s,
         s = [pending |-> <<value>>, visited |-> {}, cut |-> FALSE, verdict |-> "looking"]
  PROVE  s \in Searching /\ Knows(s, value, target, 0)
<1>1. s.pending = <<value>> /\ s.visited = {} /\ s.cut = FALSE /\ s.verdict = "looking"
  OBVIOUS
<1>2. Reach \in Nat /\ Reach >= 1
  BY BoundsAssumption
<1>3. <<value>> \in Seq(Objects) /\ Len(<<value>>) = 1 /\ DOMAIN <<value>> = {1} /\ <<value>>[1] = value
  OBVIOUS
<1>4. <<value>> \in Queues /\ Has(<<value>>, value)
  BY <1>2, <1>3 DEF Queues, Has
<1>5. {} \in Marks /\ Cardinality({}) = 0
  BY <1>2, FS_EmptySet DEF Marks
<1>6. s \in Searching
  BY <1>4, <1>5 DEF Searching
<1>7. 0 + Len(s.pending) <= 1 + Reach * Cardinality(s.visited)
  <2>1. \A r \in Nat : 0 + 1 <= 1 + r * 0
    OBVIOUS
  <2>. QED
    BY <1>1, <1>2, <1>3, <1>5, <2>1
<1>. QED
  BY <1>1, <1>4, <1>6, <1>7 DEF Knows

LEMMA SearchesExist ==
  ASSUME heap \in Heaps, NEW value \in Objects, NEW target
  PROVE  \E g : Searches(g, value, target)
<1>. DEFINE F == [p \in Searching \X Nat |-> Look(p[1], target)]
            start == [pending |-> <<value>>, visited |-> {}, cut |-> FALSE, verdict |-> "looking"]
<1>1. Reach * Reach + 2 \in Nat
  BY BoundsAssumption
<1>2. start \in Searching
  BY SearchBegins
<1>3. \A s \in Searching : Look(s, target) \in Searching
  BY LookIs DEF Looked
<1>4. F \in [Searching \X Nat -> Searching] /\ \A s \in Searching, n \in Nat : F[<<s, n>>] = Look(s, target)
  BY <1>3
<1>. HIDE DEF F, start
<1>5. PICK m \in Nat : m = Reach * Reach + 2
  BY <1>1
<1>6. PICK g \in [0..m -> Searching] : Repeats(F, start, m, g)
  BY <1>2, <1>4, Repeated
<1>7. ASSUME NEW n \in 0..m
      PROVE  g[n] = IF n = 0 THEN start ELSE Look(g[n - 1], target)
  <2>1. CASE n = 0
    BY <1>6, <2>1 DEF Repeats
  <2>2. CASE n # 0
    <3>1. n \in 1..m /\ n - 1 \in 0..m /\ n \in Nat
      BY <2>2
    <3>2. g[n] = F[<<g[n - 1], n>>] /\ g[n - 1] \in Searching
      BY <1>6, <3>1 DEF Repeats
    <3>. QED
      BY <1>4, <2>2, <3>1, <3>2
  <2>. QED
    BY <2>1, <2>2
<1>8. g = [n \in 0..m |-> IF n = 0 THEN start ELSE Look(g[n - 1], target)]
  BY <1>7
<1>9. Searches(g, value, target)
  BY <1>5, <1>8 DEF Searches, start
<1>. QED
  BY <1>9

(* What a search finds absent is not reached: the lists it visited have    *)
(* all the lists that they lead to among them, and not the target.         *)
Apart(V, value, target) ==
  /\ target \notin V /\ (Is(value, "list") => value \in V)
  /\ \A v \in V : \A i \in DOMAIN heap[v].items :
       Is(heap[v].items[i], "list") => heap[v].items[i] \in V

LEMMA SearchIs ==
  ASSUME heap \in Heaps, NEW value \in Objects, NEW target
  PROVE  /\ Search(value, target) \in {"found", "absent", "unchecked"}
         /\ Search(value, target) = "absent" => \E V : Apart(V, value, target)
<1>. DEFINE g == CHOOSE f : Searches(f, value, target)
            S == {n \in Nat : n <= Reach * Reach + 2 => Knows(g[n], value, target, n)}
<1>1. Searches(g, value, target)
  BY SearchesExist
<1>2. Search(value, target) = g[Reach * Reach + 2].verdict
  BY DEF Search, Searches
<1>. HIDE DEF g
<1>3. PICK m \in Nat : m = Reach * Reach + 2
  <2>1. Reach * Reach + 2 \in Nat
    BY BoundsAssumption
  <2>. QED
    BY <2>1
<1>4. \A n \in 0..m :
        g[n] = IF n = 0 THEN [pending |-> <<value>>, visited |-> {}, cut |-> FALSE, verdict |-> "looking"]
               ELSE Look(g[n - 1], target)
  BY <1>1, <1>3 DEF Searches
<1>5. 0 \in S
  <2>1. 0 \in 0..m
    BY <1>3
  <2>2. g[0] = [pending |-> <<value>>, visited |-> {}, cut |-> FALSE, verdict |-> "looking"]
    BY <1>4, <2>1
  <2>3. Knows(g[0], value, target, 0)
    BY <2>2, SearchBegins
  <2>. QED
    BY <2>3
<1>6. ASSUME NEW n \in S  PROVE n + 1 \in S
  <2>1. n \in Nat /\ (n <= m => Knows(g[n], value, target, n))
    BY <1>3
  <2>2. ASSUME n + 1 <= m
        PROVE  Knows(g[n + 1], value, target, n + 1)
    <3>1. n + 1 \in 0..m /\ n + 1 # 0 /\ (n + 1) - 1 = n /\ n <= m
      BY <1>3, <2>1, <2>2
    <3>2. g[n + 1] = Look(g[n], target)
      BY <1>4, <3>1
    <3>3. Knows(g[n], value, target, n)
      BY <2>1, <3>1
    <3>4. g[n] \in Searching
      BY <3>3 DEF Knows
    <3>5. Looked(g[n], target, g[n + 1])
      BY <3>2, <3>4, LookIs
    <3>. QED
      BY <2>1, <3>3, <3>5, KnowsMore
  <2>. QED
    BY <1>3, <2>1, <2>2
<1>. HIDE DEF S
<1>7. S \in SUBSET Nat
  BY DEF S
<1>8. S = Nat
  BY <1>5, <1>6, <1>7, Induction
<1>9. Knows(g[m], value, target, m)
  BY <1>3, <1>8 DEF S
<1>10. PICK s : s = g[m]
  OBVIOUS
<1>11. Knows(s, value, target, m) /\ s \in Searching
  BY <1>9, <1>10 DEF Knows
<1>12. s.verdict # "looking"
  <2>. SUFFICES ASSUME s.verdict = "looking"  PROVE FALSE
    OBVIOUS
  <2>1. PICK c \in Nat, l \in Nat : c = Cardinality(s.visited) /\ l = Len(s.pending)
    BY <1>11, SearchingIs
  <2>2. c <= Reach /\ Reach \in Nat
    BY <1>11, <2>1, SearchingIs, BoundsAssumption
  <2>3. m + l <= 1 + Reach * c
    BY <1>11, <2>1 DEF Knows
  <2>4. \A r \in Nat : c <= r => r * c <= r * r /\ r * c \in Int /\ r * r \in Int
    OBVIOUS
  <2>5. Reach * c <= Reach * Reach /\ Reach * c \in Int /\ Reach * Reach \in Int
    BY <2>2, <2>4
  <2>. QED
    BY <1>3, <2>3, <2>5
<1>13. s.verdict \in {"found", "absent", "unchecked"}
  BY <1>11, <1>12, SearchingIs
<1>14. ASSUME s.verdict = "absent"
       PROVE  Apart(s.visited, value, target)
  <2>1. s.pending = <<>> /\ \A x : ~ Has(<<>>, x)
    BY <1>11, <1>14 DEF Knows, Has
  <2>2. /\ target \notin s.visited /\ (value \in s.visited \/ Has(s.pending, value))
        /\ \A v \in s.visited : \A i \in DOMAIN heap[v].items :
             Is(heap[v].items[i], "list") =>
               heap[v].items[i] \in s.visited \/ Has(s.pending, heap[v].items[i])
    BY <1>11, <1>14 DEF Knows
  <2>. QED
    BY <2>1, <2>2 DEF Apart
<1>. QED
  BY <1>2, <1>3, <1>10, <1>13, <1>14

(* g is h with value stored in p.                                          *)
Stored(h, g, p, value) ==
  /\ h[p].count > 0 /\ h[p].kind = "list" /\ g[p].kind = "list"
  /\ \A x \in Objects : x # p => Fewer(h, g, x)
  /\ \A i \in DOMAIN g[p].items :
       \/ g[p].items[i] = value
       \/ \E j \in DOMAIN h[p].items : h[p].items[j] = g[p].items[i]

(* Where the check lets a value in, it makes no cycle of lists.            *)
LEMMA CyclicStored ==
  ASSUME NEW g, NEW list \in Objects, NEW value \in Objects, Stored(heap, g, list, value),
         NEW V, Apart(V, value, list), CyclicIn(g, {"list"})
  PROVE  CyclicIn(heap, {"list"})
<1>1. PICK S : Circle(g, {"list"}, S)
  BY DEF CyclicIn
<1>2. /\ S # {} /\ \A o \in S : o \in Objects /\ g[o].count > 0 /\ g[o].kind = "list"
      /\ \A o \in S : \E i \in DOMAIN g[o].items : g[o].items[i] \in S
  BY <1>1 DEF Circle
<1>3. \A o \in S : heap[o].count > 0 /\ heap[o].kind = "list"
  BY <1>2 DEF Stored, Fewer
<1>4. ASSUME NEW o \in S, o # list
      PROVE  \E i \in DOMAIN heap[o].items : heap[o].items[i] \in S
  BY <1>2, <1>4 DEF Stored, Fewer
<1>. DEFINE T == S \cap V
<1>5. CASE T # {}
  <2>1. ASSUME NEW o \in T  PROVE \E i \in DOMAIN heap[o].items : heap[o].items[i] \in T
    <3>1. o \in S /\ o \in V /\ o # list
      BY DEF Apart
    <3>2. PICK i \in DOMAIN heap[o].items : heap[o].items[i] \in S
      BY <1>4, <3>1
    <3>3. heap[o].items[i] \in V
      BY <1>3, <3>1, <3>2 DEF Apart, Is
    <3>. QED
      BY <3>2, <3>3
  <2>2. Circle(heap, {"list"}, T)
    BY <1>2, <1>3, <1>5, <2>1 DEF Circle
  <2>. QED
    BY <2>2 DEF CyclicIn
<1>6. CASE T = {}
  <2>1. value \notin S
    BY <1>3, <1>6 DEF Apart, Is
  <2>2. ASSUME NEW o \in S  PROVE \E i \in DOMAIN heap[o].items : heap[o].items[i] \in S
    <3>1. CASE o = list
      BY <1>2, <2>1, <3>1 DEF Stored
    <3>. QED
      BY <1>4, <3>1
  <2>3. Circle(heap, {"list"}, S)
    BY <1>2, <1>3, <2>2 DEF Circle
  <2>. QED
    BY <2>3 DEF CyclicIn
<1>. QED
  BY <1>5, <1>6

LEMMA CheckedStored ==
  ASSUME Now, Quiet, NEW list \in Objects, NEW value \in Objects, Checked(list, value),
         NEW g, Stored(heap, g, list, value)
  PROVE  gaveUp' \/ ~ CyclicIn(g, {"list"})
<1>1. PICK verdict \in Verdicts(list, value) :
        verdict # "found" /\ gaveUp' = (gaveUp \/ verdict = "unchecked")
  BY DEF Checked
<1>2. heap \in Heaps /\ (gaveUp \/ ~ CyclicIn(heap, {"list"}))
  BY QuietFacts
<1>3. CASE verdict = "unchecked" \/ gaveUp
  BY <1>1, <1>3
<1>4. CASE verdict # "unchecked" /\ ~ gaveUp
  <2>1. \E V : Apart(V, value, list)
    <3>1. CASE Is(value, "list")
      <4>1. verdict = Search(value, list)
        BY <1>1, <1>4, <3>1 DEF Verdicts
      <4>2. Search(value, list) = "absent"
        BY <1>1, <1>2, <1>4, <4>1, SearchIs
      <4>. QED
        BY <1>2, <4>2, SearchIs
    <3>2. CASE ~ Is(value, "list")
      <4>1. Apart({}, value, list)
        BY <3>2 DEF Apart
      <4>. QED
        BY <4>1
    <3>. QED
      BY <3>1, <3>2
  <2>. QED
    BY <1>2, <1>4, <2>1, CyclicStored
<1>. QED
  BY <1>3, <1>4

LEMMA AppendItemGood ==
  ASSUME Now, AppendItem
  PROVE  Now'
<1>1. Quiet /\ UNCHANGED <<live, leaked>>
  BY DEF AppendItem
<1>2. PICK list \in HeldOf({"list"}), value \in HeldOf(Kinds), moved \in BOOLEAN :
       LET l == heap[list]
           capacity == IF Len(l.items) = l.capacity THEN NextCapacity(l.capacity) ELSE l.capacity
       IN /\ Len(l.items) < MaxItems
          /\ Checked(list, value)
          /\ bytes' = Reallocated("list", l.capacity, capacity)
          /\ heap' = [Retained(heap, <<value>>) EXCEPT
                        ![list] = Filled(@, Append(@.items, value), capacity)]
          /\ IF moved THEN Lose(value) /\ work' = <<ReleaseOf(value)>> ELSE UNCHANGED <<held, work>>
  BY DEF AppendItem
<1>3. PICK old, capacity, s :
        /\ old = heap[list].capacity /\ s = heap[list].items
        /\ capacity = IF Len(s) = old THEN NextCapacity(old) ELSE old
  OBVIOUS
<1>4. /\ Len(s) < MaxItems /\ Checked(list, value)
      /\ bytes' = Reallocated("list", old, capacity)
      /\ heap' = [Retained(heap, <<value>>) EXCEPT
                        ![list] = Filled(@, Append(@.items, value), capacity)]
      /\ IF moved THEN Lose(value) /\ work' = <<ReleaseOf(value)>> ELSE UNCHANGED <<held, work>>
  BY <1>2, <1>3
<1>5. /\ list \in Objects /\ heap[list].count > 0 /\ heap[list].kind = "list"
      /\ heap[list].block = old /\ old \in Nat /\ s \in Seq(Objects)
      /\ value \in Objects /\ heap[value].count > 0 /\ held[value] > 0 /\ heap \in Heaps
      /\ Sizes(heap, bytes) /\ leaked \in Tallies /\ held \in Tallies
  BY <1>1, <1>3, HeldItems, QuietFacts, ListHas, ObjFacts
<1>6. capacity \in Nat
  BY <1>3, <1>5, NextCapacityIs
<1>7. PICK m : m = Retained(heap, <<value>>)
  OBVIOUS
<1>8. /\ RetainedTo(heap, m, <<value>>) /\ <<value>> \in Seq(Objects)
      /\ \A x : Occurrences(x, <<value>>) = One(x, value)
  BY <1>1, <1>5, <1>7, RetainedOne
<1>9. m \in Heaps /\ m[list] \in Obj /\ Alike(heap[list], m[list]) /\ m[list].items = s
      /\ m[list].kind = "list"
  BY <1>3, <1>5, <1>8, ObjFacts DEF RetainedTo, Grew, Alike
<1>10. PICK u : u = Append(s, value)
  OBVIOUS
<1>11. /\ u \in Seq(Objects) /\ Len(u) <= MaxItems
       /\ \A i \in DOMAIN u : u[i] = value \/ \E j \in DOMAIN s : s[j] = u[i]
  <2>1. u \in Seq(Objects) /\ Len(u) = Len(s) + 1 /\ Len(s) \in Nat
    BY <1>5, <1>10
  <2>2. Len(u) <= MaxItems
    BY <1>4, <2>1, BoundsAssumption
  <2>3. \A i \in DOMAIN u : u[i] = value \/ \E j \in DOMAIN s : s[j] = u[i]
    <3>1. DOMAIN u = 1..(Len(s) + 1) /\ DOMAIN s = 1..Len(s) /\ u[Len(s) + 1] = value
          /\ \A i \in 1..Len(s) : u[i] = s[i]
      BY <1>5, <1>10
    <3>2. \A i \in 1..(Len(s) + 1) : i = Len(s) + 1 \/ i \in 1..Len(s)
      BY <2>1
    <3>. QED
      BY <3>1, <3>2
  <2>. QED
    BY <2>1, <2>2, <2>3
<1>12. PICK r : r = Filled(m[list], u, capacity)
  OBVIOUS
<1>13. /\ r \in Obj /\ r.items = u /\ r.count = m[list].count /\ r.kind = "list"
       /\ r.block = capacity /\ r.capacity = capacity
  BY <1>6, <1>9, <1>11, <1>12, FilledIs
<1>14. ShapedObject(r)
  BY <1>11, <1>13, ListShaped
<1>15. Put(m, heap', list, r)
  <2>1. heap' = [m EXCEPT ![list] = r]
    BY <1>4, <1>7, <1>9, <1>10, <1>12
  <2>. QED
    BY <1>5, <1>9, <1>13, <2>1, PutIs
<1>16. /\ held' \in Tallies /\ Releases(work')
       /\ \A x \in Objects : held'[x] + Occurrences(ReleaseOf(x), work') = held[x]
                             /\ held'[x] \in Nat /\ Occurrences(ReleaseOf(x), work') \in Nat
  <2>1. CASE moved
    <3>1. held' \in Tallies /\ \A x \in Objects : held'[x] + One(x, value) = held[x]
      BY <1>4, <1>5, <2>1, Lost
    <3>2. Releases(work') /\ \A x : Occurrences(ReleaseOf(x), work') = One(x, value)
      BY <1>4, <1>5, <2>1, ReleaseOne
    <3>3. \A x \in Objects : held'[x] \in Nat /\ One(x, value) \in Nat
      BY <3>1 DEF Tallies, One
    <3>. QED
      BY <3>1, <3>2, <3>3
  <2>2. CASE ~ moved
    <3>1. held' = held /\ work' = <<>>
      BY <1>1, <1>4, <2>2, QuietFacts
    <3>2. \A x \in Objects : held[x] \in Nat
      BY <1>5 DEF Tallies
    <3>. QED
      BY <1>5, <3>1, <3>2, ReleaseNone
  <2>. QED
    BY <2>1, <2>2
<1>17. Exchanged(heap, <<value>>, list, r, held, leaked, held', leaked, work')
  <2>1. ASSUME NEW x \in Objects
        PROVE  Occurrences(x, <<value>>) + Occurrences(x, heap[list].items) + held[x] + leaked[x]
                 = Occurrences(x, r.items) + held'[x] + leaked[x] + Occurrences(ReleaseOf(x), work')
    <3>1. /\ Occurrences(x, s) \in Nat /\ leaked[x] \in Nat /\ One(x, value) \in Nat
      BY <1>5, OccurrencesType DEF One, Tallies
    <3>2. Occurrences(x, u) = Occurrences(x, s) + One(x, value)
      BY <1>5, <1>10, OccurrencesAppend
    <3>3. PICK a \in Nat, b \in Nat, c \in Nat, d \in Nat, e \in Nat :
            /\ a = Occurrences(x, s) /\ b = One(x, value) /\ c = held'[x] /\ d = leaked[x]
            /\ e = Occurrences(ReleaseOf(x), work')
      BY <1>16, <3>1
    <3>4. b + a + (c + e) + d = (a + b) + c + d + e
      OBVIOUS
    <3>. QED
      BY <1>3, <1>8, <1>13, <1>16, <3>2, <3>3, <3>4
  <2>. QED
    BY <2>1 DEF Exchanged
<1>18. Tagged(bytes, bytes', heap[list].kind, heap[list].block, r.block)
  BY <1>4, <1>5, <1>6, <1>13 DEF Reallocated, Tagged, Sizes, Kinds
<1>19. gaveUp' \/ ~ CyclicIn(heap', {"list"})
  <2>1. Stored(heap, heap', list, value)
    <3>1. \A x \in Objects : x # list => Fewer(heap, heap', x)
      BY <1>8, <1>15 DEF Put, Fewer, RetainedTo, Grew, Alike
    <3>2. heap'[list].kind = "list" /\ heap'[list].items = u
      BY <1>13, <1>15 DEF Put
    <3>. QED
      BY <1>3, <1>5, <1>11, <3>1, <3>2 DEF Stored
  <2>. QED
    BY <1>1, <1>4, <1>5, <2>1, CheckedStored
<1>. QED
  BY <1>1, <1>5, <1>8, <1>13, <1>14, <1>15, <1>16, <1>17, <1>18, <1>19, Changes

LEMMA SetItemGood ==
  ASSUME Now, SetItem
  PROVE  Now'
<1>1. Quiet /\ UNCHANGED <<live, held, bytes, leaked>>
  BY DEF SetItem
<1>2. PICK list \in HeldOf({"list"}), value \in HeldOf(Kinds) : \E i \in DOMAIN heap[list].items :
       /\ Checked(list, value)
       /\ heap' = [Retained(heap, <<value>>) EXCEPT
                     ![list] = WithItems(@, [@.items EXCEPT ![i] = value])]
       /\ work' = <<ReleaseOf(heap[list].items[i])>>
  BY DEF SetItem
<1>3. PICK s : s = heap[list].items
  OBVIOUS
<1>4. PICK i \in DOMAIN s :
       /\ Checked(list, value)
       /\ heap' = [Retained(heap, <<value>>) EXCEPT
                     ![list] = WithItems(@, [@.items EXCEPT ![i] = value])]
       /\ work' = <<ReleaseOf(s[i])>>
  BY <1>2, <1>3
<1>5. /\ list \in Objects /\ heap[list].count > 0 /\ heap[list].kind = "list"
      /\ heap[list].block = heap[list].capacity /\ Len(s) <= MaxItems
      /\ s \in Seq(Objects) /\ s[i] \in Objects
      /\ value \in Objects /\ heap[value].count > 0 /\ heap \in Heaps
      /\ Sizes(heap, bytes) /\ leaked \in Tallies /\ held \in Tallies /\ heap[list].block \in Nat
  BY <1>1, <1>3, HeldItems, QuietFacts, ListHas, ObjFacts
<1>6. PICK m : m = Retained(heap, <<value>>)
  OBVIOUS
<1>7. /\ RetainedTo(heap, m, <<value>>) /\ <<value>> \in Seq(Objects)
      /\ \A x : Occurrences(x, <<value>>) = One(x, value)
  BY <1>1, <1>5, <1>6, RetainedOne
<1>8. m \in Heaps /\ m[list] \in Obj /\ Alike(heap[list], m[list]) /\ m[list].items = s
      /\ m[list].kind = "list" /\ m[list].block = heap[list].block
      /\ m[list].capacity = heap[list].capacity
  BY <1>3, <1>5, <1>7, ObjFacts DEF RetainedTo, Grew, Alike
<1>9. PICK u : u = [s EXCEPT ![i] = value]
  OBVIOUS
<1>10. /\ u \in Seq(Objects) /\ Len(u) = Len(s)
       /\ \A k \in DOMAIN u : u[k] = value \/ \E j \in DOMAIN s : s[j] = u[k]
  <2>1. Len(s) \in Nat /\ DOMAIN s = 1..Len(s) /\ \A k \in 1..Len(s) : s[k] \in Objects
    BY <1>5
  <2>2. u \in [1..Len(s) -> Objects] /\ DOMAIN u = DOMAIN s
        /\ \A k \in DOMAIN s : u[k] = IF k = i THEN value ELSE s[k]
    BY <1>5, <1>9, <2>1
  <2>3. u \in Seq(Objects) /\ Len(u) = Len(s)
    BY <2>1, <2>2
  <2>. QED
    BY <2>2, <2>3
<1>11. PICK r : r = WithItems(m[list], u)
  OBVIOUS
<1>12. /\ r \in Obj /\ r.items = u /\ r.count = m[list].count /\ r.kind = "list"
       /\ r.block = heap[list].block /\ r.capacity = heap[list].capacity
  BY <1>8, <1>10, <1>11, WithItemsIs
<1>13. ShapedObject(r)
  BY <1>5, <1>10, <1>12, ListShaped
<1>14. Put(m, heap', list, r)
  <2>1. heap' = [m EXCEPT ![list] = r]
    BY <1>4, <1>6, <1>8, <1>9, <1>11
  <2>. QED
    BY <1>5, <1>8, <1>12, <2>1, PutIs
<1>15. Releases(work') /\ \A x : Occurrences(ReleaseOf(x), work') = One(x, s[i])
  BY <1>4, <1>5, ReleaseOne
<1>16. Exchanged(heap, <<value>>, list, r, held, leaked, held, leaked, work')
  <2>1. ASSUME NEW x \in Objects
        PROVE  Occurrences(x, <<value>>) + Occurrences(x, heap[list].items) + held[x] + leaked[x]
                 = Occurrences(x, r.items) + held[x] + leaked[x] + Occurrences(ReleaseOf(x), work')
    <3>1. /\ Occurrences(x, s) \in Nat /\ Occurrences(x, u) \in Nat
          /\ leaked[x] \in Nat /\ held[x] \in Nat /\ One(x, value) \in Nat /\ One(x, s[i]) \in Nat
      BY <1>5, <1>10, OccurrencesType DEF One, Tallies
    <3>2. Occurrences(x, u) + One(x, s[i]) = Occurrences(x, s) + One(x, value)
      <4>1. Occurrences(x, [s EXCEPT ![i] = value]) + One(x, s[i])
              = Occurrences(x, s) + One(x, value)
        BY ONLY <1>5, i \in DOMAIN s, OccurrencesSet
      <4>. QED
        BY <1>9, <4>1
    <3>3. PICK a \in Nat, b \in Nat, c \in Nat, d \in Nat, e \in Nat, f \in Nat :
            /\ a = Occurrences(x, s) /\ b = One(x, value) /\ c = held[x] /\ d = leaked[x]
            /\ e = One(x, s[i]) /\ f = Occurrences(x, u)
      BY <3>1
    <3>4. b + a + c + d = f + c + d + e
      BY <3>2, <3>3
    <3>. QED
      BY <1>3, <1>7, <1>12, <1>15, <3>3, <3>4
  <2>. QED
    BY <2>1 DEF Exchanged
<1>17. Tagged(bytes, bytes, heap[list].kind, heap[list].block, r.block)
  BY <1>5, <1>12, TaggedSame
<1>18. gaveUp' \/ ~ CyclicIn(heap', {"list"})
  <2>1. Stored(heap, heap', list, value)
    <3>1. \A x \in Objects : x # list => Fewer(heap, heap', x)
      BY <1>7, <1>14 DEF Put, Fewer, RetainedTo, Grew, Alike
    <3>2. heap'[list].kind = "list" /\ heap'[list].items = u
      BY <1>12, <1>14 DEF Put
    <3>. QED
      BY <1>3, <1>5, <1>10, <3>1, <3>2 DEF Stored
  <2>. QED
    BY <1>1, <1>4, <1>5, <2>1, CheckedStored
<1>. QED
  BY <1>1, <1>5, <1>7, <1>12, <1>13, <1>14, <1>15, <1>16, <1>17, <1>18, Changes

-----------------------------------------------------------------------------
(* What a release leads to.                                                *)

LEMMA HeadReleased ==
  ASSUME NEW w \in Seq(Job), w # <<>>, NEW o \in Objects, Head(w) = ReleaseOf(o)
  PROVE  /\ Tail(w) \in Seq(Job)
         /\ \A x \in Objects :
              /\ Occurrences(ReleaseOf(x), w) = One(x, o) + Occurrences(ReleaseOf(x), Tail(w))
              /\ Occurrences(FreeOf(x), w) = Occurrences(FreeOf(x), Tail(w))
              /\ Occurrences(ReleaseOf(x), Tail(w)) \in Nat /\ Occurrences(FreeOf(x), Tail(w)) \in Nat
<1>1. Tail(w) \in Seq(Job)
  OBVIOUS
<1>2. ASSUME NEW x \in Objects
      PROVE  /\ Occurrences(ReleaseOf(x), w) = One(x, o) + Occurrences(ReleaseOf(x), Tail(w))
             /\ Occurrences(FreeOf(x), w) = Occurrences(FreeOf(x), Tail(w))
             /\ Occurrences(ReleaseOf(x), Tail(w)) \in Nat /\ Occurrences(FreeOf(x), Tail(w)) \in Nat
  <2>1. /\ Occurrences(ReleaseOf(x), w) = One(ReleaseOf(x), ReleaseOf(o)) + Occurrences(ReleaseOf(x), Tail(w))
        /\ Occurrences(FreeOf(x), w) = One(FreeOf(x), ReleaseOf(o)) + Occurrences(FreeOf(x), Tail(w))
    BY OccurrencesHead
  <2>2. One(ReleaseOf(x), ReleaseOf(o)) = One(x, o) /\ One(FreeOf(x), ReleaseOf(o)) = 0
    BY JobIs DEF One
  <2>3. Occurrences(ReleaseOf(x), Tail(w)) \in Nat /\ Occurrences(FreeOf(x), Tail(w)) \in Nat
    BY <1>1, OccurrencesType
  <2>. QED
    BY <2>1, <2>2, <2>3
<1>. QED
  BY <1>1, <1>2

LEMMA HeadFreed ==
  ASSUME NEW w \in Seq(Job), w # <<>>, NEW o \in Objects, Head(w) = FreeOf(o)
  PROVE  /\ Tail(w) \in Seq(Job)
         /\ \A x \in Objects :
              /\ Occurrences(FreeOf(x), w) = One(x, o) + Occurrences(FreeOf(x), Tail(w))
              /\ Occurrences(ReleaseOf(x), w) = Occurrences(ReleaseOf(x), Tail(w))
              /\ Occurrences(ReleaseOf(x), Tail(w)) \in Nat /\ Occurrences(FreeOf(x), Tail(w)) \in Nat
<1>1. Tail(w) \in Seq(Job)
  OBVIOUS
<1>2. ASSUME NEW x \in Objects
      PROVE  /\ Occurrences(FreeOf(x), w) = One(x, o) + Occurrences(FreeOf(x), Tail(w))
             /\ Occurrences(ReleaseOf(x), w) = Occurrences(ReleaseOf(x), Tail(w))
             /\ Occurrences(ReleaseOf(x), Tail(w)) \in Nat /\ Occurrences(FreeOf(x), Tail(w)) \in Nat
  <2>1. /\ Occurrences(ReleaseOf(x), w) = One(ReleaseOf(x), FreeOf(o)) + Occurrences(ReleaseOf(x), Tail(w))
        /\ Occurrences(FreeOf(x), w) = One(FreeOf(x), FreeOf(o)) + Occurrences(FreeOf(x), Tail(w))
    BY OccurrencesHead
  <2>2. One(ReleaseOf(x), FreeOf(o)) = 0 /\ One(FreeOf(x), FreeOf(o)) = One(x, o)
    BY JobIs DEF One
  <2>3. Occurrences(ReleaseOf(x), Tail(w)) \in Nat /\ Occurrences(FreeOf(x), Tail(w)) \in Nat
    BY <1>1, OccurrencesType
  <2>. QED
    BY <2>1, <2>2, <2>3
<1>. QED
  BY <1>1, <1>2

(* The items of an object are released, and it is freed, before the rest.  *)
Toppled(items, o, w, w2) ==
  /\ w2 \in Seq(Job)
  /\ \A x \in Objects :
       /\ Occurrences(ReleaseOf(x), w2) = Occurrences(x, items) + Occurrences(ReleaseOf(x), w)
       /\ Occurrences(FreeOf(x), w2) = One(x, o) + Occurrences(FreeOf(x), w)

LEMMA TornDown ==
  ASSUME NEW items \in Seq(Objects), NEW o \in Objects, NEW w \in Seq(Job),
         NEW w2, w2 = ReleasesOf(items) \o <<FreeOf(o)>> \o w
  PROVE  Toppled(items, o, w, w2)
<1>1. PICK r, f : r = ReleasesOf(items) /\ f = <<FreeOf(o)>>
  OBVIOUS
<1>2. /\ r \in Seq(Job) /\ f \in Seq(Job) /\ w2 = r \o f \o w
      /\ \A x \in Objects : Occurrences(FreeOf(x), r) = 0
      /\ \A x : Occurrences(ReleaseOf(x), r) = Occurrences(x, items)
  BY <1>1, ReleasesIs, JobIs DEF Releases
<1>3. PICK q : q = (r \o f)
  OBVIOUS
<1>4. q \in Seq(Job) /\ w2 = q \o w /\ w2 \in Seq(Job)
  <2>1. q \in Seq(Job)
    BY ONLY <1>2, <1>3
  <2>2. w2 = (r \o f) \o w
    BY <1>1, Zenon
  <2>3. w2 = q \o w
    BY ONLY <1>3, <2>2, Zenon
  <2>4. q \o w \in Seq(Job)
    BY ONLY <2>1, w \in Seq(Job)
  <2>. QED
    BY ONLY <2>1, <2>3, <2>4, Zenon
<1>5. ASSUME NEW x \in Objects
      PROVE  /\ Occurrences(ReleaseOf(x), w2) = Occurrences(x, items) + Occurrences(ReleaseOf(x), w)
             /\ Occurrences(FreeOf(x), w2) = One(x, o) + Occurrences(FreeOf(x), w)
  <2>1. \A j : /\ Occurrences(j, q) = Occurrences(j, r) + Occurrences(j, f)
               /\ Occurrences(j, w2) = Occurrences(j, q) + Occurrences(j, w)
               /\ Occurrences(j, f) = One(j, FreeOf(o))
    <3>. TAKE j
    <3>1. Occurrences(j, r \o f) = Occurrences(j, r) + Occurrences(j, f)
      BY <1>2, OccurrencesConcat
    <3>2. Occurrences(j, q \o w) = Occurrences(j, q) + Occurrences(j, w)
      BY <1>4, OccurrencesConcat
    <3>. QED
      BY <1>1, <1>3, <1>4, <3>1, <3>2, OccurrencesOne
  <2>2. One(ReleaseOf(x), FreeOf(o)) = 0 /\ One(FreeOf(x), FreeOf(o)) = One(x, o)
        /\ One(x, o) \in Nat
    BY JobIs DEF One
  <2>3. Occurrences(x, items) \in Nat /\ Occurrences(ReleaseOf(x), w) \in Nat
        /\ Occurrences(FreeOf(x), w) \in Nat
    BY OccurrencesType
  <2>4. /\ Occurrences(ReleaseOf(x), w2) = Occurrences(ReleaseOf(x), r) + 0 + Occurrences(ReleaseOf(x), w)
        /\ Occurrences(FreeOf(x), w2) = Occurrences(FreeOf(x), r) + One(x, o) + Occurrences(FreeOf(x), w)
    BY <2>1, <2>2
  <2>5. Occurrences(ReleaseOf(x), r) = Occurrences(x, items) /\ Occurrences(FreeOf(x), r) = 0
    BY <1>2
  <2>. QED
    BY <2>2, <2>3, <2>4, <2>5
<1>. QED
  BY <1>4, <1>5 DEF Toppled

LEMMA UnlinkedIs ==
  ASSUME live \in Seq(Objects), NEW o \in Objects, Occurrences(o, live) = 1
  PROVE  /\ Unlinked(o) \in Seq(Objects)
         /\ \A x : Occurrences(x, Unlinked(o)) + One(x, o) = Occurrences(x, live)
<1>1. PICK l, n : l = live /\ n = Len(l)
  OBVIOUS
<1>2. l \in Seq(Objects) /\ n \in Nat /\ DOMAIN l = 1..n
  BY <1>1
<1>3. \E i \in DOMAIN l : l[i] = o
  <2>1. Occurrences(o, l) # 0
    BY <1>1
  <2>. QED
    BY <1>2, <2>1, OccurrencesType
<1>4. PICK i : i = CHOOSE k \in DOMAIN l : l[k] = o
  OBVIOUS
<1>5. i \in 1..n /\ l[i] = o
  BY <1>2, <1>3, <1>4
<1>6. PICK a, b, c : a = SubSeq(l, 1, i - 1) /\ b = SubSeq(l, i + 1, n) /\ c = <<o>>
  OBVIOUS
<1>7. a \in Seq(Objects) /\ b \in Seq(Objects) /\ c \in Seq(Objects)
  BY <1>2, <1>5, <1>6
<1>8. Unlinked(o) = a \o b
  BY <1>1, <1>4, <1>6 DEF Unlinked
<1>9. l = a \o c \o b
  <2>1. i \in Int /\ 1 <= i /\ i <= n /\ n = Len(l) /\ 1 \in 1..(n + 1)
    BY <1>1, <1>5
  <2>2. SubSeq(l, 1, i) = a \o c
    BY <1>2, <1>5, <1>6, <2>1, SubSeqRecursiveSecond
  <2>3. SubSeq(l, 1, i) \o b = SubSeq(l, 1, n)
    <3>1. 1 \in 1..(Len(l) + 1) /\ i \in (1 - 1)..Len(l) /\ n \in i..Len(l)
      BY <1>2, <2>1
    <3>2. SubSeq(l, 1, i) \o SubSeq(l, i + 1, n) = SubSeq(l, 1, n)
      BY <1>2, <3>1, ConcatAdjacentSubSeq
    <3>. QED
      BY <1>6, <3>2
  <2>4. SubSeq(l, 1, n) = l
    BY <1>1, <1>2, SubSeqFull
  <2>. QED
    BY <2>2, <2>3, <2>4
<1>10. ASSUME NEW x  PROVE Occurrences(x, a \o b) + One(x, o) = Occurrences(x, l)
  <2>1. PICK d : d = a \o c
    OBVIOUS
  <2>2. d \in Seq(Objects) /\ l = d \o b
    BY <1>7, <1>9, <2>1
  <2>3. /\ Occurrences(x, d) = Occurrences(x, a) + Occurrences(x, c)
        /\ Occurrences(x, l) = Occurrences(x, d) + Occurrences(x, b)
        /\ Occurrences(x, a \o b) = Occurrences(x, a) + Occurrences(x, b)
        /\ Occurrences(x, c) = One(x, o)
    <3>1. Occurrences(x, a \o c) = Occurrences(x, a) + Occurrences(x, c)
      BY <1>7, OccurrencesConcat
    <3>2. Occurrences(x, d \o b) = Occurrences(x, d) + Occurrences(x, b)
      BY <1>7, <2>2, OccurrencesConcat
    <3>3. Occurrences(x, a \o b) = Occurrences(x, a) + Occurrences(x, b)
      BY <1>7, OccurrencesConcat
    <3>. QED
      BY <1>6, <2>1, <2>2, <3>1, <3>2, <3>3, OccurrencesOne
  <2>4. Occurrences(x, a) \in Nat /\ Occurrences(x, b) \in Nat /\ One(x, o) \in Nat
    BY <1>7, OccurrencesType DEF One
  <2>. QED
    BY <2>3, <2>4
<1>11. a \o b \in Seq(Objects)
  BY <1>7
<1>. QED
  BY <1>1, <1>8, <1>10, <1>11

(* g is h but for the count of o, which is n.                              *)
Recounted(h, g, o, n) ==
  /\ g \in Heaps /\ Alike(h[o], g[o]) /\ g[o].count = n /\ n \in Nat
  /\ \A x \in Objects : x # o => g[x] = h[x]

LEMMA RecountedIs ==
  ASSUME NEW h \in Heaps, NEW o \in Objects, NEW n \in Nat
  PROVE  Recounted(h, [h EXCEPT ![o].count = n], o, n)
<1>. DEFINE r == [h[o] EXCEPT !.count = n]
<1>1. h[o] \in Obj
  BY ObjFacts
<1>2. r \in Obj /\ Alike(h[o], r) /\ r.count = n
  BY <1>1 DEF Obj, Alike
<1>. HIDE DEF r
<1>3. [h EXCEPT ![o].count = n] = [h EXCEPT ![o] = r]
  BY DEF r
<1>4. Put(h, [h EXCEPT ![o] = r], o, r)
  BY <1>2, PutIs
<1>. QED
  BY <1>2, <1>3, <1>4 DEF Recounted, Put

(* An object whose count changes keeps its shape and its block.            *)
Kept(h, g, o) ==
  /\ Shaped(g)
  /\ \A q \in Objects : q # o => SameItems(h, g, q)
  /\ \A q \in Objects : g[q].kind = h[q].kind /\ g[q].items = h[q].items
  /\ \A kind : Bytes(g, kind) = Bytes(h, kind)

LEMMA RecountedKeeps ==
  ASSUME NEW h \in Heaps, NEW g, NEW o \in Objects, NEW n, Recounted(h, g, o, n),
         Shaped(h), h[o].kind # "freed"
  PROVE  Kept(h, g, o)
<1>1. ShapedObject(h[o]) /\ g[o].kind # "freed" /\ Alike(h[o], g[o]) /\ g \in Heaps
      /\ \A q \in Objects : q # o => g[q] = h[q]
  BY DEF Shaped, Recounted, Alike
<1>2. ShapedObject(g[o])
  BY <1>1, AlikeShaped
<1>3. Shaped(g)
  BY <1>1, <1>2 DEF Shaped
<1>4. \A q \in Objects : g[q].kind = h[q].kind /\ g[q].block = h[q].block /\ g[q].items = h[q].items
  BY <1>1 DEF Alike
<1>5. \A kind : Bytes(g, kind) = Bytes(h, kind)
  BY <1>1, <1>4, BytesSame
<1>. QED
  BY <1>1, <1>3, <1>4, <1>5 DEF Kept, SameItems

(* The work w has become w2 and what holds of the heap still does.         *)
Unburdened(h, g, l, w, w2, b) ==
  /\ Solid(g, l, w2, b)
  /\ \A hd \in Tallies, lk \in Tallies : Counted(h, hd, lk, w) => Counted(g, hd, lk, w2)

(* The release of an object that has other references, or none.            *)
LEMMA ReleaseSome ==
  ASSUME NEW h, NEW l, NEW w, NEW b, Solid(h, l, w, b), w # <<>>,
         NEW o \in Objects, Head(w) = ReleaseOf(o), h[o].kind # "freed", h[o].count # 1,
         NEW n, n = IF h[o].count = 0 THEN 0 ELSE h[o].count - 1,
         NEW g, Recounted(h, g, o, n)
  PROVE  /\ Solid(g, l, Tail(w), b)
         /\ \A hd \in Tallies, lk \in Tallies : Counted(h, hd, lk, w) => Counted(g, hd, lk, Tail(w))
<1>1. /\ h \in Heaps /\ Shaped(h) /\ Listed(h, l) /\ w \in Seq(Job) /\ Freeing(h, w) /\ Sizes(h, b)
      /\ g \in Heaps /\ g[o].count = n /\ \A q \in Objects : q # o => g[q] = h[q]
  BY DEF Solid, Recounted
<1>2. h[o].count \in Nat
  BY <1>1, ObjFacts
<1>3. n \in Nat /\ (n > 0 <=> h[o].count > 0)
  BY <1>2
<1>4. /\ Shaped(g) /\ \A q \in Objects : q # o => SameItems(h, g, q)
      /\ \A q \in Objects : g[q].kind = h[q].kind /\ g[q].items = h[q].items
      /\ \A kind : Bytes(g, kind) = Bytes(h, kind)
  <2>1. Kept(h, g, o)
    BY <1>1, RecountedKeeps
  <2>. QED
    BY <2>1 DEF Kept
<1>5. /\ Tail(w) \in Seq(Job)
      /\ \A x \in Objects :
           /\ Occurrences(ReleaseOf(x), w) = One(x, o) + Occurrences(ReleaseOf(x), Tail(w))
           /\ Occurrences(FreeOf(x), w) = Occurrences(FreeOf(x), Tail(w))
           /\ Occurrences(ReleaseOf(x), Tail(w)) \in Nat
  BY <1>1, HeadReleased
<1>6. \A x \in Objects : (g[x].count > 0 <=> h[x].count > 0) /\ (g[x].count = 0 <=> h[x].count = 0)
  BY <1>1, <1>2, <1>3
<1>7. Listed(g, l)
  BY <1>1, <1>6, ListedSame
<1>8. Freeing(g, Tail(w))
  BY <1>1, <1>4, <1>5, <1>6 DEF Freeing, Waits
<1>9. Sizes(g, b)
  BY <1>1, <1>4 DEF Sizes
<1>10. ASSUME NEW hd \in Tallies, NEW lk \in Tallies, Counted(h, hd, lk, w)
       PROVE  Counted(g, hd, lk, Tail(w))
  <2>1. h[o].count # 0
    <3>1. h[o].count = hd[o] + lk[o] + In(h, o) + Occurrences(ReleaseOf(o), w)
      BY <1>10 DEF Counted
    <3>2. Occurrences(ReleaseOf(o), w) = 1 + Occurrences(ReleaseOf(o), Tail(w))
          /\ Occurrences(ReleaseOf(o), Tail(w)) \in Nat
      BY <1>5 DEF One
    <3>3. hd[o] \in Nat /\ lk[o] \in Nat /\ In(h, o) \in Nat
      BY <1>1, InType DEF Tallies
    <3>. QED
      BY <3>1, <3>2, <3>3
  <2>2. ASSUME NEW x \in Objects
        PROVE  g[x].count + Own(h, o, x) + hd[x] + lk[x] + Occurrences(ReleaseOf(x), w)
                 = h[x].count + Own(g, o, x) + hd[x] + lk[x] + Occurrences(ReleaseOf(x), Tail(w))
    <3>1. g[x].count + One(x, o) = h[x].count
      BY <1>1, <1>2, <2>1, ObjFacts DEF One
    <3>2. Own(g, o, x) = Own(h, o, x)
      BY <1>4, <1>6 DEF Own
    <3>3. Occurrences(ReleaseOf(x), w) = One(x, o) + Occurrences(ReleaseOf(x), Tail(w))
      BY <1>5
    <3>4. One(x, o) \in Nat
      BY DEF One
    <3>5. PICK i \in Nat, j \in Nat, k \in Nat, t \in Nat, u \in Nat, v \in Nat :
            /\ i = g[x].count /\ j = Own(h, o, x) /\ k = hd[x] /\ t = lk[x] /\ u = One(x, o)
            /\ v = Occurrences(ReleaseOf(x), Tail(w))
      BY <1>1, <1>5, <3>4, ObjFacts, InType DEF Tallies
    <3>6. i + j + k + t + (u + v) = i + u + j + k + t + v
      BY ONLY TRUE
    <3>. QED
      BY <3>1, <3>2, <3>3, <3>5, <3>6
  <2>3. Balanced(h, g, o, hd, lk, w, hd, lk, Tail(w))
    BY <2>2 DEF Balanced
  <2>. QED
    BY <1>1, <1>4, <1>5, <1>10, <2>3, StillCounted
<1>11. Solid(g, l, Tail(w), b)
  BY <1>1, <1>4, <1>5, <1>7, <1>8, <1>9 DEF Solid
<1>. QED
  BY <1>10, <1>11

(* The release of the last reference: the items are released in turn.      *)
LEMMA ReleaseLast ==
  ASSUME NEW h, NEW l, NEW w, NEW b, Solid(h, l, w, b), w # <<>>,
         NEW o \in Objects, Head(w) = ReleaseOf(o), h[o].kind # "freed", h[o].count = 1,
         NEW g, Recounted(h, g, o, 0),
         NEW l2 \in Seq(Objects), \A x : Occurrences(x, l2) + One(x, o) = Occurrences(x, l),
         NEW w2, w2 = ReleasesOf(h[o].items) \o <<FreeOf(o)>> \o Tail(w)
  PROVE  Unburdened(h, g, l2, w, w2, b)
<1>1. /\ h \in Heaps /\ Shaped(h) /\ Listed(h, l) /\ w \in Seq(Job) /\ Freeing(h, w) /\ Sizes(h, b)
      /\ g \in Heaps /\ g[o].count = 0 /\ \A q \in Objects : q # o => g[q] = h[q]
  BY DEF Solid, Recounted
<1>2. h[o].items \in Seq(Objects)
  BY <1>1, ObjFacts
<1>3. /\ Shaped(g) /\ \A q \in Objects : q # o => SameItems(h, g, q)
      /\ \A q \in Objects : g[q].kind = h[q].kind
      /\ \A kind : Bytes(g, kind) = Bytes(h, kind)
  <2>1. Kept(h, g, o)
    BY <1>1, RecountedKeeps
  <2>. QED
    BY <2>1 DEF Kept
<1>4. /\ Tail(w) \in Seq(Job)
      /\ \A x \in Objects :
           /\ Occurrences(ReleaseOf(x), w) = One(x, o) + Occurrences(ReleaseOf(x), Tail(w))
           /\ Occurrences(FreeOf(x), w) = Occurrences(FreeOf(x), Tail(w))
           /\ Occurrences(ReleaseOf(x), Tail(w)) \in Nat /\ Occurrences(FreeOf(x), Tail(w)) \in Nat
  BY <1>1, HeadReleased
<1>5. /\ w2 \in Seq(Job)
      /\ \A x \in Objects :
           /\ Occurrences(ReleaseOf(x), w2)
                = Occurrences(x, h[o].items) + Occurrences(ReleaseOf(x), Tail(w))
           /\ Occurrences(FreeOf(x), w2) = One(x, o) + Occurrences(FreeOf(x), Tail(w))
  <2>1. PICK s, t : s = h[o].items /\ t = Tail(w)
    OBVIOUS
  <2>2. s \in Seq(Objects) /\ t \in Seq(Job) /\ w2 = ReleasesOf(s) \o <<FreeOf(o)>> \o t
    BY <1>2, <1>4, <2>1
  <2>3. Toppled(s, o, t, w2)
    BY <2>2, TornDown
  <2>. QED
    BY <2>1, <2>3 DEF Toppled
<1>6. Listed(g, l2)
  <2>1. ASSUME NEW x \in Objects
        PROVE  Occurrences(x, l2) = IF g[x].count > 0 THEN 1 ELSE 0
    <3>1. Occurrences(x, l) = (IF h[x].count > 0 THEN 1 ELSE 0) /\ Occurrences(x, l2) \in Nat
      BY <1>1, OccurrencesType DEF Listed
    <3>2. Occurrences(x, l2) + One(x, o) = Occurrences(x, l)
      OBVIOUS
    <3>. QED
      BY <1>1, <3>1, <3>2 DEF One
  <2>. QED
    BY <2>1 DEF Listed
<1>7. Freeing(g, w2)
  <2>1. ASSUME NEW x \in Objects  PROVE Occurrences(FreeOf(x), w2) = Waits(g[x])
    <3>1. Occurrences(FreeOf(x), w2) = One(x, o) + Waits(h[x])
      BY <1>1, <1>4, <1>5 DEF Freeing
    <3>. QED
      BY <1>1, <1>3, <3>1 DEF One, Waits
  <2>. QED
    BY <2>1 DEF Freeing
<1>8. Sizes(g, b)
  BY <1>1, <1>3 DEF Sizes
<1>9. ASSUME NEW hd \in Tallies, NEW lk \in Tallies, Counted(h, hd, lk, w)
      PROVE  Counted(g, hd, lk, w2)
  <2>1. ASSUME NEW x \in Objects
        PROVE  g[x].count + Own(h, o, x) + hd[x] + lk[x] + Occurrences(ReleaseOf(x), w)
                 = h[x].count + Own(g, o, x) + hd[x] + lk[x] + Occurrences(ReleaseOf(x), w2)
    <3>1. g[x].count + One(x, o) = h[x].count
      BY <1>1, ObjFacts DEF One
    <3>2. Own(h, o, x) = Occurrences(x, h[o].items) /\ Own(g, o, x) = 0
      BY <1>1 DEF Own
    <3>3. /\ Occurrences(ReleaseOf(x), w) = One(x, o) + Occurrences(ReleaseOf(x), Tail(w))
          /\ Occurrences(ReleaseOf(x), w2)
               = Occurrences(x, h[o].items) + Occurrences(ReleaseOf(x), Tail(w))
      BY <1>4, <1>5
    <3>4. One(x, o) \in Nat /\ Occurrences(x, h[o].items) \in Nat
      BY <1>2, OccurrencesType DEF One
    <3>5. PICK i \in Nat, j \in Nat, k \in Nat, t \in Nat, u \in Nat, v \in Nat :
            /\ i = g[x].count /\ j = Occurrences(x, h[o].items) /\ k = hd[x] /\ t = lk[x]
            /\ u = One(x, o) /\ v = Occurrences(ReleaseOf(x), Tail(w))
      BY <1>1, <1>4, <3>4, ObjFacts DEF Tallies
    <3>6. i + j + k + t + (u + v) = i + u + 0 + k + t + (j + v)
      BY ONLY TRUE
    <3>. QED
      BY <3>1, <3>2, <3>3, <3>5, <3>6
  <2>2. Balanced(h, g, o, hd, lk, w, hd, lk, w2)
    BY <2>1 DEF Balanced
  <2>. QED
    BY <1>1, <1>3, <1>5, <1>9, <2>2, StillCounted
<1>10. Solid(g, l2, w2, b)
  BY <1>1, <1>3, <1>5, <1>6, <1>7, <1>8 DEF Solid
<1>. QED
  BY <1>9, <1>10 DEF Unburdened

(* The block of an object and its header are freed.                        *)
LEMMA FreeGood ==
  ASSUME NEW h, NEW l, NEW w, NEW b, Solid(h, l, w, b), w # <<>>,
         NEW o \in Objects, Head(w) = FreeOf(o),
         NEW g, g = [h EXCEPT ![o] = Freed],
         NEW block, block = IF h[o].kind = "list" THEN h[o].capacity
                            ELSE IF h[o].kind = "tuple" THEN Len(h[o].items) ELSE 0,
         NEW c, c = [b EXCEPT ![h[o].kind] = Minus(Minus(@, block), 1)]
  PROVE  /\ Solid(g, l, Tail(w), c)
         /\ \A x \in Objects : Fewer(h, g, x)
         /\ \A hd \in Tallies, lk \in Tallies : Counted(h, hd, lk, w) => Counted(g, hd, lk, Tail(w))
<1>1. /\ h \in Heaps /\ Shaped(h) /\ Listed(h, l) /\ w \in Seq(Job) /\ Freeing(h, w) /\ Sizes(h, b)
  BY DEF Solid
<1>2. /\ g \in Heaps /\ g[o] = Freed /\ \A q \in Objects : q # o => g[q] = h[q]
  <2>1. Put(h, g, o, Freed)
    BY <1>1, FreedIs, PutIs
  <2>. QED
    BY <2>1 DEF Put
<1>3. /\ Tail(w) \in Seq(Job)
      /\ \A x \in Objects :
           /\ Occurrences(FreeOf(x), w) = One(x, o) + Occurrences(FreeOf(x), Tail(w))
           /\ Occurrences(ReleaseOf(x), w) = Occurrences(ReleaseOf(x), Tail(w))
           /\ Occurrences(ReleaseOf(x), Tail(w)) \in Nat /\ Occurrences(FreeOf(x), Tail(w)) \in Nat
  BY <1>1, HeadFreed
<1>4. h[o].count = 0 /\ h[o].kind # "freed" /\ Occurrences(FreeOf(o), Tail(w)) = 0
  <2>1. Occurrences(FreeOf(o), w) = Waits(h[o]) /\ Occurrences(FreeOf(o), w) = 1 + Occurrences(FreeOf(o), Tail(w))
        /\ Occurrences(FreeOf(o), Tail(w)) \in Nat
    BY <1>1, <1>3 DEF Freeing, One
  <2>. QED
    BY <2>1 DEF Waits
<1>5. /\ h[o].kind \in Kinds /\ h[o].block \in Nat /\ block = h[o].block
  BY <1>1, <1>4, ObjFacts DEF Shaped, ShapedObject
<1>6. g[o].count = 0 /\ g[o].kind = "freed"
  BY <1>2, FreedIs
<1>7. Shaped(g)
  BY <1>1, <1>2, FreedIs DEF Shaped
<1>8. \A q \in Objects : q # o => SameItems(h, g, q) /\ g[q].kind = h[q].kind /\ g[q].block = h[q].block
  BY <1>2 DEF SameItems
<1>9. Listed(g, l)
  <2>1. \A x \in Objects : g[x].count > 0 <=> h[x].count > 0
    BY <1>2, <1>4, <1>6
  <2>. QED
    BY <1>1, <2>1, ListedSame
<1>10. Freeing(g, Tail(w))
  <2>1. ASSUME NEW x \in Objects  PROVE Occurrences(FreeOf(x), Tail(w)) = Waits(g[x])
    <3>1. CASE x = o
      BY <1>4, <1>6, <3>1 DEF Waits
    <3>2. CASE x # o
      <4>1. Occurrences(FreeOf(x), Tail(w)) = Occurrences(FreeOf(x), w)
        BY <1>3, <3>2 DEF One
      <4>. QED
        BY <1>1, <1>2, <3>2, <4>1 DEF Freeing
    <3>. QED
      BY <3>1, <3>2
  <2>. QED
    BY <2>1 DEF Freeing
<1>11. Sizes(g, c)
  <2>1. PICK kind \in Kinds, n \in Nat : kind = h[o].kind /\ n = h[o].block
    BY <1>5
  <2>2. Size(h, o, kind) = n + 1 /\ Size(g, o, kind) = 0
        /\ \A k \in Kinds : k # kind => Size(h, o, k) = 0 /\ Size(g, o, k) = 0
    BY <1>6, <2>1 DEF Size, Kinds
  <2>3. Size(h, o, kind) <= Bytes(h, kind) /\ Bytes(h, kind) \in Nat
    BY <1>1, <1>2, <1>8, BytesChange
  <2>4. b \in [Kinds -> Nat] /\ b[kind] = Bytes(h, kind) /\ \A k \in Kinds : b[k] \in Nat
    BY <1>1 DEF Sizes
  <2>5. Minus(Minus(b[kind], n), 1) = b[kind] - (n + 1) + 0
    <3>1. b[kind] \in Nat /\ n + 1 <= b[kind]
      BY <2>2, <2>3, <2>4
    <3>. QED
      BY <3>1 DEF Minus
  <2>6. c = [k \in Kinds |-> IF k = kind THEN b[kind] - (n + 1) + 0 ELSE b[k]]
    BY <1>5, <2>1, <2>4, <2>5
  <2>7. Tagged(b, c, kind, n + 1, 0)
    BY <2>6 DEF Tagged
  <2>. QED
    BY ONLY <1>1, <1>2, <1>8, <2>2, <2>7, StillSized, o \in Objects, kind \in Kinds
<1>12. ASSUME NEW hd \in Tallies, NEW lk \in Tallies, Counted(h, hd, lk, w)
       PROVE  Counted(g, hd, lk, Tail(w))
  <2>1. ASSUME NEW x \in Objects
        PROVE  g[x].count + Own(h, o, x) + hd[x] + lk[x] + Occurrences(ReleaseOf(x), w)
                 = h[x].count + Own(g, o, x) + hd[x] + lk[x] + Occurrences(ReleaseOf(x), Tail(w))
    BY <1>2, <1>3, <1>4, <1>6 DEF Own
  <2>2. Balanced(h, g, o, hd, lk, w, hd, lk, Tail(w))
    BY <2>1 DEF Balanced
  <2>. QED
    BY <1>1, <1>2, <1>3, <1>8, <1>12, <2>2, StillCounted
<1>13. Solid(g, l, Tail(w), c)
  BY <1>2, <1>3, <1>7, <1>9, <1>10, <1>11 DEF Solid
<1>14. \A x \in Objects : Fewer(h, g, x)
  BY <1>2, <1>6 DEF Fewer
<1>. QED
  BY <1>12, <1>13, <1>14

-----------------------------------------------------------------------------
(* What is left when nothing outside refers to any object.                 *)

(* A function from a finite set to itself maps some part of it onto itself.*)
Onto(p, T) == T # {} /\ \A y \in T : \E x \in T : p[x] = y

LEMMA Backwards ==
  ASSUME NEW L, IsFiniteSet(L), L # {}, NEW p \in [L -> L]
  PROVE  \E T \in SUBSET L : Onto(p, T)
<1>. DEFINE Closed == {T \in SUBSET L : T # {} /\ \A x \in T : p[x] \in T}
            N == {Cardinality(T) : T \in Closed}
<1>1. L \in Closed
  OBVIOUS
<1>2. \A T \in Closed : IsFiniteSet(T) /\ Cardinality(T) \in Nat
  BY FS_Subset, FS_CardinalityType
<1>3. N \in SUBSET Nat /\ N # {}
  BY <1>1, <1>2
<1>4. \E n \in N : \A m \in N : n <= m
  <2>. HIDE DEF N
  <2>. QED
    BY <1>3, LeastExists
<1>5. PICK T \in Closed : \A V \in Closed : Cardinality(T) <= Cardinality(V)
  BY <1>4
<1>. DEFINE V == {p[x] : x \in T}
<1>6. V \in Closed /\ V \subseteq T
  BY <1>5
<1>7. IsFiniteSet(T) /\ Cardinality(T) <= Cardinality(V)
  BY <1>2, <1>5, <1>6
<1>8. V = T
  <2>1. Cardinality(V) \in Nat /\ Cardinality(T) \in Nat /\ Cardinality(V) <= Cardinality(T)
        /\ (Cardinality(V) = Cardinality(T) => V = T)
    <3>. HIDE DEF V, Closed
    <3>. QED
      BY <1>2, <1>5, <1>6, <1>7, FS_Subset
  <2>. QED
    BY <1>7, <2>1
<1>9. \A y \in T : \E x \in T : p[x] = y
  BY <1>8
<1>10. T \in SUBSET L /\ Onto(p, T)
  BY <1>5, <1>9 DEF Onto
<1>. QED
  BY <1>10

(* An object with references in items is an item of a live object.         *)
LEMMA Referrer ==
  ASSUME NEW h \in Heaps, NEW x, In(h, x) # 0
  PROVE  \E p \in Objects : h[p].count > 0 /\ \E i \in DOMAIN h[p].items : h[p].items[i] = x
<1>. SUFFICES ASSUME \A p \in Objects : h[p].count > 0 => \A i \in DOMAIN h[p].items : h[p].items[i] # x
              PROVE  FALSE
  OBVIOUS
<1>1. \A p \in Objects : ItemSets(h, x)[p] = {}
  BY DEF ItemSets
<1>2. Pairs(ItemSets(h, x)) = {}
  BY <1>1 DEF Pairs
<1>. QED
  BY <1>2, FS_EmptySet DEF In

(* Where every live object is an item of a live object there is a cycle.   *)
LEMMA NoRoots ==
  ASSUME NEW h \in Heaps, Shaped(h), NEW o \in Objects, h[o].count > 0,
         \A x \in Objects : h[x].count > 0 => In(h, x) # 0
  PROVE  CyclicIn(h, Kinds)
<1>. DEFINE L == {x \in Objects : h[x].count > 0}
<1>1. IsFiniteSet(L) /\ L # {}
  BY FS_Subset, BoundsAssumption
<1>2. \A x \in L : \E q \in L : \E i \in DOMAIN h[q].items : h[q].items[i] = x
  BY Referrer
<1>. DEFINE p == [x \in L |-> CHOOSE q \in L : \E i \in DOMAIN h[q].items : h[q].items[i] = x]
<1>3. p \in [L -> L] /\ \A x \in L : \E i \in DOMAIN h[p[x]].items : h[p[x]].items[i] = x
  BY <1>2
<1>4. \A x \in L : x \in Objects /\ h[x].count > 0 /\ h[x].kind \in Kinds
  <2>1. \A x \in L : h[x].kind # "freed"
    BY FreedCount
  <2>. QED
    BY <2>1, ObjFacts
<1>. HIDE DEF L, p
<1>5. PICK T \in SUBSET L : Onto(p, T)
  BY <1>1, <1>3, Backwards
<1>6. \A y \in T : \E i \in DOMAIN h[y].items : h[y].items[i] \in T
  BY <1>3, <1>5 DEF Onto
<1>7. Circle(h, Kinds, T)
  BY <1>4, <1>5, <1>6 DEF Circle, Onto
<1>. QED
  BY <1>7 DEF CyclicIn

-----------------------------------------------------------------------------
(* The inductive invariant.                                                *)

Sound == Solid(heap, live, work, bytes) /\ held \in Tallies /\ leaked \in Tallies
Acyclic == gaveUp \/ ~ CyclicIn(heap, {"list"})
Exact == phase \in {"running", "clearing"} /\ fault = "none" => Counted(heap, held, leaked, work)

(* Shutdown forces nothing unless it began with a cycle or a lost          *)
(* reference: without these, what nothing refers to any more is freed.     *)
NoCycles == ~ CyclicIn(heap, Kinds) /\ \A o \in Objects : leaked[o] = 0
ShuttingDown ==
  /\ phase \in {"running", "clearing", "forcing", "ended"}
  /\ phase = "clearing" => tangled \/ NoCycles
  /\ phase = "forcing" => tangled
  /\ fault = "release of a freed object" => phase = "forcing"
  /\ phase = "ended" => live = <<>> /\ work = <<>>

IInv == Sound /\ Acyclic /\ Exact /\ ShuttingDown

LEMMA InitIInv == Init => IInv
<1>. SUFFICES ASSUME Init  PROVE IInv
  OBVIOUS
<1>1. /\ heap = [o \in Objects |-> Freed] /\ live = <<>> /\ work = <<>>
      /\ held = [o \in Objects |-> 0] /\ leaked = [o \in Objects |-> 0]
      /\ bytes = [kind \in Kinds |-> 0]
      /\ phase = "running" /\ fault = "none" /\ gaveUp = FALSE
  BY DEF Init
<1>2. /\ heap \in Heaps /\ Shaped(heap)
      /\ \A x \in Objects : heap[x].count = 0 /\ heap[x].kind = "freed"
  <2>1. \A x \in Objects : heap[x] = Freed
    BY <1>1
  <2>2. heap \in Heaps
    BY <1>1, FreedIs DEF Heaps
  <2>. QED
    BY <2>1, <2>2, FreedIs DEF Shaped
<1>3. \A x : In(heap, x) = 0
  <2>. TAKE x
  <2>. SUFFICES ASSUME In(heap, x) # 0  PROVE FALSE
    OBVIOUS
  <2>1. PICK p \in Objects : heap[p].count > 0
    BY <1>2, Referrer
  <2>. QED
    BY <1>2, <2>1
<1>4. \A x : Occurrences(x, <<>>) = 0
  BY OccurrencesEmpty
<1>5. Listed(heap, live)
  BY <1>1, <1>2, <1>4 DEF Listed
<1>6. Freeing(heap, work)
  BY <1>1, <1>2, <1>4 DEF Freeing, Waits
<1>7. Sizes(heap, bytes)
  <2>1. ASSUME NEW kind \in Kinds  PROVE Bytes(heap, kind) = 0
    <3>1. \A p \in Objects : BlockSets(heap, kind)[p] = {}
      BY <1>2 DEF BlockSets, Kinds
    <3>2. Pairs(BlockSets(heap, kind)) = {}
      BY <3>1 DEF Pairs
    <3>. QED
      BY <3>2, FS_EmptySet DEF Bytes
  <2>. QED
    BY <1>1, <2>1 DEF Sizes
<1>8. held \in Tallies /\ leaked \in Tallies /\ work \in Seq(Job)
  BY <1>1 DEF Tallies
<1>9. Counted(heap, held, leaked, work)
  BY <1>1, <1>2, <1>3, <1>4 DEF Counted
<1>10. ~ CyclicIn(heap, {"list"})
  BY <1>2 DEF CyclicIn, Circle
<1>. QED
  BY <1>1, <1>2, <1>5, <1>6, <1>7, <1>8, <1>9, <1>10
     DEF IInv, Sound, Solid, Acyclic, Exact, ShuttingDown

LEMMA NowIs ==
  ASSUME IInv, Quiet
  PROVE  Now
BY DEF IInv, Sound, Acyclic, Exact, Quiet, Now, Good

LEMMA RunningOn ==
  ASSUME Now', phase' = "running", fault' # "release of a freed object"
  PROVE  IInv'
BY DEF IInv, Sound, Acyclic, Exact, ShuttingDown, Now, Good

LEMMA RunningGood ==
  ASSUME IInv,
         \/ NewString \/ Build \/ Concat \/ Slice \/ CopySequence
         \/ AppendItem \/ SetItem \/ GetItem \/ Pop \/ ListPop
         \/ IterateList \/ IterateTuple \/ IterateNext
         \/ Retain \/ Drop
  PROVE  IInv'
<1>1. Quiet
  BY DEF NewString, Build, Concat, Slice, CopySequence, AppendItem, SetItem, GetItem, Pop, ListPop,
         IterateList, IterateTuple, IterateNext, Retain, Drop
<1>2. Now
  BY <1>1, NowIs
<1>3. Now'
  <2>1. CASE NewString
    BY <1>1, <1>2, <2>1, NewStringGood
  <2>2. CASE Build
    BY <1>2, <2>2, BuildGood
  <2>3. CASE Concat
    BY <1>2, <2>3, ConcatGood
  <2>4. CASE Slice
    BY <1>2, <2>4, SliceGood
  <2>5. CASE CopySequence
    BY <1>2, <2>5, CopySequenceGood
  <2>6. CASE AppendItem
    BY <1>2, <2>6, AppendItemGood
  <2>7. CASE SetItem
    BY <1>2, <2>7, SetItemGood
  <2>8. CASE GetItem
    BY <1>2, <2>8, GetItemGood
  <2>9. CASE Pop
    BY <1>2, <2>9, PopGood
  <2>10. CASE ListPop
    BY <1>2, <2>10, ListPopGood
  <2>11. CASE IterateList
    BY <1>2, <2>11, IterateListGood
  <2>12. CASE IterateTuple
    BY <1>2, <2>12, IterateTupleGood
  <2>13. CASE IterateNext
    BY <1>2, <2>13, IterateNextGood
  <2>14. CASE Retain
    BY <1>2, <2>14, RetainGood
  <2>15. CASE Drop
    BY <1>2, <2>15, DropGood
  <2>. QED
    BY <2>1, <2>2, <2>3, <2>4, <2>5, <2>6, <2>7, <2>8,
       <2>9, <2>10, <2>11, <2>12, <2>13, <2>14, <2>15
<1>4. \A kind, items, spent, back :
        Container(kind, items, spent, back) =>
          phase' = phase /\ fault' \in {fault, "items of a tuple without a block"}
  <2>1. \A items, spent, back : ListOf(items, spent, back) => phase' = phase /\ fault' = fault
    BY DEF ListOf, History
  <2>2. \A items, spent : TupleOf(items, spent) =>
          phase' = phase /\ fault' \in {fault, "items of a tuple without a block"}
    BY DEF TupleOf
  <2>. QED
    BY <2>1, <2>2 DEF Container
<1>5. phase' = phase /\ fault' \in {fault, "items of a tuple without a block"}
  <2>1. CASE Build
    BY <1>4, <2>1 DEF Build
  <2>2. CASE Concat
    BY <1>4, <2>2 DEF Concat
  <2>3. CASE Slice \/ CopySequence
    BY <1>4, <2>3 DEF Slice, CopySequence
  <2>4. CASE NewString \/ AppendItem \/ SetItem \/ GetItem \/ Pop \/ ListPop
    BY <2>4 DEF NewString, AppendItem, SetItem, GetItem, Pop, ListPop, History
  <2>5. CASE IterateList \/ IterateTuple \/ IterateNext \/ Retain \/ Drop
    BY <2>5 DEF IterateList, IterateTuple, IterateNext, Retain, Drop, History
  <2>. QED
    BY <2>1, <2>2, <2>3, <2>4, <2>5
<1>. QED
  BY <1>1, <1>3, <1>5, RunningOn DEF Quiet

LEMMA ReleaseInv ==
  ASSUME IInv, Release
  PROVE  IInv'
<1>1. PICK o \in Objects :
       /\ Next1(o) /\ Head(work).do = "release"
       /\ IF Is(o, "freed")
          THEN fault' = "release of a freed object" /\ UNCHANGED <<heap, live, work>>
          ELSE /\ heap' = [heap EXCEPT ![o].count = IF @ = 0 THEN 0 ELSE @ - 1]
               /\ IF heap[o].count = 1
                  THEN /\ live' = Unlinked(o)
                       /\ work' = ReleasesOf(heap[o].items) \o <<FreeOf(o)>> \o Tail(work)
                  ELSE UNCHANGED live /\ work' = Tail(work)
               /\ UNCHANGED fault
  BY DEF Release
<1>2. UNCHANGED <<held, bytes, phase, leaked, gaveUp, tangled>>
  BY DEF Release
<1>3. /\ work # <<>> /\ fault = "none" /\ Head(work) = ReleaseOf(o) /\ work \in Seq(Job)
      /\ Solid(heap, live, work, bytes) /\ held \in Tallies /\ leaked \in Tallies
      /\ heap \in Heaps /\ Shaped(heap) /\ live \in Seq(Objects) /\ Listed(heap, live)
  <2>1. work # <<>> /\ fault = "none" /\ Head(work).object = o /\ Head(work).do = "release"
    BY <1>1 DEF Next1
  <2>2. Solid(heap, live, work, bytes) /\ work \in Seq(Job) /\ held \in Tallies /\ leaked \in Tallies
        /\ heap \in Heaps /\ Shaped(heap) /\ live \in Seq(Objects) /\ Listed(heap, live)
    BY DEF IInv, Sound, Solid, Listed
  <2>3. Head(work) \in Job
    BY <2>1, <2>2
  <2>. QED
    BY <2>1, <2>2, <2>3 DEF Job, ReleaseOf
<1>4. CASE Is(o, "freed")
  <2>1. heap[o].count = 0
    BY <1>3, <1>4, FreedIs DEF Is, Shaped, ShapedObject
  <2>2. ~ Counted(heap, held, leaked, work)
    <3>. SUFFICES ASSUME Counted(heap, held, leaked, work)  PROVE FALSE
      OBVIOUS
    <3>1. heap[o].count = held[o] + leaked[o] + In(heap, o) + Occurrences(ReleaseOf(o), work)
      BY DEF Counted
    <3>2. Occurrences(ReleaseOf(o), work) = 1 + Occurrences(ReleaseOf(o), Tail(work))
          /\ Occurrences(ReleaseOf(o), Tail(work)) \in Nat
      BY <1>3, HeadReleased DEF One
    <3>3. held[o] \in Nat /\ leaked[o] \in Nat /\ In(heap, o) \in Nat
      BY <1>3, InType DEF Tallies
    <3>. QED
      BY <2>1, <3>1, <3>2, <3>3
  <2>3. phase = "forcing"
    BY <1>3, <2>2 DEF IInv, Exact, ShuttingDown
  <2>. QED
    BY <1>1, <1>2, <1>4, <2>3 DEF IInv, Sound, Acyclic, Exact, ShuttingDown, NoCycles
<1>5. CASE ~ Is(o, "freed")
  <2>1. heap[o].kind # "freed" /\ heap[o].count \in Nat
    BY <1>3, <1>5, ObjFacts DEF Is
  <2>2. PICK n \in Nat : n = IF heap[o].count = 0 THEN 0 ELSE heap[o].count - 1
    BY <2>1
  <2>3. PICK g : g = [heap EXCEPT ![o].count = n]
    OBVIOUS
  <2>4. heap' = g
    BY <1>1, <1>5, <2>2, <2>3
  <2>5. Recounted(heap, g, o, n)
    BY <1>3, <2>3, RecountedIs
  <2>6. PICK l2, w2 : l2 = live' /\ w2 = work'
    OBVIOUS
  <2>7. /\ Solid(g, l2, w2, bytes)
        /\ Counted(heap, held, leaked, work) => Counted(g, held, leaked, w2)
    <3>1. CASE heap[o].count # 1
      <4>1. l2 = live /\ w2 = Tail(work)
        BY <1>1, <1>5, <2>6, <3>1
      <4>. QED
        BY <1>3, <2>1, <2>2, <2>5, <3>1, <4>1, ReleaseSome
    <3>2. CASE heap[o].count = 1
      <4>1. l2 = Unlinked(o) /\ w2 = ReleasesOf(heap[o].items) \o <<FreeOf(o)>> \o Tail(work)
        BY <1>1, <1>5, <2>6, <3>2
      <4>2. Occurrences(o, live) = 1
        BY <1>3, <3>2 DEF Listed
      <4>3. l2 \in Seq(Objects) /\ \A x : Occurrences(x, l2) + One(x, o) = Occurrences(x, live)
        BY <1>3, <4>1, <4>2, UnlinkedIs
      <4>4. n = 0
        BY <2>2, <3>2
      <4>. QED
        <5>1. PICK l3 \in Seq(Objects) : l3 = l2
          BY <4>3
        <5>2. \A x : Occurrences(x, l3) + One(x, o) = Occurrences(x, live)
          BY <4>3, <5>1
        <5>3. w2 = ReleasesOf(heap[o].items) \o <<FreeOf(o)>> \o Tail(work)
          BY <4>1
        <5>4. Recounted(heap, g, o, 0)
          BY <2>5, <4>4
        <5>5. Unburdened(heap, g, l3, work, w2, bytes)
          BY <1>3, <2>1, <3>2, <5>2, <5>3, <5>4, ReleaseLast
        <5>. QED
          BY <1>3, <5>1, <5>5 DEF Unburdened
    <3>. QED
      BY <3>1, <3>2
  <2>8. \A x \in Objects : Fewer(heap, g, x)
    <3>1. /\ g[o].count = n /\ (n > 0 => heap[o].count > 0) /\ Alike(heap[o], g[o])
          /\ \A x \in Objects : x # o => g[x] = heap[x]
      BY <2>1, <2>2, <2>5 DEF Recounted
    <3>. QED
      BY <3>1 DEF Alike, Fewer
  <2>9. \A kinds : CyclicIn(g, kinds) => CyclicIn(heap, kinds)
    BY <2>8, CyclicFewer
  <2>10. UNCHANGED fault
    BY <1>1, <1>5
  <2>11. Sound'
    BY <1>2, <1>3, <2>4, <2>6, <2>7 DEF Sound
  <2>12. Acyclic'
    BY <1>2, <2>4, <2>9 DEF IInv, Acyclic
  <2>13. Exact'
    BY <1>2, <2>4, <2>6, <2>7, <2>10 DEF IInv, Exact
  <2>14. ShuttingDown'
    BY <1>2, <1>3, <2>4, <2>9, <2>10 DEF IInv, ShuttingDown, NoCycles
  <2>. QED
    BY <2>11, <2>12, <2>13, <2>14 DEF IInv
<1>. QED
  BY <1>4, <1>5

LEMMA FreeInv ==
  ASSUME IInv, Free
  PROVE  IInv'
<1>1. PICK o \in Objects :
       /\ Next1(o) /\ Head(work).do = "free"
       /\ heap' = [heap EXCEPT ![o] = Freed]
       /\ bytes' = [bytes EXCEPT ![heap[o].kind] = Minus(Minus(@, BlockOf(o)), 1)]
  BY DEF Free
<1>2. work' = Tail(work) /\ UNCHANGED <<live, held, phase, fault, leaked, gaveUp, tangled>>
  BY DEF Free
<1>3. /\ work # <<>> /\ Head(work) = FreeOf(o)
      /\ Solid(heap, live, work, bytes) /\ held \in Tallies /\ leaked \in Tallies
  <2>1. work # <<>> /\ Head(work).object = o /\ Head(work).do = "free"
    BY <1>1 DEF Next1
  <2>2. Solid(heap, live, work, bytes) /\ work \in Seq(Job) /\ held \in Tallies /\ leaked \in Tallies
    BY DEF IInv, Sound, Solid
  <2>3. Head(work) \in Job
    BY <2>1, <2>2
  <2>. QED
    BY <2>1, <2>2, <2>3 DEF Job, FreeOf
<1>4. PICK g, c, block : g = heap' /\ c = bytes' /\ block = BlockOf(o)
  OBVIOUS
<1>5. /\ g = [heap EXCEPT ![o] = Freed]
      /\ c = [bytes EXCEPT ![heap[o].kind] = Minus(Minus(@, block), 1)]
      /\ block = IF heap[o].kind = "list" THEN heap[o].capacity
                 ELSE IF heap[o].kind = "tuple" THEN Len(heap[o].items) ELSE 0
  BY <1>1, <1>4 DEF BlockOf, Is
<1>6. /\ Solid(g, live, Tail(work), c)
      /\ \A x \in Objects : Fewer(heap, g, x)
      /\ Counted(heap, held, leaked, work) => Counted(g, held, leaked, Tail(work))
  BY <1>3, <1>5, FreeGood
<1>7. \A kinds : CyclicIn(g, kinds) => CyclicIn(heap, kinds)
  BY <1>6, CyclicFewer
<1>8. Sound'
  BY <1>2, <1>3, <1>4, <1>6 DEF Sound
<1>9. Acyclic'
  BY <1>2, <1>4, <1>7 DEF IInv, Acyclic
<1>10. Exact'
  BY <1>2, <1>4, <1>6 DEF IInv, Exact
<1>11. ShuttingDown'
  BY <1>2, <1>3, <1>4, <1>7 DEF IInv, ShuttingDown, NoCycles
<1>. QED
  BY <1>8, <1>9, <1>10, <1>11 DEF IInv

LEMMA BeginShutdownInv ==
  ASSUME IInv, BeginShutdown
  PROVE  IInv'
<1>1. Quiet /\ phase' = "clearing" /\ tangled' = (Cyclic(Kinds) \/ \E o \in Objects : leaked[o] > 0)
      /\ UNCHANGED <<heap, live, held, work, bytes, fault, leaked, gaveUp>>
  BY DEF BeginShutdown
<1>2. \A o \in Objects : leaked[o] \in Nat
  BY DEF IInv, Sound, Tallies
<1>3. tangled' \/ NoCycles
  <2>1. Cyclic(Kinds) <=> CyclicIn(heap, Kinds)
    BY CyclicIs
  <2>2. (\A o \in Objects : leaked[o] = 0) \/ \E o \in Objects : leaked[o] > 0
    BY <1>2
  <2>3. CASE Cyclic(Kinds) \/ \E o \in Objects : leaked[o] > 0
    BY <1>1, <2>3
  <2>4. CASE NoCycles
    BY <2>4
  <2>. QED
    BY <2>1, <2>2, <2>3, <2>4 DEF NoCycles
<1>4. phase = "running" /\ fault = "none"
  BY <1>1 DEF Quiet
<1>5. Sound' /\ Acyclic' /\ Exact'
  BY <1>1, <1>4 DEF IInv, Sound, Acyclic, Exact
<1>6. ShuttingDown'
  <2>1. NoCycles => NoCycles'
    BY <1>1 DEF NoCycles
  <2>2. phase' = "clearing" /\ fault' = "none"
    BY <1>1, <1>4
  <2>. QED
    BY <1>3, <2>1, <2>2 DEF ShuttingDown
<1>. QED
  BY <1>5, <1>6 DEF IInv

LEMMA ClearInv ==
  ASSUME IInv, Clear
  PROVE  IInv'
<1>1. phase = "clearing" /\ work = <<>> /\ fault = "none"
      /\ UNCHANGED <<heap, live, bytes, phase, fault, leaked, gaveUp, tangled>>
  BY DEF Clear, History
<1>2. PICK o \in HeldOf(Kinds) : Lose(o) /\ work' = <<ReleaseOf(o)>>
  BY DEF Clear
<1>3. o \in Objects /\ held[o] > 0
  BY DEF HeldOf
<1>4. Good(heap, live, held, leaked, <<>>, bytes, gaveUp)
  BY <1>1 DEF IInv, Sound, Acyclic, Exact, Good
<1>5. PICK hd2 : hd2 = [held EXCEPT ![o] = @ - 1]
  OBVIOUS
<1>6. Good(heap, live, hd2, leaked, <<ReleaseOf(o)>>, bytes, gaveUp)
  BY <1>3, <1>4, <1>5, GivesBack
<1>7. Now'
  BY <1>1, <1>2, <1>5, <1>6 DEF Now, Lose
<1>. QED
  BY <1>1, <1>7 DEF IInv, Sound, Acyclic, Exact, ShuttingDown, NoCycles, Now, Good

LEMMA ForceInv ==
  ASSUME IInv, ForceOldest
  PROVE  IInv'
<1>1. /\ phase \in {"clearing", "forcing"} /\ work = <<>> /\ fault = "none"
      /\ HeldOf(Kinds) = {} /\ live # <<>> /\ phase' = "forcing"
      /\ heap' = [heap EXCEPT ![live[Len(live)]].count = 1]
      /\ work' = <<ReleaseOf(live[Len(live)])>>
      /\ UNCHANGED <<live, held, bytes, fault, leaked, gaveUp, tangled>>
  BY DEF ForceOldest
<1>2. /\ Solid(heap, live, <<>>, bytes) /\ held \in Tallies /\ leaked \in Tallies
      /\ heap \in Heaps /\ Shaped(heap) /\ Listed(heap, live) /\ live \in Seq(Objects)
      /\ Sizes(heap, bytes)
  BY <1>1 DEF IInv, Sound, Solid, Listed
<1>3. PICK o \in Objects : o = live[Len(live)]
  BY <1>1, <1>2
<1>4. heap[o].count > 0 /\ heap[o].kind # "freed"
  <2>1. Len(live) \in DOMAIN live
    BY <1>1, <1>2
  <2>2. Occurrences(o, live) # 0
    BY <1>2, <1>3, <2>1, OccurrencesType
  <2>. QED
    BY <1>2, <2>2, FreedCount DEF Listed
<1>5. PICK g, w : g = [heap EXCEPT ![o].count = 1] /\ w = <<ReleaseOf(o)>>
  OBVIOUS
<1>6. heap' = g /\ work' = w
  BY <1>1, <1>3, <1>5
<1>7. Recounted(heap, g, o, 1)
  BY <1>2, <1>5, RecountedIs
<1>8. Kept(heap, g, o)
  BY <1>2, <1>4, <1>7, RecountedKeeps
<1>9. /\ g \in Heaps /\ g[o].count = 1 /\ \A q \in Objects : q # o => g[q] = heap[q]
      /\ \A x \in Objects : g[x].count > 0 <=> heap[x].count > 0
  BY <1>4, <1>7 DEF Recounted
<1>10. Solid(g, live, w, bytes)
  <2>1. Listed(g, live)
    BY <1>2, <1>9, ListedSame
  <2>2. Releases(w)
    BY <1>5, ReleaseOne
  <2>3. ASSUME NEW x \in Objects, g[x].count = 0  PROVE g[x].kind = "freed"
    BY <1>2, <1>9, <2>3, NothingWaits
  <2>4. Freeing(g, w)
    BY <2>2, <2>3, NobodyWaits
  <2>. QED
    BY <1>2, <1>8, <1>9, <2>1, <2>2, <2>4 DEF Solid, Kept, Sizes, Releases
<1>11. gaveUp \/ ~ CyclicIn(g, {"list"})
  <2>1. \A x \in Objects : Fewer(heap, g, x)
    BY <1>8, <1>9 DEF Fewer, Kept
  <2>. QED
    BY <2>1, CyclicFewer DEF IInv, Acyclic
<1>12. tangled
  <2>. SUFFICES ASSUME ~ tangled  PROVE FALSE
    OBVIOUS
  <2>1. NoCycles /\ Counted(heap, held, leaked, <<>>)
    BY <1>1 DEF IInv, Exact, ShuttingDown
  <2>2. ASSUME NEW x \in Objects, heap[x].count > 0  PROVE In(heap, x) # 0
    <3>1. heap[x].kind \in Kinds
      BY <1>2, <2>2, FreedCount, ObjFacts
    <3>2. held[x] = 0 /\ leaked[x] = 0
      BY <1>1, <1>2, <2>1, <3>1 DEF HeldOf, Tallies, NoCycles
    <3>3. heap[x].count = held[x] + leaked[x] + In(heap, x) + Occurrences(ReleaseOf(x), <<>>)
      BY <2>1 DEF Counted
    <3>4. Occurrences(ReleaseOf(x), <<>>) = 0
      BY OccurrencesEmpty
    <3>. QED
      BY <2>2, <3>2, <3>3, <3>4
  <2>3. CyclicIn(heap, Kinds)
    BY <1>2, <1>4, <2>2, NoRoots
  <2>. QED
    BY <2>1, <2>3 DEF NoCycles
<1>. QED
  BY <1>1, <1>2, <1>6, <1>10, <1>11, <1>12 DEF IInv, Sound, Acyclic, Exact, ShuttingDown

LEMMA EndInv ==
  ASSUME IInv, End
  PROVE  IInv'
BY DEF IInv, Sound, Acyclic, Exact, ShuttingDown, End

LEMMA NextIInv ==
  ASSUME IInv, [Next]_vars
  PROVE  IInv'
<1>1. CASE UNCHANGED vars
  BY <1>1 DEF IInv, Sound, Acyclic, Exact, ShuttingDown, NoCycles, vars
<1>2. CASE \/ NewString \/ Build \/ Concat \/ Slice \/ CopySequence
           \/ AppendItem \/ SetItem \/ GetItem \/ Pop \/ ListPop
           \/ IterateList \/ IterateTuple \/ IterateNext
           \/ Retain \/ Drop
  BY <1>2, RunningGood
<1>3. CASE Release
  BY <1>3, ReleaseInv
<1>4. CASE Free
  BY <1>4, FreeInv
<1>5. CASE BeginShutdown
  BY <1>5, BeginShutdownInv
<1>6. CASE Clear
  BY <1>6, ClearInv
<1>7. CASE ForceOldest
  BY <1>7, ForceInv
<1>8. CASE End
  BY <1>8, EndInv
<1>. QED
  BY <1>1, <1>2, <1>3, <1>4, <1>5, <1>6, <1>7, <1>8 DEF Next

-----------------------------------------------------------------------------
(* The theorems.                                                           *)

(* The parts of the invariant hold in every state that can be reached: the *)
(* objects keep their shapes, what is unreferenced waits once to be freed, *)
(* and the counts stay exact until shutdown forces what is left.           *)
(* (object.c, list.c, tuple.c, memory.c, runtime.c)                        *)
THEOREM Inductive == Spec => []IInv
BY InitIInv, NextIInv, PTL DEF Spec

LEMMA CountsHold ==
  ASSUME IInv
  PROVE  CountsExact
<1>1. /\ heap \in Heaps /\ Shaped(heap) /\ Listed(heap, live) /\ Sizes(heap, bytes)
      /\ held \in Tallies /\ leaked \in Tallies /\ work \in Seq(Job)
  BY DEF IInv, Sound, Solid
<1>2. \A x \in Objects : InItems(x) = Pairs(ItemSets(heap, x))
  BY DEF InItems, ItemSets
<1>3. \A x \in Objects :
        References(x) = held[x] + leaked[x] + In(heap, x) + Occurrences(ReleaseOf(x), work)
  BY <1>2 DEF References, In
<1>4. \A kind : Cardinality(Allocated(kind)) = Bytes(heap, kind)
  BY DEF Allocated, Bytes, BlockSets, Is
<1>5. ASSUME phase \in {"running", "clearing"}, fault = "none"
      PROVE  /\ \A o \in Objects : heap[o].count = References(o)
             /\ \A o \in Objects : Is(o, "freed") => References(o) = 0
  <2>1. Counted(heap, held, leaked, work)
    BY <1>5 DEF IInv, Exact
  <2>2. \A o \in Objects : heap[o].count = References(o)
    BY <1>3, <2>1 DEF Counted
  <2>3. \A o \in Objects : Is(o, "freed") => heap[o].count = 0
    BY <1>1, FreedIs DEF Is, Shaped, ShapedObject
  <2>. QED
    BY <2>2, <2>3
<1>6. {live[i] : i \in DOMAIN live} = {o \in Objects : heap[o].count > 0}
  <2>1. live \in Seq(Objects) /\ \A i \in DOMAIN live : live[i] \in Objects
    BY <1>1 DEF Listed
  <2>2. \A x \in Objects : heap[x].count > 0 <=> Occurrences(x, live) # 0
    BY <1>1 DEF Listed
  <2>3. \A x \in Objects : Occurrences(x, live) # 0 <=> \E i \in DOMAIN live : live[i] = x
    BY <2>1, OccurrencesType
  <2>. QED
    BY <2>1, <2>2, <2>3
<1>7. \A kind \in Kinds : bytes[kind] = Cardinality(Allocated(kind))
  BY <1>1, <1>4 DEF Sizes
<1>. QED
  BY <1>5, <1>6, <1>7 DEF CountsExact

(* Until shutdown forces what is left, every count is the number of        *)
(* references, no reference is to a freed object, the live objects are     *)
(* those with a count and the bytes counted are those allocated.           *)
(* (object.c:25-75, memory.c:35-111, list.c, tuple.c)                      *)
THEOREM CountsStayExact == Spec => []CountsExact
<1>1. IInv => CountsExact
  BY CountsHold
<1>. QED
  BY <1>1, Inductive, PTL

(* When shutdown is over no byte is counted any more, and nothing had to be*)
(* forced, nor was anything freed twice, unless a cycle or a reference lost*)
(* by list_pop was there when it began.  (runtime.c:33-77)                 *)
THEOREM ShutdownIsClean == Spec => []ShutdownClean
<1>1. IInv => ShutdownClean
  <2>. SUFFICES ASSUME IInv  PROVE ShutdownClean
    OBVIOUS
  <2>1. ASSUME phase = "ended", NEW kind \in Kinds  PROVE bytes[kind] = 0
    <3>1. /\ heap \in Heaps /\ Listed(heap, <<>>) /\ Sizes(heap, bytes)
          /\ Solid(heap, live, <<>>, bytes)
      BY <2>1 DEF IInv, Sound, Solid, ShuttingDown
    <3>2. \A x \in Objects : heap[x].count = 0
      BY <3>1, OccurrencesEmpty, ObjFacts DEF Listed
    <3>3. \A x \in Objects : heap[x].kind = "freed"
      BY <3>1, <3>2, NothingWaits
    <3>4. \A x \in Objects : BlockSets(heap, kind)[x] = {}
      BY <3>3 DEF BlockSets, Kinds
    <3>5. Pairs(BlockSets(heap, kind)) = {}
      BY <3>4 DEF Pairs
    <3>. QED
      BY <3>1, <3>5, FS_EmptySet DEF Sizes, Bytes
  <2>2. phase = "forcing" \/ fault = "release of a freed object" => tangled
    BY DEF IInv, ShuttingDown
  <2>. QED
    BY <2>1, <2>2 DEF ShutdownClean
<1>. QED
  BY <1>1, Inductive, PTL

(* The containment check keeps lists out of themselves, whatever its reach,*)
(* unless it gives up.  (list.c:19-61, 97-111, 140-157)                    *)
THEOREM ListsStayAcyclic == Spec => []ListsAcyclic
<1>1. IInv => ListsAcyclic
  BY CyclicIs DEF IInv, Acyclic, ListsAcyclic
<1>. QED
  BY <1>1, Inductive, PTL
=============================================================================
