-------------------------- MODULE Activation_proofs --------------------------
(***************************************************************************)
(* Proofs of the properties of Activation, for every number of generators  *)
(* and every value of the limits.                                          *)
(*                                                                         *)
(* The properties are proved together, as one inductive invariant: the     *)
(* types need the nesting (a depth is rebased by a subtraction), and the   *)
(* nesting needs the types.  Two things are added to what the runs check.  *)
(* Slices of activations are compared pairwise and not only with the next  *)
(* one, so that no induction over the frame stack is needed; and an object *)
(* that does not exist keeps nothing, so that a new one starts empty.      *)
(***************************************************************************)
EXTENDS Activation, SequenceTheorems, TLAPS

(* What holds of one activation and the try blocks in it.                  *)
FrameOK(f) ==
  /\ f \in Frame
  /\ Len(f.tries) <= TryMax
  /\ Ascending(f.tries)
  /\ \A b \in DOMAIN f.tries : f.tries[b] >= f.base
  /\ f.entry => f.gen = NoGen

(* Activation g answers to an operand of activation f below it when it is  *)
(* a generator's.                                                          *)
Above(f, g) == Floor(f) <= g.base /\ (g.gen # NoGen => Floor(f) < g.base)

(* A frame stack over a value stack of height c.                           *)
Stack(fs, c) ==
  /\ fs \in Seq(Frame) /\ Len(fs) <= RecursionLimit
  /\ c \in 0..StackMax
  /\ \A i \in 1..Len(fs) : FrameOK(fs[i]) /\ Floor(fs[i]) <= c
  /\ \A i, j \in 1..Len(fs) : i < j => Above(fs[i], fs[j])
  /\ fs # <<>> => fs[1].gen = NoGen

Active(g, fs) == \E i \in 1..Len(fs) : fs[i].gen = g

(* The generator objects under a frame stack.                              *)
Objects(fs, st, sv, kp, rf) ==
  /\ st \in [Gens -> States]
  /\ sv \in [Gens -> 0..StackMax]
  /\ kp \in [Gens -> Seq(Nat)]
  /\ rf \in [Gens -> 0..RefMax]
  /\ \A g \in Gens :
       /\ st[g] = "running" <=> Active(g, fs)
       /\ Len(kp[g]) <= TryMax
       /\ st[g] = "absent" => sv[g] = 0 /\ kp[g] = <<>>
       /\ st[g] \in {"created", "suspended"} =>
            Ascending(kp[g]) /\ \A b \in 1..Len(kp[g]) : kp[g][b] <= sv[g]
  /\ \A i, j \in 1..Len(fs) : fs[i].gen = fs[j].gen /\ fs[i].gen # NoGen => i = j

IInv == Stack(frames, count) /\ Objects(frames, state, saved, kept, refs)

-----------------------------------------------------------------------------
(* Lemmas about one activation.                                            *)

(* The floor of an activation is a height at or above its base.            *)
LEMMA FloorType ==
  ASSUME NEW f, FrameOK(f)
  PROVE  /\ f.base \in Nat /\ f.tries \in Seq(Nat)
         /\ Floor(f) \in Nat /\ f.base <= Floor(f)
         /\ \A b \in 1..Len(f.tries) : f.tries[b] \in Nat /\ f.tries[b] <= Floor(f)
<1>1. f.base \in Nat /\ f.tries \in Seq(Nat)
  BY DEF FrameOK, Frame
<1>2. \A b \in 1..Len(f.tries) : f.tries[b] \in Nat
  BY <1>1, ElementOfSeq
<1>3. DOMAIN f.tries = 1..Len(f.tries) /\ Len(f.tries) \in Nat
  BY <1>1, LenProperties
<1>4. CASE f.tries = <<>>
  BY <1>1, <1>3, <1>4 DEF Floor
<1>5. CASE f.tries # <<>>
  <2>1. Len(f.tries) \in 1..Len(f.tries)
    BY <1>1, <1>3, <1>5, EmptySeq
  <2>. QED
    BY <1>1, <1>2, <1>3, <1>5, <2>1, SMTT(30) DEF Floor, FrameOK, Ascending
<1>. QED
  BY <1>4, <1>5

(* The beginning of an ascending sequence is ascending.                    *)
LEMMA AscendingPrefix ==
  ASSUME NEW s \in Seq(Nat), NEW t \in Seq(Nat), Len(t) <= Len(s),
         \A b \in 1..Len(t) : t[b] = s[b], Ascending(s)
  PROVE  Ascending(t)
<1>1. DOMAIN s = 1..Len(s) /\ DOMAIN t = 1..Len(t) /\ Len(s) \in Nat /\ Len(t) \in Nat
  BY LenProperties
<1>2. \A b \in DOMAIN t : b \in DOMAIN s /\ t[b] = s[b]
  BY <1>1
<1>. QED
  BY <1>2 DEF Ascending

(* Removing the innermost try block keeps an activation in order.          *)
LEMMA PoppedTry ==
  ASSUME NEW f, FrameOK(f), f.tries # <<>>,
         NEW t, t = SubSeq(f.tries, 1, Len(f.tries) - 1),
         NEW p, p = [f EXCEPT !.tries = t]
  PROVE  FrameOK(p) /\ Floor(p) <= Floor(f) /\ p.gen = f.gen /\ p.base = f.base
<1>1. /\ f.base \in Nat /\ f.tries \in Seq(Nat) /\ Floor(f) \in Nat
      /\ \A b \in 1..Len(f.tries) : f.tries[b] \in Nat /\ f.tries[b] <= Floor(f)
      /\ f.base <= Floor(f)
  BY FloorType
<1>2. Len(f.tries) \in Nat \ {0} /\ DOMAIN f.tries = 1..Len(f.tries)
  BY <1>1, EmptySeq, LenProperties
<1>3. /\ t \in Seq(Nat) /\ Len(t) = Len(f.tries) - 1
      /\ \A b \in 1..Len(t) : t[b] = f.tries[b]
  BY <1>1, <1>2, SubSeqProperties, SMTT(30)
<1>4. DOMAIN t = 1..Len(t)
  BY <1>3, LenProperties
<1>5. p \in Frame /\ p.tries = t /\ p.base = f.base /\ p.gen = f.gen /\ p.entry = f.entry
  BY <1>3 DEF FrameOK, Frame
<1>6. FrameOK(p)
  <2>1. Ascending(t)
    <3>1. Ascending(f.tries)
      BY DEF FrameOK
    <3>2. Len(t) <= Len(f.tries)
      BY <1>2, <1>3
    <3>. QED
      BY <1>1, <1>3, <3>1, <3>2, AscendingPrefix
  <2>2. Len(t) <= TryMax
    BY <1>2, <1>3, ActivationAssumption DEF FrameOK
  <2>3. \A b \in DOMAIN t : t[b] >= f.base
    BY <1>2, <1>3, <1>4 DEF FrameOK
  <2>. QED
    BY <1>5, <2>1, <2>2, <2>3 DEF FrameOK
<1>7. Floor(p) <= Floor(f)
  <2>1. CASE t = <<>>
    BY <1>1, <1>5, <2>1 DEF Floor
  <2>2. CASE t # <<>>
    <3>1. Len(t) \in 1..Len(t)
      BY <1>3, <2>2, EmptySeq
    <3>2. Floor(p) = t[Len(t)]
      BY <1>5, <2>2 DEF Floor
    <3>3. Len(t) \in 1..Len(f.tries) /\ t[Len(t)] = f.tries[Len(t)]
      BY <1>2, <1>3, <3>1
    <3>. QED
      BY <1>1, <3>2, <3>3
  <2>. QED
    BY <2>1, <2>2
<1>. QED
  BY <1>5, <1>6, <1>7

(* So does adding a try block at a height above the floor.                 *)
LEMMA PushedTry ==
  ASSUME NEW f, FrameOK(f), Len(f.tries) < TryMax,
         NEW c \in Nat, Floor(f) <= c,
         NEW p, p = [f EXCEPT !.tries = Append(f.tries, c)]
  PROVE  FrameOK(p) /\ Floor(p) = c /\ p.gen = f.gen /\ p.base = f.base
<1>. DEFINE n == Len(f.tries)
<1>1. /\ f.base \in Nat /\ f.tries \in Seq(Nat) /\ Floor(f) \in Nat
      /\ \A b \in 1..n : f.tries[b] \in Nat /\ f.tries[b] <= Floor(f)
      /\ f.base <= Floor(f)
  BY FloorType
<1>2. n \in Nat /\ DOMAIN f.tries = 1..n
  BY <1>1, LenProperties
<1>3. PICK t : t = Append(f.tries, c)
  OBVIOUS
<1>4. /\ t \in Seq(Nat) /\ Len(t) = n + 1 /\ DOMAIN t = 1..n + 1
      /\ \A b \in 1..n : t[b] = f.tries[b]
      /\ t[n + 1] = c
  BY <1>1, <1>2, <1>3, AppendProperties
<1>5. p \in Frame /\ p.tries = t /\ p.base = f.base /\ p.gen = f.gen /\ p.entry = f.entry
  BY <1>3, <1>4 DEF FrameOK, Frame
<1>. HIDE DEF n
<1>6. Ascending(t)
  <2>1. ASSUME NEW i \in 1..n + 1, NEW j \in 1..n + 1, i <= j
        PROVE  t[i] <= t[j]
    <3>1. CASE j = n + 1 /\ i = n + 1
      BY <1>2, <1>4, <3>1
    <3>2. CASE j = n + 1 /\ i # n + 1
      <4>1. i \in 1..n
        BY <1>2, <3>2
      <4>. QED
        BY <1>1, <1>4, <3>2, <4>1
    <3>3. CASE j # n + 1
      <4>1. i \in 1..n /\ j \in 1..n
        BY <1>2, <2>1, <3>3
      <4>. QED
        BY <1>2, <1>4, <2>1, <4>1 DEF FrameOK, Ascending
    <3>. QED
      BY <3>1, <3>2, <3>3
  <2>. QED
    BY <1>4, <2>1 DEF Ascending
<1>7. \A b \in 1..n + 1 : t[b] >= f.base
  <2>1. \A b \in 1..n : t[b] >= f.base
    BY <1>2, <1>4 DEF FrameOK
  <2>2. t[n + 1] >= f.base
    BY <1>1, <1>4
  <2>. QED
    BY <1>2, <2>1, <2>2
<1>8. FrameOK(p)
  <2>1. Len(t) <= TryMax
    BY <1>2, <1>4, ActivationAssumption DEF n
  <2>. QED
    BY <1>4, <1>5, <1>6, <1>7, <2>1 DEF FrameOK
<1>9. Floor(p) = c
  <2>1. t # <<>>
    BY <1>2, <1>4, EmptySeq
  <2>. QED
    BY <1>4, <1>5, <2>1 DEF Floor
<1>. QED
  BY <1>5, <1>8, <1>9

-----------------------------------------------------------------------------
(* Lemmas about frame stacks.                                              *)

(* What Stack says of the lengths and of the floors.                       *)
LEMMA StackType ==
  ASSUME NEW fs, NEW c, Stack(fs, c)
  PROVE  /\ Len(fs) \in Nat /\ DOMAIN fs = 1..Len(fs) /\ c \in Nat
         /\ fs = <<>> <=> Len(fs) = 0
         /\ \A i \in 1..Len(fs) : /\ FrameOK(fs[i])
                                  /\ fs[i] \in Frame
                                  /\ fs[i].base \in Nat
                                  /\ fs[i].tries \in Seq(Nat)
                                  /\ Floor(fs[i]) \in Nat
                                  /\ fs[i].base <= Floor(fs[i])
                                  /\ Floor(fs[i]) <= c
<1>1. fs \in Seq(Frame) /\ c \in Nat
  BY ActivationAssumption DEF Stack
<1>2. /\ Len(fs) \in Nat /\ DOMAIN fs = 1..Len(fs)
      /\ fs = <<>> <=> Len(fs) = 0
  BY <1>1, LenProperties, EmptySeq
<1>3. \A i \in 1..Len(fs) : FrameOK(fs[i]) /\ Floor(fs[i]) <= c
  BY DEF Stack
<1>4. \A i \in 1..Len(fs) : fs[i] \in Frame
  BY <1>3 DEF FrameOK
<1>. QED
  BY <1>1, <1>2, <1>3, <1>4, FloorType

(* Every floor is at most the floor of the innermost activation.           *)
LEMMA TopFloor ==
  ASSUME NEW fs, NEW c, Stack(fs, c), fs # <<>>
  PROVE  \A i \in 1..Len(fs) : Floor(fs[i]) <= Floor(fs[Len(fs)])
<1>. DEFINE n == Len(fs)
<1>1. n \in 1..n
  BY StackType
<1>2. SUFFICES ASSUME NEW i \in 1..n
               PROVE  Floor(fs[i]) <= Floor(fs[n])
  OBVIOUS
<1>3. /\ Floor(fs[i]) \in Nat /\ Floor(fs[n]) \in Nat /\ fs[n].base \in Nat
      /\ fs[n].base <= Floor(fs[n])
  BY <1>1, StackType
<1>4. CASE i = n
  BY <1>3, <1>4
<1>5. CASE i < n
  <2>1. Floor(fs[i]) <= fs[n].base
    BY <1>1, <1>5 DEF Stack, Above
  <2>. QED
    BY <1>3, <2>1
<1>. QED
  BY <1>1, <1>4, <1>5

(* The value stack may be cut or grow above the innermost floor.           *)
LEMMA MovedStack ==
  ASSUME NEW fs, NEW c, Stack(fs, c), NEW d \in 0..StackMax,
         \A i \in 1..Len(fs) : Floor(fs[i]) <= d
  PROVE  Stack(fs, d)
BY DEF Stack

(* Popped activations leave a frame stack.                                 *)
LEMMA PrefixStack ==
  ASSUME NEW fs, NEW c, Stack(fs, c), NEW k \in 0..Len(fs),
         NEW d \in 0..StackMax, \A i \in 1..k : Floor(fs[i]) <= d,
         NEW gs, gs = SubSeq(fs, 1, k)
  PROVE  /\ Stack(gs, d)
         /\ Len(gs) = k
         /\ \A i \in 1..k : gs[i] = fs[i]
<1>1. Len(fs) \in Nat /\ \A i \in 1..k : i \in 1..Len(fs) /\ fs[i] \in Frame
  BY StackType
<1>2. /\ gs \in Seq(Frame) /\ Len(gs) = k
      /\ \A i \in 1..k : gs[i] = fs[i]
  BY <1>1, SubSeqProperties
<1>3. Len(gs) <= RecursionLimit
  BY <1>1, <1>2, ActivationAssumption DEF Stack
<1>4. \A i \in 1..k : FrameOK(gs[i]) /\ Floor(gs[i]) <= d
  BY <1>1, <1>2 DEF Stack
<1>5. \A i, j \in 1..k : i < j => Above(gs[i], gs[j])
  BY <1>1, <1>2 DEF Stack
<1>6. gs # <<>> => gs[1].gen = NoGen
  <2>1. ASSUME gs # <<>> PROVE 1 \in 1..k /\ fs # <<>>
    BY <1>1, <1>2, <2>1, EmptySeq, StackType
  <2>. QED
    BY <1>2, <2>1 DEF Stack
<1>. QED
  BY <1>2, <1>3, <1>4, <1>5, <1>6 DEF Stack

(* The innermost activation may change its try blocks.                     *)
LEMMA ChangedTop ==
  ASSUME NEW fs, NEW c, Stack(fs, c), fs # <<>>,
         NEW p, FrameOK(p), p.gen = fs[Len(fs)].gen, p.base = fs[Len(fs)].base,
         NEW d \in 0..StackMax, Floor(p) <= d,
         NEW gs \in Seq(Frame), Len(gs) = Len(fs),
         \A i \in 1..Len(fs) : gs[i] = IF i = Len(fs) THEN p ELSE fs[i]
  PROVE  /\ Stack(gs, d)
         /\ \A i \in 1..Len(fs) : gs[i].gen = fs[i].gen
<1>. DEFINE n == Len(fs)
<1>1. n \in 1..n /\ n \in Nat
  BY StackType
<1>2. \A i \in 1..n : gs[i] = IF i = n THEN p ELSE fs[i]
  OBVIOUS
<1>3. \A i \in 1..n : i < n => Floor(fs[i]) <= d
  <2>1. SUFFICES ASSUME NEW i \in 1..n, i < n PROVE Floor(fs[i]) <= d
    OBVIOUS
  <2>2. Floor(fs[i]) <= p.base
    BY <1>1, <2>1 DEF Stack, Above
  <2>3. Floor(fs[i]) \in Nat /\ p.base \in Nat /\ Floor(p) \in Nat /\ p.base <= Floor(p)
    BY <2>1, StackType, FloorType
  <2>. QED
    BY <2>2, <2>3
<1>4. \A i \in 1..n : FrameOK(gs[i]) /\ Floor(gs[i]) <= d
  BY <1>2, <1>3, StackType
<1>5. \A i, j \in 1..n : i < j => Above(gs[i], gs[j])
  <2>1. SUFFICES ASSUME NEW i \in 1..n, NEW j \in 1..n, i < j PROVE Above(gs[i], gs[j])
    OBVIOUS
  <2>2. gs[i] = fs[i] /\ Above(fs[i], fs[j])
    <3>1. i # n
      BY <1>1, <2>1
    <3>2. Above(fs[i], fs[j])
      BY <2>1 DEF Stack
    <3>. QED
      BY <1>2, <3>1, <3>2
  <2>3. gs[j].gen = fs[j].gen /\ gs[j].base = fs[j].base
    BY <1>2
  <2>. QED
    BY <2>2, <2>3 DEF Above
<1>6. gs[1].gen = NoGen
  BY <1>1, <1>2 DEF Stack
<1>. QED
  BY <1>1, <1>2, <1>4, <1>5, <1>6 DEF Stack

(* A new activation may be pushed above every floor.                       *)
LEMMA PushedFrame ==
  ASSUME NEW fs, NEW c, Stack(fs, c), Len(fs) < RecursionLimit,
         NEW p, FrameOK(p), NEW d \in 0..StackMax, Floor(p) <= d,
         \A i \in 1..Len(fs) : Above(fs[i], p),
         fs = <<>> => p.gen = NoGen,
         NEW gs \in Seq(Frame), Len(gs) = Len(fs) + 1,
         \A i \in 1..Len(fs) : gs[i] = fs[i], gs[Len(fs) + 1] = p
  PROVE  Stack(gs, d)
<1>. DEFINE n == Len(fs)
<1>1. n \in Nat
  BY StackType
<1>2. /\ Len(gs) = n + 1 /\ gs[n + 1] = p
      /\ \A i \in 1..n : gs[i] = fs[i]
  OBVIOUS
<1>3. \A i \in 1..n : Floor(fs[i]) <= d
  <2>1. SUFFICES ASSUME NEW i \in 1..n PROVE Floor(fs[i]) <= d
    OBVIOUS
  <2>2. Floor(fs[i]) <= p.base
    BY <2>1 DEF Above
  <2>3. Floor(fs[i]) \in Nat /\ p.base \in Nat /\ Floor(p) \in Nat /\ p.base <= Floor(p)
    BY <2>1, StackType, FloorType
  <2>. QED
    BY <2>2, <2>3
<1>. HIDE DEF n
<1>4. ASSUME NEW i \in 1..n + 1
      PROVE  FrameOK(gs[i]) /\ Floor(gs[i]) <= d
  <2>1. CASE i = n + 1
    BY <1>2, <2>1
  <2>2. CASE i # n + 1
    <3>1. i \in 1..n
      BY <1>1, <2>2
    <3>. QED
      BY <1>2, <1>3, <3>1, StackType DEF n
  <2>. QED
    BY <2>1, <2>2
<1>5. ASSUME NEW i \in 1..n + 1, NEW j \in 1..n + 1, i < j
      PROVE  Above(gs[i], gs[j])
  <2>1. i \in 1..n /\ gs[i] = fs[i]
    BY <1>1, <1>2, <1>5
  <2>2. CASE j = n + 1
    BY <1>2, <2>1, <2>2 DEF n
  <2>3. CASE j # n + 1
    <3>1. j \in 1..n /\ gs[j] = fs[j]
      BY <1>1, <1>2, <2>3
    <3>. QED
      BY <1>5, <2>1, <3>1 DEF Stack, n
  <2>. QED
    BY <2>2, <2>3
<1>6. gs[1].gen = NoGen
  <2>1. CASE n = 0
    BY <1>2, <2>1, StackType DEF n
  <2>2. CASE n # 0
    <3>1. 1 \in 1..n /\ fs # <<>>
      BY <1>1, <2>2, StackType DEF n
    <3>. QED
      BY <1>2, <3>1 DEF Stack, n
  <2>. QED
    BY <2>1, <2>2
<1>7. Len(gs) <= RecursionLimit
  BY <1>1, <1>2, ActivationAssumption DEF n
<1>. QED
  BY <1>2, <1>4, <1>5, <1>6, <1>7 DEF Stack, n

-----------------------------------------------------------------------------
(* Lemmas about generator objects.                                         *)

(* What Objects says of the object of one generator.                       *)
LEMMA ObjectTypes ==
  ASSUME NEW fs, NEW st, NEW sv, NEW kp, NEW rf, Objects(fs, st, sv, kp, rf),
         NEW g \in Gens
  PROVE  /\ st[g] \in States /\ sv[g] \in 0..StackMax /\ sv[g] \in Nat
         /\ kp[g] \in Seq(Nat) /\ Len(kp[g]) <= TryMax /\ rf[g] \in 0..RefMax
BY ActivationAssumption DEF Objects

(* Objects depends on the frame stack only through the generators in it.   *)
LEMMA SameGens ==
  ASSUME NEW fs, NEW st, NEW sv, NEW kp, NEW rf, Objects(fs, st, sv, kp, rf),
         NEW gs, Len(gs) = Len(fs), \A i \in 1..Len(fs) : gs[i].gen = fs[i].gen
  PROVE  Objects(gs, st, sv, kp, rf)
<1>1. \A g \in Gens : Active(g, gs) <=> Active(g, fs)
  BY DEF Active
<1>. QED
  BY <1>1 DEF Objects

(* Pushing an activation of ordinary code changes no object.               *)
LEMMA PushedCall ==
  ASSUME NEW fs, NEW st, NEW sv, NEW kp, NEW rf, Objects(fs, st, sv, kp, rf),
         Len(fs) \in Nat,
         NEW gs, Len(gs) = Len(fs) + 1, \A i \in 1..Len(fs) : gs[i] = fs[i],
         gs[Len(fs) + 1].gen = NoGen
  PROVE  Objects(gs, st, sv, kp, rf)
<1>1. \A i \in 1..Len(gs) : i \in 1..Len(fs) \/ i = Len(fs) + 1
  OBVIOUS
<1>2. 1..Len(fs) \subseteq 1..Len(gs)
  OBVIOUS
<1>3. \A g \in Gens : Active(g, gs) <=> Active(g, fs)
  BY <1>1, <1>2, ActivationAssumption DEF Active
<1>4. ASSUME NEW i \in 1..Len(gs), NEW j \in 1..Len(gs),
             gs[i].gen = gs[j].gen, gs[i].gen # NoGen
      PROVE  i = j
  BY <1>1, <1>4 DEF Objects
<1>. QED
  BY <1>3, <1>4 DEF Objects

(* Nor does popping one.                                                   *)
LEMMA PoppedCall ==
  ASSUME NEW fs, NEW st, NEW sv, NEW kp, NEW rf, Objects(fs, st, sv, kp, rf),
         Len(fs) \in Nat \ {0}, fs[Len(fs)].gen = NoGen,
         NEW gs, Len(gs) = Len(fs) - 1, \A i \in 1..Len(gs) : gs[i] = fs[i]
  PROVE  Objects(gs, st, sv, kp, rf)
<1>1. \A i \in 1..Len(fs) : i \in 1..Len(gs) \/ i = Len(fs)
  OBVIOUS
<1>2. 1..Len(gs) \subseteq 1..Len(fs)
  OBVIOUS
<1>3. \A g \in Gens : Active(g, gs) <=> Active(g, fs)
  BY <1>1, <1>2, ActivationAssumption DEF Active
<1>4. ASSUME NEW i \in 1..Len(gs), NEW j \in 1..Len(gs),
             gs[i].gen = gs[j].gen, gs[i].gen # NoGen
      PROVE  i = j
  BY <1>2, <1>4 DEF Objects
<1>. QED
  BY <1>3, <1>4 DEF Objects

(* The generators of the activations above k; the others are not among     *)
(* them, since a generator has at most one activation.                     *)
Lost(k) == {frames[i].gen : i \in {j \in 1..Len(frames) : j > k}} \ {NoGen}

(* Finish of the activations above k leaves the objects right for the rest.*)
LEMMA FinishedObjects ==
  ASSUME IInv, NEW k \in 0..Len(frames),
         NEW lost, lost = Lost(k), Finish(lost),
         Len(frames') = k, \A i \in 1..k : frames'[i].gen = frames[i].gen
  PROVE  Objects(frames', state', saved', kept', refs')
<1>1. Len(frames) \in Nat /\ 1..k \subseteq 1..Len(frames)
  BY StackType DEF IInv
<1>2. Objects(frames, state, saved, kept, refs)
  BY DEF IInv
<1>3. \A i, j \in 1..k :
         frames'[i].gen = frames'[j].gen /\ frames'[i].gen # NoGen => i = j
  BY <1>1, <1>2 DEF Objects
<1>4. /\ state' \in [Gens -> States] /\ saved' \in [Gens -> 0..StackMax]
      /\ kept' \in [Gens -> Seq(Nat)] /\ refs' \in [Gens -> 0..RefMax]
  <2>1. 0 \in 0..StackMax /\ <<>> \in Seq(Nat)
    BY ActivationAssumption, EmptySeq
  <2>. QED
    BY <1>2, <2>1 DEF Objects, Finish, States
<1>5. ASSUME NEW g \in Gens, g \in lost
      PROVE  /\ ~Active(g, frames') /\ state'[g] \in {"absent", "done"}
             /\ saved'[g] = 0 /\ kept'[g] = <<>>
  <2>1. PICK i \in 1..Len(frames) : i > k /\ frames[i].gen = g
    BY <1>5 DEF Lost
  <2>2. \A j \in 1..k : frames'[j].gen # g
    <3>1. SUFFICES ASSUME NEW j \in 1..k, frames'[j].gen = g PROVE FALSE
      OBVIOUS
    <3>2. j \in 1..Len(frames) /\ frames[j].gen = g /\ g # NoGen
      BY <1>1, <3>1, ActivationAssumption
    <3>3. i = j
      BY <1>2, <2>1, <3>2 DEF Objects
    <3>. QED
      BY <2>1, <3>3
  <2>. QED
    BY <1>5, <2>2 DEF Active, Finish
<1>6. ASSUME NEW g \in Gens, g \notin lost
      PROVE  /\ Active(g, frames') <=> Active(g, frames)
             /\ state'[g] = state[g] /\ saved'[g] = saved[g] /\ kept'[g] = kept[g]
  <2>1. ASSUME NEW i \in 1..Len(frames), frames[i].gen = g
        PROVE  i \in 1..k
    BY <1>1, <1>6, <2>1, ActivationAssumption DEF Lost
  <2>. QED
    BY <1>1, <1>6, <2>1 DEF Active, Finish
<1>7. Len(<<>>) = 0 /\ 0 <= TryMax
  BY ActivationAssumption
<1>8. ASSUME NEW g \in Gens
      PROVE  /\ state'[g] = "running" <=> Active(g, frames')
             /\ Len(kept'[g]) <= TryMax
             /\ state'[g] = "absent" => saved'[g] = 0 /\ kept'[g] = <<>>
             /\ state'[g] \in {"created", "suspended"} =>
                  Ascending(kept'[g]) /\ \A b \in 1..Len(kept'[g]) : kept'[g][b] <= saved'[g]
  <2>1. CASE g \in lost
    BY <1>5, <1>7, <2>1
  <2>2. CASE g \notin lost
    BY <1>2, <1>6, <2>2 DEF Objects
  <2>. QED
    BY <2>1, <2>2
<1>. QED
  BY <1>3, <1>4, <1>8 DEF Objects

-----------------------------------------------------------------------------
(* Errors.                                                                 *)

(* The activations lost above n and then above k are those above k.        *)
LEMMA LostMore ==
  ASSUME IInv, NEW n \in 0..Len(frames), NEW k \in 0..n,
         NEW fs, Len(fs) = n, DOMAIN fs = 1..n, \A i \in 1..n : fs[i] = frames[i]
  PROVE  Lost(n) \cup GensOf(fs, k) = Lost(k)
<1>1. Len(frames) \in Nat
  BY StackType DEF IInv
<1>2. ASSUME NEW g \in Lost(n) \cup GensOf(fs, k)
      PROVE  g \in Lost(k)
  BY <1>1 DEF Lost, GensOf
<1>3. ASSUME NEW g \in Lost(k)
      PROVE  g \in Lost(n) \cup GensOf(fs, k)
  <2>1. PICK i \in 1..Len(frames) : i > k /\ frames[i].gen = g /\ g # NoGen
    BY DEF Lost
  <2>2. CASE i > n
    BY <2>1, <2>2 DEF Lost
  <2>3. CASE i <= n
    <3>1. i \in DOMAIN fs /\ fs[i].gen = g
      BY <1>1, <2>1, <2>3
    <3>. QED
      BY <2>1, <3>1 DEF GensOf
  <2>. QED
    BY <1>1, <2>2, <2>3
<1>. QED
  BY <1>2, <1>3

(* py68_vm_fail keeps the invariant.                                       *)
LEMMA Aborted ==
  ASSUME IInv, NEW n \in 0..Len(frames),
         NEW fs, Len(fs) = n, DOMAIN fs = 1..n, \A i \in 1..n : fs[i] = frames[i],
         AbortFrom(fs, Lost(n))
  PROVE  IInv'
<1>1. Len(frames) \in Nat
  BY StackType DEF IInv
<1>2. frames' = <<>> /\ count' = 0 /\ Finish(Lost(n) \cup GensOf(fs, 0))
  BY DEF AbortFrom
<1>3. Len(<<>>) = 0 /\ <<>> \in Seq(Frame)
  BY EmptySeq
<1>4. Stack(frames', count')
  BY <1>2, <1>3, ActivationAssumption DEF Stack
<1>5. Lost(n) \cup GensOf(fs, 0) = Lost(0)
  BY <1>1, LostMore
<1>6. Objects(frames', state', saved', kept', refs')
  <2>1. /\ 0 \in 0..Len(frames) /\ Len(frames') = 0
        /\ \A i \in 1..0 : frames'[i].gen = frames[i].gen
    BY <1>1, <1>2, <1>3
  <2>. QED
    BY <1>2, <1>5, <2>1, FinishedObjects
<1>. QED
  BY <1>4, <1>6 DEF IInv

(* py68_vm_catch keeps the invariant.                                      *)
LEMMA Caught ==
  ASSUME IInv, NEW n \in 0..Len(frames),
         NEW fs, Len(fs) = n, DOMAIN fs = 1..n, \A i \in 1..n : fs[i] = frames[i],
         NEW c \in 0..StackMax, Stack(fs, c),
         NEW k \in 1..n, fs[k].tries # <<>>, CatchAt(k, fs, c, Lost(n))
  PROVE  IInv'
<1>. DEFINE ts == fs[k].tries
            d == ts[Len(ts)]
<1>1. Len(frames) \in Nat /\ n \in Nat
  BY StackType DEF IInv
<1>2. /\ FrameOK(fs[k]) /\ fs[k] \in Frame /\ Floor(fs[k]) \in Nat /\ Floor(fs[k]) <= c
  BY StackType
<1>3. d = Floor(fs[k]) /\ (IF c > d THEN d ELSE c) = d
  <2>1. d = Floor(fs[k])
    BY DEF Floor
  <2>. QED
    BY <1>2, <2>1
<1>4. PICK t : t = SubSeq(ts, 1, Len(ts) - 1)
  OBVIOUS
<1>5. PICK gs : gs = SubSeq(fs, 1, k)
  OBVIOUS
<1>6. /\ d < StackMax
      /\ frames' = [gs EXCEPT ![k].tries = t]
      /\ count' = d + 1
      /\ Finish(Lost(n) \cup GensOf(fs, k))
  BY <1>3, <1>4, <1>5 DEF CatchAt
<1>. HIDE DEF d, ts
<1>7. /\ Stack(gs, c) /\ Len(gs) = k /\ \A i \in 1..k : gs[i] = fs[i]
  <2>1. k \in 0..Len(fs) /\ \A i \in 1..k : Floor(fs[i]) <= c
    BY <1>1, StackType
  <2>. QED
    BY <1>5, <2>1, PrefixStack, ZenonT(60)
<1>8. PICK p : p = [fs[k] EXCEPT !.tries = t]
  OBVIOUS
<1>9. FrameOK(p) /\ Floor(p) <= d /\ p.gen = fs[k].gen /\ p.base = fs[k].base
  <2>1. t = SubSeq(fs[k].tries, 1, Len(fs[k].tries) - 1)
    BY <1>4 DEF ts
  <2>2. FrameOK(p) /\ Floor(p) <= Floor(fs[k]) /\ p.gen = fs[k].gen /\ p.base = fs[k].base
    BY <1>2, <1>8, <2>1, PoppedTry
  <2>. QED
    BY <1>3, <2>2
<1>10. gs # <<>> /\ gs[k] = fs[k] /\ Len(gs) = k
  BY <1>7, StackType
<1>11. frames' = [gs EXCEPT ![Len(gs)] = p]
  BY <1>6, <1>8, <1>10
<1>12. d + 1 \in 0..StackMax /\ Floor(p) <= d + 1
  BY <1>2, <1>3, <1>6, <1>9, FloorType, ActivationAssumption, SMTT(30)
<1>13. /\ Stack(frames', count') /\ Len(frames') = k
       /\ \A i \in 1..k : frames'[i].gen = gs[i].gen
  <2>1. p.gen = gs[Len(gs)].gen /\ p.base = gs[Len(gs)].base
    BY <1>9, <1>10
  <2>2. PICK e \in 0..StackMax : e = d + 1
    BY <1>12
  <2>3. Stack(gs, c) /\ gs # <<>> /\ FrameOK(p) /\ Floor(p) <= e
    BY <1>7, <1>9, <1>10, <1>12, <2>2
  <2>4. /\ frames' \in Seq(Frame) /\ Len(frames') = Len(gs)
        /\ \A i \in 1..Len(gs) : frames'[i] = IF i = Len(gs) THEN p ELSE gs[i]
    <3>1. gs \in Seq(Frame) /\ p \in Frame /\ Len(gs) \in 1..Len(gs)
      BY <1>7, <1>9, <1>10 DEF Stack, FrameOK
    <3>. QED
      BY <1>11, <3>1, ExceptSeq
  <2>5. Stack(frames', e) /\ \A i \in 1..Len(gs) : frames'[i].gen = gs[i].gen
    BY <2>1, <2>2, <2>3, <2>4, ChangedTop, ZenonT(60)
  <2>. QED
    BY <1>6, <1>7, <2>2, <2>4, <2>5
<1>14. Lost(n) \cup GensOf(fs, k) = Lost(k)
  <2>1. k \in 0..n
    BY <1>1
  <2>. QED
    BY <2>1, LostMore
<1>15. Objects(frames', state', saved', kept', refs')
  <2>1. k \in 0..Len(frames) /\ \A i \in 1..k : frames'[i].gen = frames[i].gen
    BY <1>1, <1>7, <1>13
  <2>. QED
    BY <1>6, <1>13, <1>14, <2>1, FinishedObjects
<1>. QED
  BY <1>13, <1>15 DEF IInv

(* An exception raised with the activations above n already popped and the *)
(* value stack at c keeps the invariant, wherever it is caught.            *)
LEMMA Raised ==
  ASSUME IInv, NEW n \in 0..Len(frames), NEW fs, fs = SubSeq(frames, 1, n),
         NEW c \in 0..StackMax, \A i \in 1..n : Floor(frames[i]) <= c,
         RaiseFrom(fs, c, Lost(n))
  PROVE  IInv'
<1>1. /\ Stack(fs, c) /\ Len(fs) = n /\ \A i \in 1..n : fs[i] = frames[i]
  BY PrefixStack DEF IInv
<1>2. DOMAIN fs = 1..n
  BY <1>1, StackType
<1>3. CASE \E k \in DOMAIN fs : Catches(k, fs) /\ CatchAt(k, fs, c, Lost(n))
  BY <1>1, <1>2, <1>3, Caught DEF Catches
<1>4. CASE AbortFrom(fs, Lost(n))
  BY <1>1, <1>2, <1>4, Aborted
<1>. QED
  BY <1>3, <1>4 DEF RaiseFrom

(* The frame stack as a whole is a prefix of itself, and nothing is lost.  *)
LEMMA WholeStack ==
  ASSUME IInv
  PROVE  /\ Len(frames) \in 0..Len(frames) /\ frames = SubSeq(frames, 1, Len(frames))
         /\ Lost(Len(frames)) = {} /\ DOMAIN frames = 1..Len(frames)
<1>1. Len(frames) \in Nat /\ frames \in Seq(Frame) /\ DOMAIN frames = 1..Len(frames)
  BY StackType DEF IInv, Stack
<1>2. Lost(Len(frames)) = {}
  BY <1>1 DEF Lost
<1>. QED
  BY <1>1, <1>2, SubSeqFull

(* The same with no activation popped yet: Raise, and every refusal.       *)
LEMMA RaisedHere ==
  ASSUME IInv, NEW c \in 0..StackMax, Live => Floor(Top) <= c, RaiseFrom(frames, c, {})
  PROVE  IInv'
<1>1. \A i \in 1..Len(frames) : Floor(frames[i]) <= c
  <2>1. SUFFICES ASSUME NEW i \in 1..Len(frames) PROVE Floor(frames[i]) <= c
    OBVIOUS
  <2>2. Stack(frames, count) /\ frames # <<>> /\ Len(frames) > 0
    BY <2>1, StackType DEF IInv
  <2>3. Floor(frames[i]) <= Floor(Top) /\ Floor(Top) <= c
    BY <2>1, <2>2, TopFloor DEF Live, Depth, Top
  <2>4. Floor(frames[i]) \in Nat /\ Floor(Top) \in Nat
    BY <2>1, <2>2, StackType DEF Depth, Top
  <2>. QED
    BY <2>3, <2>4
<1>. QED
  BY <1>1, WholeStack, Raised

(* py68_vm_fail with no activation popped yet.                             *)
LEMMA AbortedHere ==
  ASSUME IInv, AbortFrom(frames, {})
  PROVE  IInv'
BY WholeStack, Aborted

-----------------------------------------------------------------------------
(* The actions, first what they have in common.                            *)

(* The innermost activation.                                               *)
LEMMA TopFacts ==
  ASSUME IInv, Live
  PROVE  /\ Depth = Len(frames) /\ Depth \in Nat \ {0} /\ Depth \in 1..Len(frames)
         /\ frames # <<>> /\ frames \in Seq(Frame)
         /\ count \in 0..StackMax /\ count \in Nat /\ StackMax \in Nat
         /\ FrameOK(Top) /\ Top \in Frame /\ Top.base \in Nat /\ Top.tries \in Seq(Nat)
         /\ Floor(Top) \in Nat /\ Top.base <= Floor(Top) /\ Floor(Top) <= count
         /\ \A i \in 1..Len(frames) : /\ Floor(frames[i]) \in Nat
                                      /\ Floor(frames[i]) <= Floor(Top)
<1>1. Stack(frames, count)
  BY DEF IInv
<1>2. Depth = Len(frames) /\ Len(frames) \in Nat \ {0} /\ Depth \in 1..Len(frames) /\ frames # <<>>
  BY <1>1, StackType DEF Live, Depth
<1>3. frames \in Seq(Frame) /\ count \in 0..StackMax /\ StackMax \in Nat
  BY <1>1, ActivationAssumption DEF Stack
<1>4. \A i \in 1..Len(frames) : Floor(frames[i]) <= Floor(Top)
  BY <1>1, <1>2, TopFloor DEF Top
<1>. QED
  BY <1>1, <1>2, <1>3, <1>4, StackType DEF Top

(* An instruction that only moves the top of the value stack.              *)
LEMMA Moved ==
  ASSUME IInv, UNCHANGED <<frames, gvars>>, count' \in 0..StackMax,
         Live => Floor(Top) <= count'
  PROVE  IInv'
<1>1. \A i \in 1..Len(frames) : Floor(frames[i]) <= count'
  <2>1. SUFFICES ASSUME NEW i \in 1..Len(frames) PROVE Floor(frames[i]) <= count'
    OBVIOUS
  <2>2. Live
    BY <2>1, StackType DEF IInv, Live, Depth
  <2>3. Floor(frames[i]) \in Nat /\ Floor(Top) \in Nat /\ Floor(frames[i]) <= Floor(Top)
    BY <2>1, <2>2, TopFacts
  <2>4. count' \in Nat
    BY ActivationAssumption
  <2>. QED
    BY <2>2, <2>3, <2>4
<1>2. Stack(frames, count')
  BY <1>1, MovedStack DEF IInv
<1>. QED
  BY <1>2 DEF IInv, gvars

(* The activations below the innermost one.                                *)
LEMMA BelowTop ==
  ASSUME IInv, Live
  PROVE  /\ Depth - 1 \in 0..Len(frames)
         /\ \A i \in 1..Depth - 1 : Floor(frames[i]) \in Nat /\ Floor(frames[i]) <= Top.base
         /\ Top.gen # NoGen => \A i \in 1..Depth - 1 : Floor(frames[i]) <= Top.base - 1
         /\ Top.gen # NoGen => Top.base \in Nat \ {0}
         /\ Lost(Depth - 1) = {Top.gen} \ {NoGen}
         /\ \A d \in 0..StackMax :
              (\A i \in 1..Depth - 1 : Floor(frames[i]) <= d) =>
                /\ Stack(SubSeq(frames, 1, Depth - 1), d)
                /\ Len(SubSeq(frames, 1, Depth - 1)) = Depth - 1
                /\ \A i \in 1..Depth - 1 : SubSeq(frames, 1, Depth - 1)[i] = frames[i]
<1>1. /\ Depth = Len(frames) /\ Depth \in Nat \ {0} /\ Depth \in 1..Len(frames)
      /\ frames # <<>> /\ Top = frames[Depth] /\ Top.base \in Nat
      /\ \A i \in 1..Len(frames) : Floor(frames[i]) \in Nat
  BY TopFacts DEF Top
<1>2. Stack(frames, count)
  BY DEF IInv
<1>3. \A i \in 1..Depth - 1 : Above(frames[i], Top)
  BY <1>1, <1>2 DEF Stack
<1>4. Depth - 1 \in 0..Len(frames) /\ \A i \in 1..Depth - 1 : i \in 1..Len(frames)
  BY <1>1
<1>5. \A i \in 1..Depth - 1 : /\ Floor(frames[i]) \in Nat /\ Floor(frames[i]) <= Top.base
                              /\ Top.gen # NoGen => Floor(frames[i]) < Top.base
  BY <1>1, <1>3, <1>4 DEF Above
<1>6. ASSUME Top.gen # NoGen
      PROVE  Top.base \in Nat \ {0} /\ \A i \in 1..Depth - 1 : Floor(frames[i]) <= Top.base - 1
  <2>1. Depth # 1
    BY <1>1, <1>2, <1>6 DEF Stack
  <2>2. 1 \in 1..Depth - 1
    BY <1>1, <2>1
  <2>3. \A i \in 1..Depth - 1 : Floor(frames[i]) \in Nat /\ Floor(frames[i]) < Top.base
    BY <1>5, <1>6
  <2>4. Top.base # 0
    BY <2>2, <2>3
  <2>. QED
    BY <1>1, <2>3, <2>4
<1>7. Lost(Depth - 1) = {Top.gen} \ {NoGen}
  <2>1. {j \in 1..Len(frames) : j > Depth - 1} = {Depth}
    BY <1>1
  <2>. QED
    BY <1>1, <2>1 DEF Lost
<1>8. ASSUME NEW d \in 0..StackMax, \A i \in 1..Depth - 1 : Floor(frames[i]) <= d
      PROVE  /\ Stack(SubSeq(frames, 1, Depth - 1), d)
             /\ Len(SubSeq(frames, 1, Depth - 1)) = Depth - 1
             /\ \A i \in 1..Depth - 1 : SubSeq(frames, 1, Depth - 1)[i] = frames[i]
  BY <1>2, <1>4, <1>8, PrefixStack
<1>. QED
  BY <1>4, <1>5, <1>6, <1>7, <1>8

(* The floor that CanPop guards.                                           *)
LEMMA Popped ==
  ASSUME IInv, NEW n \in Nat, CanPop(n)
  PROVE  Live /\ count - n \in 0..StackMax /\ Floor(Top) <= count - n
<1>1. Live /\ count - n >= Floor(Top)
  BY DEF CanPop
<1>. QED
  BY <1>1, TopFacts

(* A fresh activation of ordinary code at height b.                        *)
LEMMA PushedPlain ==
  ASSUME IInv, Reserve, NEW b \in 0..StackMax, Live => Floor(Top) <= b,
         NEW e \in BOOLEAN, frames' = Append(frames, Activate(NoGen, b, "call", e, <<>>)),
         count' \in 0..StackMax, b <= count', UNCHANGED gvars
  PROVE  IInv'
<1>1. PICK p : p = Activate(NoGen, b, "call", e, <<>>)
  OBVIOUS
<1>2. b \in Nat /\ TryMax \in Nat
  BY ActivationAssumption
<1>3. /\ p \in Frame /\ p.tries = <<>> /\ p.base = b /\ p.gen = NoGen
      /\ Len(<<>>) = 0 /\ DOMAIN <<>> = {}
  <2>1. <<>> \in Seq(Nat) /\ "call" \in Kinds
    BY EmptySeq DEF Kinds
  <2>. QED
    BY <1>1, <1>2, <2>1 DEF Activate, Frame
<1>4. FrameOK(p) /\ Floor(p) = b
  <2>1. Ascending(<<>>)
    BY DEF Ascending
  <2>. QED
    BY <1>2, <1>3, <2>1 DEF FrameOK, Floor
<1>5. \A i \in 1..Len(frames) : Above(frames[i], p)
  <2>1. SUFFICES ASSUME NEW i \in 1..Len(frames) PROVE Floor(frames[i]) <= b
    BY <1>3 DEF Above
  <2>2. Live
    BY <2>1, StackType DEF IInv, Live, Depth
  <2>. QED
    BY <1>2, <2>1, <2>2, TopFacts
<1>6. Stack(frames, count) /\ Len(frames) < RecursionLimit /\ Len(frames) \in Nat
  BY StackType DEF IInv, Reserve, Depth
<1>7. /\ Stack(frames', count') /\ Len(frames') = Len(frames) + 1
      /\ \A i \in 1..Len(frames) : frames'[i] = frames[i]
      /\ frames'[Len(frames) + 1] = p
  <2>1. frames \in Seq(Frame) /\ p \in Frame /\ frames' = Append(frames, p)
    BY <1>1, <1>3 DEF IInv, Stack
  <2>2. /\ frames' \in Seq(Frame) /\ Len(frames') = Len(frames) + 1
        /\ \A i \in 1..Len(frames) : frames'[i] = frames[i]
        /\ frames'[Len(frames) + 1] = p
    BY <2>1, AppendProperties
  <2>3. Floor(p) <= count' /\ (frames = <<>> => p.gen = NoGen)
    BY <1>2, <1>3, <1>4
  <2>4. Stack(frames', count')
    BY <1>4, <1>5, <1>6, <2>2, <2>3, PushedFrame
  <2>. QED
    BY <2>2, <2>4
<1>8. Objects(frames', state, saved, kept, refs)
  BY <1>3, <1>6, <1>7, PushedCall DEF IInv
<1>. QED
  BY <1>7, <1>8 DEF IInv, gvars

(* py68_vm_execute.                                                        *)
LEMMA ExecuteOK == ASSUME IInv, Execute PROVE IInv'
<1>1. frames = <<>> /\ ~Live /\ Reserve
  <2>1. frames = <<>> /\ Depth = 0
    BY StackType DEF IInv, Execute, Depth
  <2>. QED
    BY <2>1, ActivationAssumption DEF Reserve, Live
<1>2. count \in 0..StackMax /\ 0 \in 0..StackMax /\ 0 <= count
  BY ActivationAssumption DEF IInv, Stack
<1>3. frames' = Append(frames, Activate(NoGen, 0, "call", TRUE, <<>>))
  BY <1>1 DEF Execute
<1>. QED
  BY <1>1, <1>2, <1>3, PushedPlain DEF Execute

(* OP_IMPORT_NAME.                                                         *)
LEMMA ImportOK == ASSUME IInv, Import PROVE IInv'
<1>1. Live /\ count \in 0..StackMax /\ count \in Nat /\ Floor(Top) <= count
  BY TopFacts DEF Import
<1>2. CASE /\ Reserve
           /\ frames' = Append(frames, Activate(NoGen, count, "call", TRUE, <<>>))
           /\ UNCHANGED <<count, gvars>>
  <2>1. count' \in 0..StackMax /\ count <= count' /\ UNCHANGED gvars
    BY <1>1, <1>2
  <2>. QED
    BY <1>1, <1>2, <2>1, PushedPlain
<1>3. CASE RaiseFrom(frames, count, {})
  BY <1>1, <1>3, RaisedHere
<1>. QED
  BY <1>2, <1>3 DEF Import

(* The innermost activation is ordinary code and leaves; the stack ends at *)
(* d.                                                                      *)
LEMMA LeftPlain ==
  ASSUME IInv, Live, Top.gen = NoGen,
         frames' = SubSeq(frames, 1, Depth - 1),
         count' \in 0..StackMax, Top.base <= count', UNCHANGED gvars
  PROVE  IInv'
<1>1. count' \in Nat /\ Top.base \in Nat
  BY TopFacts, ActivationAssumption
<1>2. \A i \in 1..Depth - 1 : Floor(frames[i]) <= count'
  BY <1>1, BelowTop
<1>3. /\ Stack(frames', count') /\ Len(frames') = Depth - 1
      /\ \A i \in 1..Depth - 1 : frames'[i] = frames[i]
  BY <1>2, BelowTop
<1>4. Objects(frames', state, saved, kept, refs)
  <2>1. Len(frames) \in Nat \ {0} /\ frames[Len(frames)].gen = NoGen /\ Depth = Len(frames)
    BY TopFacts DEF Top
  <2>. QED
    BY <1>3, <2>1, PoppedCall DEF IInv
<1>. QED
  BY <1>3, <1>4 DEF IInv, gvars

(* An exception raised in the caller once the innermost activation is gone.*)
LEMMA RaisedBelow ==
  ASSUME IInv, Live, NEW c \in 0..StackMax,
         \A i \in 1..Depth - 1 : Floor(frames[i]) <= c,
         RaiseFrom(SubSeq(frames, 1, Depth - 1), c, Lost(Depth - 1))
  PROVE  IInv'
<1>1. Depth - 1 \in 0..Len(frames)
  BY BelowTop
<1>. QED
  BY <1>1, Raised

(* OP_HALT: the activation of a run is ordinary code.                      *)
LEMMA HaltOK == ASSUME IInv, Halt PROVE IInv'
<1>1. Live /\ Top.entry /\ frames' = SubSeq(frames, 1, Depth - 1) /\ UNCHANGED gvars
  BY DEF Halt
<1>2. /\ Top.gen = NoGen /\ count \in 0..StackMax /\ count \in Nat /\ StackMax \in Nat
      /\ Top.base \in Nat /\ Floor(Top) \in Nat /\ Top.base <= Floor(Top) /\ Floor(Top) <= count
  BY <1>1, TopFacts DEF FrameOK
<1>3. count' \in 0..StackMax /\ Top.base <= count'
  BY <1>2 DEF Halt
<1>. QED
  BY <1>1, <1>2, <1>3, LeftPlain

(* An instruction that moves operands.                                     *)
LEMMA OperateOK == ASSUME IInv, Operate PROVE IInv'
<1>1. PICK n \in 0..ArgMax + 1, m \in 0..1 :
        /\ CanPop(n) /\ count - n + m <= StackMax /\ count' = count - n + m
        /\ UNCHANGED <<frames, gvars>>
  BY DEF Operate
<1>2. n \in Nat /\ m \in Nat
  BY <1>1, ActivationAssumption
<1>3. Live /\ count - n \in 0..StackMax /\ Floor(Top) <= count - n /\ Floor(Top) \in Nat
  BY <1>1, <1>2, Popped, TopFacts
<1>4. count' \in 0..StackMax /\ Floor(Top) <= count'
  BY <1>1, <1>2, <1>3, TopFacts, SMTT(30)
<1>. QED
  BY <1>1, <1>4, Moved

(* OP_CALL of ordinary code.                                               *)
LEMMA CallOK == ASSUME IInv, Call PROVE IInv'
<1>1. PICK argc \in 0..ArgMax :
        /\ CanPop(argc + 1)
        /\ \/ /\ Reserve
              /\ frames' = Append(frames, Activate(NoGen, count - argc - 1, "call", FALSE, <<>>))
              /\ count' = count - argc - 1
              /\ UNCHANGED gvars
           \/ ~Reserve /\ RaiseFrom(frames, count, {})
  BY DEF Call
<1>2. argc + 1 \in Nat
  BY ActivationAssumption
<1>3. /\ Live /\ count - (argc + 1) \in 0..StackMax /\ Floor(Top) <= count - (argc + 1)
      /\ Floor(Top) \in Nat /\ count \in 0..StackMax /\ Floor(Top) <= count
  BY <1>1, <1>2, Popped, TopFacts
<1>4. count - (argc + 1) = count - argc - 1
  BY <1>3, ActivationAssumption
<1>5. CASE /\ Reserve
           /\ frames' = Append(frames, Activate(NoGen, count - argc - 1, "call", FALSE, <<>>))
           /\ count' = count - argc - 1
           /\ UNCHANGED gvars
  <2>1. PICK b \in 0..StackMax : b = count - argc - 1 /\ Floor(Top) <= b
    BY <1>3, <1>4
  <2>2. /\ frames' = Append(frames, Activate(NoGen, b, "call", FALSE, <<>>))
        /\ count' \in 0..StackMax /\ b <= count'
    BY <1>5, <2>1
  <2>. QED
    BY <1>5, <2>1, <2>2, PushedPlain
<1>6. CASE RaiseFrom(frames, count, {})
  BY <1>3, <1>6, RaisedHere
<1>. QED
  BY <1>1, <1>5, <1>6

(* OP_RETURN_VALUE and OP_RETURN_NONE of an ordinary call.                 *)
LEMMA ReturnOK == ASSUME IInv, Return PROVE IInv'
<1>1. Live /\ Top.gen = NoGen
  BY DEF Return
<1>2. /\ count \in 0..StackMax /\ count \in Nat /\ Floor(Top) \in Nat /\ Top.base \in Nat
      /\ Top.base <= Floor(Top) /\ Floor(Top) <= count /\ StackMax \in Nat
  BY <1>1, TopFacts
<1>3. CASE CanPop(1) /\ RaiseFrom(SubSeq(frames, 1, Depth - 1), count - 1, {})
  <2>1. count - 1 \in 0..StackMax /\ Floor(Top) <= count - 1
    BY <1>3, Popped
  <2>2. \A i \in 1..Depth - 1 : Floor(frames[i]) <= count - 1
    <3>1. \A i \in 1..Depth - 1 : Floor(frames[i]) \in Nat /\ Floor(frames[i]) <= Top.base
      BY <1>1, BelowTop
    <3>. QED
      BY <1>2, <2>1, <3>1
  <2>3. Lost(Depth - 1) = {}
    BY <1>1, BelowTop
  <2>. QED
    BY <1>1, <1>3, <2>1, <2>2, <2>3, RaisedBelow
<1>4. CASE /\ frames' = SubSeq(frames, 1, Depth - 1)
           /\ \/ CanPop(1) /\ count' = count
              \/ count < StackMax /\ count' = count + 1
           /\ UNCHANGED gvars
  <2>1. count' \in 0..StackMax /\ Top.base <= count'
    BY <1>2, <1>4
  <2>. QED
    BY <1>1, <1>4, <2>1, LeftPlain
<1>. QED
  BY <1>3, <1>4 DEF Return

(* A change of the try blocks of the innermost activation.                 *)
LEMMA ChangedTries ==
  ASSUME IInv, Live, NEW p, FrameOK(p), p.gen = Top.gen, p.base = Top.base,
         Floor(p) <= count, frames' = [frames EXCEPT ![Depth] = p],
         UNCHANGED <<count, gvars>>
  PROVE  IInv'
<1>1. /\ Depth = Len(frames) /\ Depth \in 1..Len(frames) /\ frames # <<>>
      /\ frames \in Seq(Frame) /\ count \in 0..StackMax /\ Stack(frames, count)
      /\ p \in Frame
  BY TopFacts DEF IInv, FrameOK
<1>2. /\ frames' \in Seq(Frame) /\ Len(frames') = Len(frames)
      /\ \A i \in 1..Len(frames) : frames'[i] = IF i = Len(frames) THEN p ELSE frames[i]
  BY <1>1, ExceptSeq
<1>3. p.gen = frames[Len(frames)].gen /\ p.base = frames[Len(frames)].base
  BY <1>1 DEF Top
<1>4. Stack(frames', count) /\ \A i \in 1..Len(frames) : frames'[i].gen = frames[i].gen
  <2>1. PICK d \in 0..StackMax : d = count
    BY <1>1
  <2>2. Stack(frames, count) /\ frames # <<>> /\ FrameOK(p) /\ Floor(p) <= d
    BY <1>1, <2>1
  <2>3. Stack(frames', d) /\ \A i \in 1..Len(frames) : frames'[i].gen = frames[i].gen
    <3>1. /\ Stack(frames, count) /\ frames # <<>>
          /\ FrameOK(p) /\ p.gen = frames[Len(frames)].gen /\ p.base = frames[Len(frames)].base
          /\ d \in 0..StackMax /\ Floor(p) <= d
      BY <1>3, <2>1, <2>2
    <3>2. PICK gs : gs = frames'
      OBVIOUS
    <3>3. /\ gs \in Seq(Frame) /\ Len(gs) = Len(frames)
          /\ \A i \in 1..Len(frames) : gs[i] = IF i = Len(frames) THEN p ELSE frames[i]
      BY <1>2, <3>2
    <3>4. Stack(gs, d) /\ \A i \in 1..Len(frames) : gs[i].gen = frames[i].gen
      BY <3>1, <3>3, ChangedTop
    <3>. QED
      BY <3>2, <3>4
  <2>. QED
    BY <2>1, <2>3
<1>5. Objects(frames', state, saved, kept, refs)
  BY <1>2, <1>4, SameGens DEF IInv
<1>. QED
  BY <1>4, <1>5 DEF IInv, gvars

(* OP_SETUP_TRY.                                                           *)
LEMMA SetupTryOK == ASSUME IInv, SetupTry PROVE IInv'
<1>1. Live
  BY DEF SetupTry
<1>2. /\ count \in 0..StackMax /\ count \in Nat /\ Floor(Top) <= count /\ FrameOK(Top)
      /\ Top \in Frame /\ Top = frames[Depth] /\ Depth \in DOMAIN frames
  BY <1>1, TopFacts, WholeStack DEF Top
<1>3. CASE /\ Len(Top.tries) < TryMax
           /\ frames' = [frames EXCEPT ![Depth].tries = Append(@, count)]
           /\ UNCHANGED <<count, gvars>>
  <2>1. PICK p : p = [Top EXCEPT !.tries = Append(Top.tries, count)]
    OBVIOUS
  <2>2. FrameOK(p) /\ Floor(p) = count /\ p.gen = Top.gen /\ p.base = Top.base
    BY <1>2, <1>3, <2>1, PushedTry
  <2>3. frames' = [frames EXCEPT ![Depth] = p]
    BY <1>2, <1>3, <2>1
  <2>4. Floor(p) <= count
    BY <1>2, <2>2
  <2>. QED
    BY <1>1, <1>3, <2>2, <2>3, <2>4, ChangedTries
<1>4. CASE RaiseFrom(frames, count, {})
  BY <1>2, <1>4, RaisedHere
<1>. QED
  BY <1>3, <1>4 DEF SetupTry

(* OP_POP_TRY.                                                             *)
LEMMA PopTryOK == ASSUME IInv, PopTry PROVE IInv'
<1>1. Live /\ Top.tries # <<>>
  BY DEF PopTry
<1>2. /\ count \in Nat /\ Floor(Top) \in Nat /\ Floor(Top) <= count /\ FrameOK(Top)
      /\ Top \in Frame /\ Top = frames[Depth] /\ Depth \in DOMAIN frames
  BY <1>1, TopFacts, WholeStack DEF Top
<1>3. PICK t : t = SubSeq(Top.tries, 1, Len(Top.tries) - 1)
  OBVIOUS
<1>4. PICK p : p = [Top EXCEPT !.tries = t]
  OBVIOUS
<1>5. FrameOK(p) /\ Floor(p) <= Floor(Top) /\ p.gen = Top.gen /\ p.base = Top.base
  BY <1>1, <1>2, <1>3, <1>4, PoppedTry, SMTT(30)
<1>6. Floor(p) <= count
  <2>1. Floor(p) \in Nat
    BY <1>5, FloorType
  <2>. QED
    BY <1>2, <1>5, <2>1
<1>7. frames' = [frames EXCEPT ![Depth] = p] /\ UNCHANGED <<count, gvars>>
  BY <1>2, <1>3, <1>4 DEF PopTry
<1>. QED
  BY <1>1, <1>5, <1>6, <1>7, ChangedTries

(* OP_RAISE, and an instruction that fails.                                *)
LEMMA RaiseOK == ASSUME IInv, Raise PROVE IInv'
<1>1. PICK n \in 0..ArgMax : CanPop(n) /\ RaiseFrom(frames, count - n, {})
  BY DEF Raise
<1>2. n \in Nat
  BY ActivationAssumption
<1>3. count - n \in 0..StackMax /\ Floor(Top) <= count - n
  BY <1>1, <1>2, Popped
<1>. QED
  BY <1>1, <1>3, RaisedHere

(* An error that nothing catches.                                          *)
LEMMA FailOK == ASSUME IInv, Fail PROVE IInv'
BY AbortedHere DEF Fail

-----------------------------------------------------------------------------
(* The actions of generators.                                              *)

(* OP_CALL of a generator factory: a new object keeps nothing.             *)
LEMMA MakeGeneratorOK == ASSUME IInv, NEW g \in Gens, MakeGenerator(g) PROVE IInv'
<1>1. PICK argc \in 0..ArgMax : CanPop(argc + 1) /\ count' = count - argc
  BY DEF MakeGenerator
<1>2. argc + 1 \in Nat /\ argc \in Nat
  BY ActivationAssumption
<1>3. /\ Live /\ count - (argc + 1) \in 0..StackMax /\ Floor(Top) <= count - (argc + 1)
      /\ count \in 0..StackMax /\ Floor(Top) \in Nat /\ StackMax \in Nat
  BY <1>1, <1>2, Popped, TopFacts
<1>4. count' \in 0..StackMax /\ Floor(Top) <= count' /\ count' \in Nat
  BY <1>1, <1>2, <1>3
<1>5. Stack(frames', count')
  <2>1. \A i \in 1..Len(frames) : Floor(frames[i]) <= count'
    BY <1>3, <1>4, TopFacts
  <2>. QED
    BY <1>4, <2>1, MovedStack DEF IInv, MakeGenerator
<1>6. Objects(frames, state', saved, kept, refs')
  <2>1. /\ state[g] = "absent" /\ state' = [state EXCEPT ![g] = "created"]
        /\ refs' = [refs EXCEPT ![g] = 1]
    BY DEF MakeGenerator
  <2>2. Objects(frames, state, saved, kept, refs)
    BY DEF IInv
  <2>3. kept[g] = <<>> /\ Len(<<>>) = 0 /\ Ascending(<<>>)
    BY <2>1, <2>2 DEF Objects, Ascending
  <2>4. 1 \in 0..RefMax
    BY ActivationAssumption
  <2>5. state' \in [Gens -> States] /\ refs' \in [Gens -> 0..RefMax]
    BY <2>1, <2>2, <2>4 DEF Objects, States
  <2>6. ASSUME NEW h \in Gens
        PROVE  /\ state'[h] = "running" <=> Active(h, frames)
               /\ Len(kept[h]) <= TryMax
               /\ state'[h] = "absent" => saved[h] = 0 /\ kept[h] = <<>>
               /\ state'[h] \in {"created", "suspended"} =>
                    Ascending(kept[h]) /\ \A b \in 1..Len(kept[h]) : kept[h][b] <= saved[h]
    <3>1. CASE h = g
      <4>1. state'[h] = "created" /\ ~Active(h, frames)
        BY <2>1, <2>2, <3>1 DEF Objects
      <4>. QED
        BY <2>2, <2>3, <3>1, <4>1 DEF Objects
    <3>2. CASE h # g
      <4>1. state'[h] = state[h]
        BY <2>1, <2>2, <3>2 DEF Objects
      <4>. QED
        BY <2>2, <4>1 DEF Objects
    <3>. QED
      BY <3>1, <3>2
  <2>. QED
    BY <2>2, <2>5, <2>6 DEF Objects
<1>. QED
  BY <1>5, <1>6 DEF IInv, MakeGenerator

(* A copy of a reference.                                                  *)
LEMMA ShareOK == ASSUME IInv, NEW g \in Gens, Share(g) PROVE IInv'
<1>1. /\ refs[g] \in 1..RefMax - 1 /\ refs' = [refs EXCEPT ![g] = @ + 1]
      /\ UNCHANGED <<frames, count, state, saved, kept>>
  BY DEF Share
<1>2. refs' \in [Gens -> 0..RefMax]
  BY <1>1, ActivationAssumption DEF IInv, Objects
<1>. QED
  BY <1>1, <1>2 DEF IInv, Objects

(* A released reference: an object that goes away had no activation.       *)
LEMMA DropOK == ASSUME IInv, NEW g \in Gens, Drop(g) PROVE IInv'
<1>1. /\ refs[g] > 0 /\ refs' = [refs EXCEPT ![g] = @ - 1]
      /\ UNCHANGED <<frames, count>>
  BY DEF Drop
<1>2. Objects(frames, state, saved, kept, refs)
  BY DEF IInv
<1>3. refs' \in [Gens -> 0..RefMax]
  BY <1>1, <1>2, ActivationAssumption DEF Objects
<1>4. CASE UNCHANGED <<state, saved, kept>>
  BY <1>1, <1>2, <1>3, <1>4 DEF IInv, Objects
<1>5. CASE /\ ~Held(g)
           /\ state' = [state EXCEPT ![g] = "absent"]
           /\ saved' = [saved EXCEPT ![g] = 0]
           /\ kept' = [kept EXCEPT ![g] = <<>>]
  <2>1. ~Active(g, frames)
    BY <1>5, WholeStack DEF Held, Active
  <2>2. 0 \in 0..StackMax /\ <<>> \in Seq(Nat) /\ Len(<<>>) = 0 /\ 0 <= TryMax
    BY ActivationAssumption, EmptySeq
  <2>3. /\ state' \in [Gens -> States] /\ saved' \in [Gens -> 0..StackMax]
        /\ kept' \in [Gens -> Seq(Nat)]
    BY <1>2, <1>5, <2>2 DEF Objects, States
  <2>4. state'[g] = "absent" /\ saved'[g] = 0 /\ kept'[g] = <<>>
    BY <1>2, <1>5 DEF Objects
  <2>5. \A h \in Gens \ {g} : state'[h] = state[h] /\ saved'[h] = saved[h] /\ kept'[h] = kept[h]
    BY <1>2, <1>5 DEF Objects
  <2>6. ASSUME NEW h \in Gens
        PROVE  /\ state'[h] = "running" <=> Active(h, frames)
               /\ Len(kept'[h]) <= TryMax
               /\ state'[h] = "absent" => saved'[h] = 0 /\ kept'[h] = <<>>
               /\ state'[h] \in {"created", "suspended"} =>
                    Ascending(kept'[h]) /\ \A b \in 1..Len(kept'[h]) : kept'[h][b] <= saved'[h]
    <3>1. CASE h = g
      BY <2>1, <2>2, <2>4, <3>1
    <3>2. CASE h # g
      BY <1>2, <2>5, <3>2 DEF Objects
    <3>. QED
      BY <3>1, <3>2
  <2>7. Objects(frames, state', saved', kept', refs')
    BY <1>2, <1>3, <2>3, <2>6 DEF Objects
  <2>. QED
    BY <1>1, <2>7 DEF IInv
<1>. QED
  BY <1>4, <1>5 DEF Drop

(* A resumed activation is in order: its try blocks ascend from its base.  *)
LEMMA Rebased ==
  ASSUME NEW s \in Seq(Nat), Len(s) <= TryMax, Ascending(s), NEW b \in Nat,
         NEW g \in Gens, NEW k \in Kinds,
         NEW t \in [1..Len(s) -> Nat], \A i \in 1..Len(s) : t[i] = s[i] + b,
         NEW p, p = Activate(g, b, k, FALSE, t)
  PROVE  FrameOK(p)
<1>1. Len(s) \in Nat /\ DOMAIN s = 1..Len(s) /\ \A i \in 1..Len(s) : s[i] \in Nat
  BY LenProperties, ElementOfSeq
<1>2. t \in Seq(Nat)
  BY <1>1, SeqDef
<1>3. Len(t) = Len(s) /\ DOMAIN t = 1..Len(s)
  BY <1>1, <1>2, LenProperties
<1>4. p \in Frame /\ p.tries = t /\ p.base = b /\ ~p.entry
  BY <1>2 DEF Activate, Frame
<1>5. Ascending(t)
  <2>1. SUFFICES ASSUME NEW i \in 1..Len(s), NEW j \in 1..Len(s), i <= j
                 PROVE  t[i] <= t[j]
    BY <1>3 DEF Ascending
  <2>2. s[i] <= s[j] /\ s[i] \in Nat /\ s[j] \in Nat
    BY <1>1, <2>1 DEF Ascending
  <2>. QED
    BY <2>2
<1>6. Len(t) <= TryMax /\ \A i \in DOMAIN t : t[i] >= b
  BY <1>1, <1>3
<1>. QED
  BY <1>4, <1>5, <1>6 DEF FrameOK

(* Its floor is its base or the rebased depth of a try block it kept, so it*)
(* is within the operands that went back on the stack.                     *)
LEMMA RebasedFloor ==
  ASSUME NEW s \in Seq(Nat), NEW b \in Nat, NEW n \in Nat,
         NEW t \in [1..Len(s) -> Nat],
         \A i \in 1..Len(s) : t[i] = s[i] + b /\ s[i] <= n,
         NEW p, p.tries = t, p.base = b
  PROVE  Floor(p) \in b..b + n
<1>1. Len(s) \in Nat /\ \A i \in 1..Len(s) : s[i] \in Nat
  BY LenProperties, ElementOfSeq
<1>2. t \in Seq(Nat)
  BY <1>1, SeqDef
<1>3. Len(t) = Len(s)
  BY <1>1, <1>2, LenProperties
<1>4. PICK v : v = Floor(p)
  OBVIOUS
<1>5. CASE t = <<>>
  <2>1. v = b
    BY <1>4, <1>5 DEF Floor
  <2>2. v \in b..b + n
    BY <2>1
  <2>. QED
    BY <1>4, <2>2
<1>6. CASE t # <<>>
  <2>1. Len(t) \in 1..Len(s)
    BY <1>1, <1>2, <1>3, <1>6, EmptySeq
  <2>2. v = t[Len(t)]
    BY <1>4, <1>6 DEF Floor
  <2>3. v \in b..b + n
    BY <1>1, <2>1, <2>2
  <2>. QED
    BY <1>4, <2>3
<1>. QED
  BY <1>5, <1>6

(* And relative to the base they are in order in a suspended one.          *)
LEMMA Unbased ==
  ASSUME NEW s \in Seq(Nat), Ascending(s), NEW b \in Nat, NEW n \in Nat,
         \A i \in 1..Len(s) : s[i] >= b /\ s[i] <= b + n,
         NEW t, t = [i \in 1..Len(s) |-> s[i] - b]
  PROVE  /\ t \in Seq(Nat) /\ Len(t) = Len(s) /\ Ascending(t)
         /\ \A i \in 1..Len(t) : t[i] <= n
<1>1. Len(s) \in Nat /\ DOMAIN s = 1..Len(s) /\ \A i \in 1..Len(s) : s[i] \in Nat
  BY LenProperties, ElementOfSeq
<1>2. t \in [1..Len(s) -> Nat] /\ \A i \in 1..Len(s) : t[i] = s[i] - b
  BY <1>1
<1>3. t \in Seq(Nat)
  BY <1>1, <1>2, SeqDef
<1>4. Len(t) = Len(s)
  BY <1>1, <1>2, <1>3, LenProperties
<1>5. Ascending(t)
  <2>1. SUFFICES ASSUME NEW i \in 1..Len(s), NEW j \in 1..Len(s), i <= j
                 PROVE  t[i] <= t[j]
    BY <1>2 DEF Ascending
  <2>2. s[i] <= s[j] /\ s[i] \in Nat /\ s[j] \in Nat
    BY <1>1, <2>1 DEF Ascending
  <2>. QED
    BY <1>2, <2>2
<1>. QED
  BY <1>1, <1>2, <1>3, <1>4, <1>5

(* A generator that is not running gets an activation and is running.      *)
LEMMA PushedGenerator ==
  ASSUME NEW fs, NEW st, NEW sv, NEW kp, NEW rf, Objects(fs, st, sv, kp, rf),
         Len(fs) \in Nat, NEW g \in Gens, st[g] # "running",
         NEW gs, Len(gs) = Len(fs) + 1, \A i \in 1..Len(fs) : gs[i] = fs[i],
         gs[Len(fs) + 1].gen = g,
         NEW st2, st2 = [st EXCEPT ![g] = "running"],
         NEW sv2, sv2 = [sv EXCEPT ![g] = 0]
  PROVE  Objects(gs, st2, sv2, kp, rf)
<1>1. /\ \A i \in 1..Len(gs) : i \in 1..Len(fs) \/ i = Len(fs) + 1
      /\ 1..Len(fs) \subseteq 1..Len(gs) /\ Len(fs) + 1 \in 1..Len(gs)
  OBVIOUS
<1>2. ~Active(g, fs) /\ st \in [Gens -> States] /\ sv \in [Gens -> 0..StackMax]
  BY DEF Objects
<1>3. Active(g, gs)
  BY <1>1 DEF Active
<1>4. \A h \in Gens \ {g} : Active(h, gs) <=> Active(h, fs)
  BY <1>1 DEF Active
<1>5. ASSUME NEW i \in 1..Len(gs), NEW j \in 1..Len(gs),
             gs[i].gen = gs[j].gen, gs[i].gen # NoGen
      PROVE  i = j
  <2>1. CASE i \in 1..Len(fs) /\ j \in 1..Len(fs)
    BY <1>5, <2>1 DEF Objects
  <2>2. \A m \in 1..Len(fs) : gs[m].gen # g
    BY <1>2 DEF Active
  <2>. QED
    BY <1>1, <1>5, <2>1, <2>2
<1>6. st2 \in [Gens -> States] /\ sv2 \in [Gens -> 0..StackMax]
  BY <1>2, ActivationAssumption DEF States
<1>7. st2[g] = "running" /\ \A h \in Gens \ {g} : st2[h] = st[h] /\ sv2[h] = sv[h]
  BY <1>2
<1>8. ASSUME NEW h \in Gens
      PROVE  /\ st2[h] = "running" <=> Active(h, gs)
             /\ Len(kp[h]) <= TryMax
             /\ st2[h] = "absent" => sv2[h] = 0 /\ kp[h] = <<>>
             /\ st2[h] \in {"created", "suspended"} =>
                  Ascending(kp[h]) /\ \A b \in 1..Len(kp[h]) : kp[h][b] <= sv2[h]
  <2>1. CASE h = g
    BY <1>3, <1>7, <2>1 DEF Objects
  <2>2. CASE h # g
    <3>1. st2[h] = st[h] /\ sv2[h] = sv[h] /\ (Active(h, gs) <=> Active(h, fs))
      BY <1>4, <1>7, <2>2
    <3>. QED
      BY <3>1 DEF Objects
  <2>. QED
    BY <2>1, <2>2
<1>. QED
  BY <1>5, <1>6, <1>8 DEF Objects

(* py68_vm_resume_generator keeps the invariant: its operands go above the *)
(* innermost floor, and its try blocks are rebased onto them.              *)
LEMMA ResumeOK ==
  ASSUME IInv, Live, NEW g \in Gens, state[g] \notin {"absent", "done"},
         NEW k \in Kinds, NEW b \in Nat, Floor(Top) < b, b <= StackMax,
         Resume(g, k, b)
  PROVE  IInv'
<1>1. /\ b \in 0..StackMax /\ Floor(Top) <= b /\ Floor(Top) \in Nat
      /\ frames # <<>> /\ frames \in Seq(Frame) /\ StackMax \in Nat
      /\ \A i \in 1..Len(frames) : Floor(frames[i]) \in Nat /\ Floor(frames[i]) <= Floor(Top)
  BY TopFacts
<1>2. CASE RaiseFrom(frames, b, {})
  BY <1>1, <1>2, RaisedHere
<1>3. CASE AbortFrom(frames, {})
  BY <1>3, AbortedHere
<1>4. CASE /\ state[g] # "running" /\ b + saved[g] <= StackMax /\ Reserve
           /\ frames' = Append(frames, Activate(g, b, k, FALSE,
                            [i \in 1..Len(kept[g]) |-> kept[g][i] + b]))
           /\ count' = b + saved[g]
           /\ state' = [state EXCEPT ![g] = "running"]
           /\ saved' = [saved EXCEPT ![g] = 0]
           /\ UNCHANGED <<kept, refs>>
  <2>1. Objects(frames, state, saved, kept, refs) /\ Stack(frames, count)
    BY DEF IInv
  <2>2. /\ state[g] \in {"created", "suspended"} /\ saved[g] \in Nat
        /\ kept[g] \in Seq(Nat) /\ Len(kept[g]) <= TryMax
    BY <1>4, <2>1, ObjectTypes DEF States
  <2>3. Ascending(kept[g]) /\ \A i \in 1..Len(kept[g]) : kept[g][i] <= saved[g]
    BY <2>1, <2>2 DEF Objects
  <2>4. PICK p : p = Activate(g, b, k, FALSE, [i \in 1..Len(kept[g]) |-> kept[g][i] + b])
    OBVIOUS
  <2>5. FrameOK(p) /\ Floor(p) \in b..b + saved[g] /\ p.gen = g /\ p.base = b
    <3>1. PICK s, t, n : s = kept[g] /\ t = [i \in 1..Len(s) |-> s[i] + b] /\ n = saved[g]
      OBVIOUS
    <3>2. /\ s \in Seq(Nat) /\ Len(s) <= TryMax /\ Ascending(s) /\ n \in Nat
          /\ \A i \in 1..Len(s) : s[i] \in Nat /\ s[i] <= n
      BY <2>2, <2>3, <3>1, ElementOfSeq
    <3>3. t \in [1..Len(s) -> Nat] /\ \A i \in 1..Len(s) : t[i] = s[i] + b
      BY <3>1, <3>2
    <3>4. p = Activate(g, b, k, FALSE, t) /\ p.gen = g /\ p.base = b /\ p.tries = t
      BY <2>4, <3>1 DEF Activate
    <3>5. FrameOK(p)
      BY <3>2, <3>3, <3>4, Rebased
    <3>6. \A i \in 1..Len(s) : t[i] = s[i] + b /\ s[i] <= n
      BY <3>2, <3>3
    <3>7. Floor(p) \in b..b + n
      BY <3>2, <3>3, <3>4, <3>6, RebasedFloor
    <3>. QED
      BY <3>1, <3>4, <3>5, <3>7
  <2>6. count' \in 0..StackMax /\ Floor(p) <= count'
    BY <1>1, <1>4, <2>2, <2>5
  <2>7. PICK gs : gs = frames'
    OBVIOUS
  <2>8. /\ gs \in Seq(Frame) /\ Len(gs) = Len(frames) + 1
        /\ \A i \in 1..Len(frames) : gs[i] = frames[i]
        /\ gs[Len(frames) + 1] = p
    <3>1. frames \in Seq(Frame) /\ p \in Frame /\ gs = Append(frames, p)
      BY <1>1, <1>4, <2>4, <2>5, <2>7 DEF FrameOK
    <3>. QED
      BY <3>1, AppendProperties
  <2>9. \A i \in 1..Len(frames) : Above(frames[i], p)
    BY <1>1, <2>5 DEF Above
  <2>10. Len(frames) \in Nat /\ Len(frames) < RecursionLimit
    BY <1>4, <2>1, StackType DEF Reserve, Depth
  <2>11. Stack(gs, count')
    <3>1. PICK d \in 0..StackMax : d = count' /\ Floor(p) <= d
      BY <2>6
    <3>2. Stack(gs, d)
      BY <1>1, <2>1, <2>5, <2>8, <2>9, <2>10, <3>1, PushedFrame
    <3>. QED
      BY <3>1, <3>2
  <2>12. Objects(gs, state', saved', kept, refs)
    <3>1. PICK st, sv : st = state' /\ sv = saved'
      OBVIOUS
    <3>2. st = [state EXCEPT ![g] = "running"] /\ sv = [saved EXCEPT ![g] = 0]
      BY <1>4, <3>1
    <3>3. gs[Len(frames) + 1].gen = g
      BY <2>5, <2>8
    <3>4. Objects(gs, st, sv, kept, refs)
      BY <1>4, <2>1, <2>8, <2>10, <3>2, <3>3, PushedGenerator
    <3>. QED
      BY <3>1, <3>4
  <2>. QED
    BY <1>4, <2>7, <2>11, <2>12 DEF IInv
<1>. QED
  BY <1>2, <1>3, <1>4 DEF Resume

(* OP_RANGE_NEXT.                                                          *)
LEMMA ForNextOK == ASSUME IInv, NEW g \in Gens, ForNext(g) PROVE IInv'
<1>1. CanPop(1) /\ state[g] # "absent"
  BY DEF ForNext, Exists
<1>2. /\ Live /\ count - 1 \in 0..StackMax /\ Floor(Top) <= count - 1
      /\ count \in 0..StackMax /\ count \in Nat /\ Floor(Top) \in Nat /\ StackMax \in Nat
  BY <1>1, Popped, TopFacts
<1>3. CASE state[g] = "done"
  BY <1>2, <1>3, Moved DEF ForNext
<1>4. CASE state[g] # "done"
  <2>1. Floor(Top) < count /\ count <= StackMax /\ Resume(g, "for", count) /\ "for" \in Kinds
    BY <1>2, <1>4 DEF ForNext, Kinds
  <2>. QED
    BY <1>1, <1>2, <1>4, <2>1, ResumeOK
<1>. QED
  BY <1>3, <1>4

(* next(g).                                                                *)
LEMMA Next1OK == ASSUME IInv, NEW g \in Gens, Next1(g) PROVE IInv'
<1>1. CanPop(2) /\ state[g] # "absent"
  BY DEF Next1, Exists
<1>2. /\ Live /\ count - 2 \in 0..StackMax /\ Floor(Top) <= count - 2
      /\ count \in 0..StackMax /\ Floor(Top) \in Nat /\ StackMax \in Nat
  BY <1>1, Popped, TopFacts
<1>3. CASE state[g] = "done"
  <2>1. RaiseFrom(frames, count - 2, {})
    BY <1>3 DEF Next1
  <2>. QED
    BY <1>2, <2>1, RaisedHere
<1>4. CASE state[g] # "done"
  <2>1. PICK b : b = count - 1
    OBVIOUS
  <2>2. Resume(g, "next", b) /\ "next" \in Kinds
    BY <1>4, <2>1 DEF Next1, Kinds
  <2>3. b \in Nat /\ Floor(Top) < b /\ b <= StackMax
    BY <1>2, <2>1
  <2>. QED
    BY <1>1, <1>2, <1>4, <2>2, <2>3, ResumeOK
<1>. QED
  BY <1>3, <1>4

(* next(g, default).                                                       *)
LEMMA Next2OK == ASSUME IInv, NEW g \in Gens, Next2(g) PROVE IInv'
<1>1. CanPop(3) /\ state[g] # "absent"
  BY DEF Next2, Exists
<1>2. /\ Live /\ count - 3 \in 0..StackMax /\ Floor(Top) <= count - 3
      /\ count \in 0..StackMax /\ Floor(Top) \in Nat /\ StackMax \in Nat
  BY <1>1, Popped, TopFacts
<1>3. CASE state[g] = "done"
  <2>1. count' = count - 2 /\ UNCHANGED <<frames, gvars>>
    BY <1>3 DEF Next2
  <2>2. count' \in 0..StackMax /\ Floor(Top) <= count'
    BY <1>2, <2>1
  <2>. QED
    BY <1>2, <2>1, <2>2, Moved
<1>4. CASE state[g] # "done"
  <2>1. PICK b : b = count - 2
    OBVIOUS
  <2>2. Resume(g, "default", b) /\ "default" \in Kinds
    BY <1>4, <2>1 DEF Next2, Kinds
  <2>3. b \in Nat /\ Floor(Top) < b /\ b <= StackMax
    BY <1>2, <2>1
  <2>. QED
    BY <1>1, <1>2, <1>4, <2>2, <2>3, ResumeOK
<1>. QED
  BY <1>3, <1>4

(* A call that collects a generator.                                       *)
LEMMA CollectOK == ASSUME IInv, NEW g \in Gens, Collect(g) PROVE IInv'
<1>1. PICK argc \in 1..ArgMax : CanPop(argc + 1)
  BY DEF Collect
<1>2. argc + 1 \in Nat \ {0} /\ state[g] # "absent"
  BY ActivationAssumption DEF Collect, Exists
<1>3. /\ Live /\ Floor(Top) <= count - (argc + 1)
      /\ count \in 0..StackMax /\ Floor(Top) \in Nat /\ Floor(Top) <= count /\ StackMax \in Nat
  BY <1>1, <1>2, Popped, TopFacts
<1>4. CASE AbortFrom(frames, {})
  BY <1>4, AbortedHere
<1>5. CASE UNCHANGED <<frames, count, gvars>>
  <2>1. count' = count /\ UNCHANGED <<frames, gvars>>
    BY <1>5
  <2>2. count' \in 0..StackMax /\ Floor(Top) <= count'
    BY <1>3, <2>1
  <2>. QED
    BY <2>1, <2>2, Moved
<1>6. CASE count < StackMax /\ state[g] # "done" /\ Resume(g, "collect", count + 1)
  <2>1. PICK b : b = count + 1
    OBVIOUS
  <2>2. Resume(g, "collect", b) /\ "collect" \in Kinds
    BY <1>6, <2>1 DEF Kinds
  <2>3. b \in Nat /\ Floor(Top) < b /\ b <= StackMax
    BY <1>3, <1>6, <2>1
  <2>. QED
    BY <1>2, <1>3, <1>6, <2>2, <2>3, ResumeOK
<1>. QED
  BY <1>4, <1>5, <1>6 DEF Collect

(* A running generator leaves the frame stack: what it keeps is in order,  *)
(* and it goes away if nothing refers to it.                               *)
LEMMA Suspended ==
  ASSUME IInv, Live, Top.gen # NoGen, NEW n \in 0..StackMax,
         NEW ts \in Seq(Nat), Len(ts) <= TryMax, Ascending(ts),
         \A i \in 1..Len(ts) : ts[i] <= n,
         Suspend(Top.gen, n, ts),
         Len(frames') = Depth - 1, \A i \in 1..Depth - 1 : frames'[i] = frames[i]
  PROVE  Objects(frames', state', saved', kept', refs')
<1>1. PICK g : g = Top.gen
  OBVIOUS
<1>2. /\ Depth = Len(frames) /\ Depth \in Nat \ {0} /\ Top \in Frame /\ Top = frames[Depth]
      /\ Objects(frames, state, saved, kept, refs)
  BY TopFacts DEF IInv, Top
<1>3. g \in Gens /\ frames[Depth].gen = g /\ g # NoGen
  BY <1>1, <1>2 DEF Frame
<1>4. /\ state' = [state EXCEPT ![g] = IF refs[g] = 0 THEN "absent" ELSE "suspended"]
      /\ saved' = [saved EXCEPT ![g] = IF refs[g] = 0 THEN 0 ELSE n]
      /\ kept' = [kept EXCEPT ![g] = IF refs[g] = 0 THEN <<>> ELSE ts]
      /\ UNCHANGED refs
  BY <1>1 DEF Suspend
<1>5. /\ \A i \in 1..Depth : i \in 1..Depth - 1 \/ i = Depth
      /\ 1..Depth - 1 \subseteq 1..Depth /\ Depth \in 1..Depth /\ Depth \notin 1..Depth - 1
  BY <1>2
<1>6. \A i, j \in 1..Depth - 1 :
        frames'[i].gen = frames'[j].gen /\ frames'[i].gen # NoGen => i = j
  BY <1>2, <1>5, ZenonT(60) DEF Objects
<1>7. ~Active(g, frames')
  <2>1. SUFFICES ASSUME NEW i \in 1..Depth - 1, frames[i].gen = g PROVE FALSE
    BY DEF Active
  <2>2. i = Depth
    BY <1>2, <1>3, <1>5, <2>1 DEF Objects
  <2>. QED
    BY <1>5, <2>1, <2>2
<1>8. \A h \in Gens \ {g} : Active(h, frames') <=> Active(h, frames)
  BY <1>2, <1>3, <1>5 DEF Active
<1>9. 0 \in 0..StackMax /\ <<>> \in Seq(Nat) /\ Len(<<>>) = 0 /\ 0 <= TryMax
  BY ActivationAssumption, EmptySeq
<1>10. /\ state' \in [Gens -> States] /\ saved' \in [Gens -> 0..StackMax]
       /\ kept' \in [Gens -> Seq(Nat)] /\ refs' \in [Gens -> 0..RefMax]
  BY <1>2, <1>4, <1>9 DEF Objects, States
<1>11. /\ refs[g] = 0 => state'[g] = "absent" /\ saved'[g] = 0 /\ kept'[g] = <<>>
       /\ refs[g] # 0 => state'[g] = "suspended" /\ saved'[g] = n /\ kept'[g] = ts
  BY <1>2, <1>3, <1>4 DEF Objects
<1>12. \A h \in Gens \ {g} : state'[h] = state[h] /\ saved'[h] = saved[h] /\ kept'[h] = kept[h]
  BY <1>2, <1>4 DEF Objects
<1>13. ASSUME NEW h \in Gens
       PROVE  /\ state'[h] = "running" <=> Active(h, frames')
              /\ Len(kept'[h]) <= TryMax
              /\ state'[h] = "absent" => saved'[h] = 0 /\ kept'[h] = <<>>
              /\ state'[h] \in {"created", "suspended"} =>
                   Ascending(kept'[h]) /\ \A b \in 1..Len(kept'[h]) : kept'[h][b] <= saved'[h]
  <2>1. CASE h = g /\ refs[g] = 0
    BY <1>7, <1>9, <1>11, <2>1
  <2>2. CASE h = g /\ refs[g] # 0
    BY <1>7, <1>11, <2>2
  <2>3. CASE h # g
    BY <1>2, <1>8, <1>12, <2>3 DEF Objects
  <2>. QED
    BY <2>1, <2>2, <2>3
<1>. QED
  BY <1>6, <1>10, <1>13 DEF Objects

(* OP_YIELD_VALUE.                                                         *)
LEMMA YieldOK == ASSUME IInv, Yield PROVE IInv'
<1>1. CanPop(1) /\ Top.gen # NoGen
  BY DEF Yield
<1>2. /\ Live /\ count - 1 \in 0..StackMax /\ Floor(Top) <= count - 1
      /\ count \in 0..StackMax /\ count \in Nat /\ StackMax \in Nat
      /\ Floor(Top) \in Nat /\ Top.base <= Floor(Top) /\ Top.base \in Nat /\ FrameOK(Top)
  BY <1>1, Popped, TopFacts
<1>3. CASE count' = count - 1 /\ UNCHANGED <<frames, gvars>>
  <2>1. count' \in 0..StackMax /\ Floor(Top) <= count'
    BY <1>2, <1>3
  <2>. QED
    BY <1>3, <2>1, Moved
<1>4. CASE AbortFrom(frames, {})
  BY <1>4, AbortedHere
<1>5. CASE /\ Suspend(Top.gen, count - 1 - Top.base,
                      [i \in 1..Len(Top.tries) |-> Top.tries[i] - Top.base])
           /\ count' = IF Top.kind = "for" THEN Top.base + 1 ELSE Top.base
  <2>1. PICK n : n = count - 1 - Top.base
    OBVIOUS
  <2>2. PICK s, b : s = Top.tries /\ b = Top.base
    OBVIOUS
  <2>3. PICK ts : ts = [i \in 1..Len(s) |-> s[i] - b]
    OBVIOUS
  <2>4. n \in Nat /\ n \in 0..StackMax /\ b \in Nat /\ b + n = count - 1
    BY <1>2, <2>1, <2>2
  <2>5. /\ s \in Seq(Nat) /\ Len(s) <= TryMax /\ Ascending(s)
        /\ \A i \in 1..Len(s) : s[i] \in Nat /\ s[i] >= b /\ s[i] <= Floor(Top)
    <3>1. /\ Top.tries \in Seq(Nat) /\ DOMAIN Top.tries = 1..Len(Top.tries)
          /\ \A i \in 1..Len(Top.tries) : Top.tries[i] \in Nat /\ Top.tries[i] <= Floor(Top)
      BY <1>2, FloorType, LenProperties
    <3>. QED
      BY <1>2, <2>2, <3>1 DEF FrameOK
  <2>6. \A i \in 1..Len(s) : s[i] >= b /\ s[i] <= b + n
    BY <1>2, <2>4, <2>5
  <2>7. /\ ts \in Seq(Nat) /\ Len(ts) = Len(s) /\ Ascending(ts)
        /\ \A i \in 1..Len(ts) : ts[i] <= n
    <3>1. s \in Seq(Nat) /\ Ascending(s) /\ b \in Nat /\ n \in Nat
      BY <2>4, <2>5
    <3>. QED
      BY <2>3, <2>6, <3>1, Unbased, ZenonT(60)
  <2>8. Suspend(Top.gen, n, ts) /\ frames' = SubSeq(frames, 1, Depth - 1)
    BY <1>5, <2>1, <2>2, <2>3 DEF Suspend
  <2>9. count' \in 0..StackMax /\ Top.base <= count' /\ count' \in Nat
    BY <1>2, <1>5
  <2>10. /\ Stack(frames', count') /\ Len(frames') = Depth - 1
         /\ \A i \in 1..Depth - 1 : frames'[i] = frames[i]
    <3>1. \A i \in 1..Depth - 1 : Floor(frames[i]) \in Nat /\ Floor(frames[i]) <= Top.base
      BY <1>2, BelowTop
    <3>2. \A i \in 1..Depth - 1 : Floor(frames[i]) <= count'
      BY <1>2, <2>9, <3>1
    <3>. QED
      BY <1>2, <2>8, <2>9, <3>2, BelowTop
  <2>11. Objects(frames', state', saved', kept', refs')
    <3>1. Len(ts) <= TryMax
      BY <2>5, <2>7
    <3>. QED
      BY <1>1, <1>2, <2>4, <2>7, <2>8, <2>10, <3>1, Suspended
  <2>. QED
    BY <2>10, <2>11 DEF IInv
<1>. QED
  BY <1>3, <1>4, <1>5 DEF Yield

(* OP_RETURN_VALUE and OP_RETURN_NONE of a generator.                      *)
LEMMA ReturnGeneratorOK == ASSUME IInv, ReturnGenerator PROVE IInv'
<1>1. Live /\ Top.gen # NoGen
  BY DEF ReturnGenerator
<1>2. /\ count \in Nat /\ StackMax \in Nat /\ count \in 0..StackMax
      /\ Floor(Top) \in Nat /\ Top.base <= Floor(Top) /\ Floor(Top) <= count
  BY <1>1, TopFacts
<1>3. /\ Top.base \in Nat \ {0} /\ Depth - 1 \in 0..Len(frames)
      /\ Lost(Depth - 1) = {Top.gen}
      /\ \A i \in 1..Depth - 1 : Floor(frames[i]) \in Nat /\ Floor(frames[i]) <= Top.base - 1
  BY <1>1, BelowTop
<1>4. CASE RaiseFrom(SubSeq(frames, 1, Depth - 1), Top.base - 1, {Top.gen})
  <2>1. PICK c : c = Top.base - 1
    OBVIOUS
  <2>2. c \in 0..StackMax
    BY <1>2, <1>3, <2>1
  <2>3. /\ \A i \in 1..Depth - 1 : Floor(frames[i]) <= c
        /\ RaiseFrom(SubSeq(frames, 1, Depth - 1), c, Lost(Depth - 1))
    BY <1>3, <1>4, <2>1
  <2>. QED
    BY <1>1, <2>2, <2>3, RaisedBelow
<1>5. CASE /\ frames' = SubSeq(frames, 1, Depth - 1)
           /\ count' = IF Top.kind = "collect" THEN Top.base - 1 ELSE Top.base
           /\ Finish({Top.gen})
  <2>1. count' \in 0..StackMax /\ Top.base - 1 <= count' /\ count' \in Nat
    BY <1>2, <1>3, <1>5
  <2>2. \A i \in 1..Depth - 1 : Floor(frames[i]) <= count'
    BY <1>3, <2>1
  <2>3. /\ Stack(frames', count') /\ Len(frames') = Depth - 1
        /\ \A i \in 1..Depth - 1 : frames'[i] = frames[i]
    BY <1>1, <1>5, <2>1, <2>2, BelowTop
  <2>4. Objects(frames', state', saved', kept', refs')
    <3>1. \A i \in 1..Depth - 1 : frames'[i].gen = frames[i].gen
      BY <2>3
    <3>2. Finish(Lost(Depth - 1))
      BY <1>3, <1>5
    <3>. QED
      BY <1>3, <2>3, <3>1, <3>2, FinishedObjects
  <2>. QED
    BY <2>3, <2>4 DEF IInv
<1>. QED
  BY <1>4, <1>5 DEF ReturnGenerator

-----------------------------------------------------------------------------
(* The specification.                                                      *)

(* No activation and no object exist when the runtime starts.              *)
LEMMA InitOK == Init => IInv
<1>. SUFFICES ASSUME Init PROVE IInv
  OBVIOUS
<1>1. Len(<<>>) = 0 /\ <<>> \in Seq(Frame) /\ <<>> \in Seq(Nat) /\ Ascending(<<>>)
  BY EmptySeq DEF Ascending
<1>2. Stack(frames, count)
  BY <1>1, ActivationAssumption DEF Init, Stack
<1>3. \A g \in Gens : state[g] = "absent" /\ saved[g] = 0 /\ kept[g] = <<>> /\ refs[g] = 0
  BY DEF Init
<1>4. /\ state \in [Gens -> States] /\ saved \in [Gens -> 0..StackMax]
      /\ kept \in [Gens -> Seq(Nat)] /\ refs \in [Gens -> 0..RefMax]
  BY <1>1, ActivationAssumption DEF Init, States
<1>5. 0 <= TryMax /\ \A g : ~Active(g, frames)
  BY <1>1, ActivationAssumption DEF Init, Active
<1>6. \A i, j \in 1..Len(frames) : frames[i].gen = frames[j].gen /\ frames[i].gen # NoGen => i = j
  BY <1>1 DEF Init
<1>7. Objects(frames, state, saved, kept, refs)
  BY <1>1, <1>3, <1>4, <1>5, <1>6 DEF Objects
<1>. QED
  BY <1>2, <1>7 DEF IInv

(* Every step keeps the invariant.                                         *)
LEMMA NextOK == IInv /\ [Next]_vars => IInv'
<1>. SUFFICES ASSUME IInv, [Next]_vars PROVE IInv'
  OBVIOUS
<1>1. CASE Execute
  BY <1>1, ExecuteOK
<1>2. CASE Import
  BY <1>2, ImportOK
<1>3. CASE Halt
  BY <1>3, HaltOK
<1>4. CASE Operate
  BY <1>4, OperateOK
<1>5. CASE Call
  BY <1>5, CallOK
<1>6. CASE Return
  BY <1>6, ReturnOK
<1>7. CASE SetupTry
  BY <1>7, SetupTryOK
<1>8. CASE PopTry
  BY <1>8, PopTryOK
<1>9. CASE Raise
  BY <1>9, RaiseOK
<1>10. CASE Fail
  BY <1>10, FailOK
<1>11. CASE Yield
  BY <1>11, YieldOK
<1>12. CASE ReturnGenerator
  BY <1>12, ReturnGeneratorOK
<1>13. ASSUME NEW g \in Gens, MakeGenerator(g) PROVE IInv'
  BY <1>13, MakeGeneratorOK
<1>14. ASSUME NEW g \in Gens, Share(g) PROVE IInv'
  BY <1>14, ShareOK
<1>15. ASSUME NEW g \in Gens, Drop(g) PROVE IInv'
  BY <1>15, DropOK
<1>16. ASSUME NEW g \in Gens, ForNext(g) PROVE IInv'
  BY <1>16, ForNextOK
<1>17. ASSUME NEW g \in Gens, Next1(g) PROVE IInv'
  BY <1>17, Next1OK
<1>18. ASSUME NEW g \in Gens, Next2(g) PROVE IInv'
  BY <1>18, Next2OK
<1>19. ASSUME NEW g \in Gens, Collect(g) PROVE IInv'
  BY <1>19, CollectOK
<1>20. CASE UNCHANGED vars
  BY <1>20 DEF IInv, vars
<1>. QED
  BY <1>1, <1>2, <1>3, <1>4, <1>5, <1>6, <1>7, <1>8, <1>9, <1>10, <1>11, <1>12, <1>13,
     <1>14, <1>15, <1>16, <1>17, <1>18, <1>19, <1>20 DEF Next

(* The invariant holds throughout: IInv is inductive.                      *)
THEOREM Inductive == Spec => []IInv
BY InitOK, NextOK, PTL DEF Spec

(* The types of frame.c and generator.c hold in every reachable state: no  *)
(* more activations than the recursion limit, no more try blocks than      *)
(* PY68_TRY_MAX in an activation or a generator, and a value stack that    *)
(* never falls below empty.                                                *)
THEOREM TypeCorrect == Spec => []TypeOK
<1>1. IInv => TypeOK
  <2>. SUFFICES ASSUME IInv PROVE TypeOK
    OBVIOUS
  <2>1. Stack(frames, count) /\ Objects(frames, state, saved, kept, refs)
    BY DEF IInv
  <2>2. \A i \in DOMAIN frames : Len(frames[i].tries) <= TryMax
    BY <2>1, StackType DEF FrameOK
  <2>. QED
    BY <2>1, <2>2 DEF TypeOK, Stack, Objects
<1>. QED
  BY <1>1, Inductive, PTL

(* A generator is RUNNING exactly while one activation is its own, however *)
(* activations are pushed, suspended, returned from or unwound.            *)
THEOREM RunningExactlyWhileActive == Spec => []RunningIffActive
<1>1. IInv => RunningIffActive
  BY WholeStack, ZenonT(60) DEF IInv, Objects, RunningIffActive, Active, Held
<1>. QED
  BY <1>1, Inductive, PTL

(* The operands of activations never overlap: what an exception, a yield   *)
(* or a return cuts off the value stack is its own activation's.           *)
THEOREM OperandsNested == Spec => []SlicesNested
<1>1. IInv => SlicesNested
  <2>. SUFFICES ASSUME IInv PROVE SlicesNested
    OBVIOUS
  <2>1. Stack(frames, count) /\ DOMAIN frames = 1..Len(frames) /\ Len(frames) \in Nat
    BY StackType DEF IInv
  <2>2. ASSUME NEW i \in DOMAIN frames
        PROVE  /\ Ascending(frames[i].tries)
               /\ \A k \in DOMAIN frames[i].tries : frames[i].tries[k] >= frames[i].base
               /\ Floor(frames[i]) <= count
    BY <2>1, StackType DEF FrameOK
  <2>3. ASSUME NEW i \in DOMAIN frames, i < Len(frames)
        PROVE  Above(frames[i], frames[i + 1])
    <3>1. i + 1 \in 1..Len(frames) /\ i \in 1..Len(frames) /\ i < i + 1
      BY <2>1, <2>3
    <3>. QED
      BY <2>1, <3>1 DEF Stack
  <2>4. ASSUME NEW i \in DOMAIN frames, i = 1
        PROVE  frames[i].gen = NoGen
    <3>1. frames # <<>>
      BY <2>1, <2>4, StackType
    <3>. QED
      BY <2>1, <2>4, <3>1 DEF Stack
  <2>. QED
    BY <2>2, <2>3, <2>4 DEF SlicesNested, Above
<1>. QED
  BY <1>1, Inductive, PTL

(* The try blocks a suspended generator keeps refer to operands it saved.  *)
THEOREM TriesKeptWithinSaved == Spec => []KeptWithinSaved
<1>1. IInv => KeptWithinSaved
  <2>. SUFFICES ASSUME IInv, NEW g \in Gens, state[g] \in {"created", "suspended"}
                PROVE  Ascending(kept[g]) /\ \A i \in DOMAIN kept[g] : kept[g][i] <= saved[g]
    BY DEF KeptWithinSaved
  <2>1. kept[g] \in Seq(Nat) /\ Objects(frames, state, saved, kept, refs)
    BY ObjectTypes DEF IInv
  <2>2. DOMAIN kept[g] = 1..Len(kept[g])
    BY <2>1, LenProperties
  <2>. QED
    BY <2>1, <2>2 DEF Objects
<1>. QED
  BY <1>1, Inductive, PTL

(* Losing activations does not bring a finished generator back.            *)
LEMMA FinishKeepsDone ==
  ASSUME NEW g \in Gens, state[g] = "done", NEW lost, Finish(lost)
  PROVE  state'[g] \in {"done", "absent"}
BY DEF Finish

(* Nor does an exception, wherever it is caught.                           *)
LEMMA RaiseKeepsDone ==
  ASSUME NEW g \in Gens, state[g] = "done", NEW fs, NEW c, NEW lost,
         RaiseFrom(fs, c, lost) \/ AbortFrom(fs, lost)
  PROVE  state'[g] \in {"done", "absent"}
BY FinishKeepsDone DEF RaiseFrom, CatchAt, AbortFrom

(* Nor does the attempt to resume another one, which cannot be g.          *)
LEMMA ResumeKeepsDone ==
  ASSUME IInv, NEW g \in Gens, state[g] = "done",
         NEW h \in Gens, state[h] # "done", NEW k, NEW b, Resume(h, k, b)
  PROVE  state'[g] \in {"done", "absent"}
<1>1. CASE RaiseFrom(frames, b, {}) \/ AbortFrom(frames, {})
  BY <1>1, RaiseKeepsDone
<1>2. CASE state' = [state EXCEPT ![h] = "running"]
  BY <1>2 DEF IInv, Objects
<1>. QED
  BY <1>1, <1>2 DEF Resume

(* "A finished generator iterates as empty and is never restarted": no     *)
(* instruction of any activation takes a generator out of DONE.            *)
THEOREM NeverRestarted == Spec => DoneForever
<1>1. ASSUME IInv, [Next]_vars, NEW g \in Gens, state[g] = "done"
      PROVE  state'[g] \in {"done", "absent"}
  <2>0. state \in [Gens -> States] /\ Objects(frames, state, saved, kept, refs)
    BY <1>1 DEF IInv, Objects
  <2>1. CASE UNCHANGED state
    BY <1>1, <2>1
  <2>2. CASE Execute \/ Halt \/ Operate \/ PopTry \/ \E h \in Gens : Share(h)
    BY <1>1, <2>2 DEF Execute, Halt, Operate, PopTry, Share, gvars
  <2>3. CASE Import \/ Call \/ Return \/ SetupTry \/ Raise \/ Fail
    BY <1>1, <2>3, RaiseKeepsDone DEF Import, Call, Return, SetupTry, Raise, Fail, gvars
  <2>4. CASE Yield
    <3>1. CASE UNCHANGED gvars
      BY <1>1, <3>1 DEF gvars
    <3>2. CASE AbortFrom(frames, {})
      BY <1>1, <3>2, RaiseKeepsDone
    <3>3. ASSUME NEW n, NEW ts, Suspend(Top.gen, n, ts), Top.gen # g
          PROVE  state'[g] = state[g]
      BY <2>0, <3>3 DEF Suspend
    <3>4. Top.gen # g
      <4>1. Live /\ Depth \in 1..Len(frames)
        BY <1>1, <2>4, TopFacts DEF Yield, CanPop
      <4>. QED
        BY <1>1, <2>0, <4>1 DEF Objects, Active, Top
    <3>. QED
      BY <1>1, <2>4, <3>1, <3>2, <3>3, <3>4 DEF Yield
  <2>5. CASE ReturnGenerator
    BY <1>1, <2>5, RaiseKeepsDone, FinishKeepsDone DEF ReturnGenerator
  <2>6. ASSUME NEW h \in Gens, MakeGenerator(h) PROVE state'[g] \in {"done", "absent"}
    BY <1>1, <2>0, <2>6 DEF MakeGenerator
  <2>7. ASSUME NEW h \in Gens, Drop(h) PROVE state'[g] \in {"done", "absent"}
    BY <1>1, <2>0, <2>7 DEF Drop
  <2>8. ASSUME NEW h \in Gens, ForNext(h) \/ Next1(h) \/ Next2(h) \/ Collect(h)
        PROVE  state'[g] \in {"done", "absent"}
    BY <1>1, <2>8, RaiseKeepsDone, ResumeKeepsDone
       DEF ForNext, Next1, Next2, Collect, gvars
  <2>. QED
    BY <1>1, <2>1, <2>2, <2>3, <2>4, <2>5, <2>6, <2>7, <2>8 DEF Next, vars
<1>2. IInv /\ [Next]_vars =>
        [\A g \in Gens : state[g] = "done" => state'[g] \in {"done", "absent"}]_vars
  BY <1>1
<1>. QED
  BY <1>2, Inductive, PTL DEF Spec, DoneForever
=============================================================================
