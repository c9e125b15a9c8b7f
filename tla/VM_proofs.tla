------------------------------ MODULE VM_proofs ------------------------------
(***************************************************************************)
(* Proofs about VM, for structured code of every kind, every number of     *)
(* generators and all limits: the interpreter keeps the operand depths     *)
(* that the verifier computed for each activation by itself.               *)
(*                                                                         *)
(* Values have no set of their own (a list of values is one), so a         *)
(* sequence of them is known by its length and by what each of them is.    *)
(***************************************************************************)
EXTENDS VM, Verifier_proofs

IsSeq(s) == s \in Seq(Range(s))
Values(s, n) == IsSeq(s) /\ \A i \in 1..Len(s) : Proper(s[i], n)

LEMMA SeqBasics ==
  ASSUME NEW s, IsSeq(s)
  PROVE  Len(s) \in Nat /\ DOMAIN s = 1..Len(s) /\ (s = <<>> <=> Len(s) = 0)
BY DEF IsSeq

LEMMA SeqWithin ==
  ASSUME NEW S, NEW s \in Seq(S)
  PROVE  IsSeq(s)
<1>1. \A i \in 1..Len(s) : s[i] \in Range(s)
  BY DEF Range
<1>. QED
  BY <1>1 DEF IsSeq

(* A sequence that is given by its length and its items.                   *)
LEMMA SeqMade ==
  ASSUME NEW n \in Nat, NEW f, f = [i \in 1..n |-> f[i]]
  PROVE  IsSeq(f) /\ Len(f) = n
<1>. DEFINE S == {f[i] : i \in 1..n}
<1>1. f \in [1..n -> S]
  OBVIOUS
<1>. HIDE DEF S
<1>2. f \in Seq(S) /\ Len(f) = n
  BY <1>1
<1>. QED
  BY <1>2, SeqWithin

LEMMA LastOf ==
  ASSUME NEW S, NEW s \in Seq(S), s # <<>>
  PROVE  Len(s) \in 1..Len(s) /\ s[Len(s)] \in S
OBVIOUS

LEMMA SeqEqual ==
  ASSUME NEW s, IsSeq(s), NEW t, IsSeq(t), Len(s) = Len(t), \A i \in 1..Len(s) : s[i] = t[i]
  PROVE  s = t
BY DEF IsSeq

LEMMA SeqAppend ==
  ASSUME NEW s, IsSeq(s), NEW x
  PROVE  /\ IsSeq(Append(s, x)) /\ Len(Append(s, x)) = Len(s) + 1
         /\ \A i \in 1..Len(s) : Append(s, x)[i] = s[i]
         /\ Append(s, x)[Len(s) + 1] = x
<1>. DEFINE S == Range(s) \cup {x}
<1>1. s \in Seq(S) /\ x \in S
  BY DEF IsSeq
<1>. HIDE DEF S
<1>2. Append(s, x) \in Seq(S)
  BY <1>1
<1>3. IsSeq(Append(s, x))
  BY <1>2, SeqWithin
<1>4. /\ Len(Append(s, x)) = Len(s) + 1
      /\ \A i \in 1..Len(s) : Append(s, x)[i] = s[i]
      /\ Append(s, x)[Len(s) + 1] = x
  BY <1>1
<1>. QED
  BY <1>3, <1>4

LEMMA SeqPrefix ==
  ASSUME NEW s, IsSeq(s), NEW n \in 0..Len(s)
  PROVE  /\ IsSeq(SubSeq(s, 1, n)) /\ Len(SubSeq(s, 1, n)) = n
         /\ \A i \in 1..n : SubSeq(s, 1, n)[i] = s[i]
<1>1. s \in Seq(Range(s)) /\ Len(s) \in Nat
  BY DEF IsSeq
<1>2. SubSeq(s, 1, n) \in Seq(Range(s))
  BY <1>1
<1>3. IsSeq(SubSeq(s, 1, n))
  BY <1>2, SeqWithin
<1>. QED
  BY <1>1, <1>3

LEMMA SeqPart ==
  ASSUME NEW s, IsSeq(s), NEW m \in 1..(Len(s) + 1), NEW n \in (m - 1)..Len(s)
  PROVE  /\ IsSeq(SubSeq(s, m, n)) /\ Len(SubSeq(s, m, n)) = n - m + 1
         /\ \A i \in 1..(n - m + 1) : SubSeq(s, m, n)[i] = s[m + i - 1]
<1>1. s \in Seq(Range(s)) /\ Len(s) \in Nat
  BY DEF IsSeq
<1>2. SubSeq(s, m, n) \in Seq(Range(s))
  BY <1>1
<1>3. IsSeq(SubSeq(s, m, n))
  BY <1>2, SeqWithin
<1>. QED
  BY <1>1, <1>3

LEMMA SeqConcat ==
  ASSUME NEW s, IsSeq(s), NEW t, IsSeq(t)
  PROVE  /\ IsSeq(s \o t) /\ Len(s \o t) = Len(s) + Len(t)
         /\ \A i \in 1..Len(s) : (s \o t)[i] = s[i]
         /\ \A i \in 1..Len(t) : (s \o t)[Len(s) + i] = t[i]
<1>. DEFINE S == Range(s) \cup Range(t)
<1>1. s \in Seq(S) /\ t \in Seq(S)
  BY DEF IsSeq
<1>. HIDE DEF S
<1>2. s \o t \in Seq(S)
  BY <1>1
<1>3. IsSeq(s \o t)
  BY <1>2, SeqWithin
<1>4. Len(s) \in Nat /\ Len(t) \in Nat /\ Len(s \o t) = Len(s) + Len(t)
  BY <1>1
<1>5. \A i \in 1..Len(s) : (s \o t)[i] = s[i]
  BY <1>1
<1>6. \A i \in 1..Len(t) : (s \o t)[Len(s) + i] = t[i]
  <2>. SUFFICES ASSUME NEW i \in 1..Len(t)  PROVE (s \o t)[Len(s) + i] = t[i]
    OBVIOUS
  <2>1. Len(s) + i \in 1..(Len(s) + Len(t)) /\ ~ (Len(s) + i <= Len(s)) /\ (Len(s) + i) - Len(s) = i
    BY <1>4
  <2>. QED
    BY <1>1, <1>4, <2>1
<1>. QED
  BY <1>3, <1>4, <1>5, <1>6

LEMMA SeqReplaced ==
  ASSUME NEW s, IsSeq(s), NEW k, NEW x
  PROVE  /\ IsSeq(Replaced(s, k, x)) /\ Len(Replaced(s, k, x)) = Len(s)
         /\ \A i \in 1..Len(s) : Replaced(s, k, x)[i] = IF i = k THEN x ELSE s[i]
<1>. DEFINE t == [s EXCEPT ![k] = x]
<1>1. Len(s) \in Nat /\ DOMAIN s = 1..Len(s)
  BY SeqBasics
<1>2. t = [i \in 1..Len(s) |-> t[i]]
  BY <1>1
<1>3. \A i \in 1..Len(s) : t[i] = IF i = k THEN x ELSE s[i]
  BY <1>1
<1>4. t = Replaced(s, k, x)
  BY DEF Replaced
<1>. HIDE DEF t
<1>5. IsSeq(t) /\ Len(t) = Len(s)
  BY <1>1, <1>2, SeqMade
<1>. QED
  BY <1>3, <1>4, <1>5

(* The same of sequences of values.                                        *)
LEMMA ValuesMore ==
  ASSUME NEW n \in Nat, NEW m \in Nat, n <= m, NEW v, Proper(v, n)
  PROVE  Proper(v, m)
BY DEF Proper

LEMMA ValuesAppend ==
  ASSUME NEW n, NEW s, Values(s, n), NEW x, Proper(x, n)
  PROVE  Values(Append(s, x), n) /\ Len(Append(s, x)) = Len(s) + 1
<1>1. IsSeq(s) /\ Len(s) \in Nat
  BY SeqBasics DEF Values
<1>2. ASSUME NEW i \in 1..(Len(s) + 1)  PROVE Proper(Append(s, x)[i], n)
  <2>1. CASE i = Len(s) + 1
    BY <1>1, <2>1, SeqAppend
  <2>2. CASE i # Len(s) + 1
    <3>1. i \in 1..Len(s)
      BY <1>1, <2>2
    <3>. QED
      BY <1>1, <3>1, SeqAppend DEF Values
  <2>. QED
    BY <2>1, <2>2
<1>. QED
  BY <1>1, <1>2, SeqAppend DEF Values

LEMMA ValuesPrefix ==
  ASSUME NEW n, NEW s, Values(s, n), NEW m \in 0..Len(s)
  PROVE  Values(SubSeq(s, 1, m), n) /\ Len(SubSeq(s, 1, m)) = m
<1>1. IsSeq(s) /\ Len(s) \in Nat
  BY SeqBasics DEF Values
<1>. QED
  BY <1>1, SeqPrefix DEF Values

LEMMA ValuesPart ==
  ASSUME NEW n, NEW s, Values(s, n), NEW l \in 1..(Len(s) + 1), NEW m \in (l - 1)..Len(s)
  PROVE  Values(SubSeq(s, l, m), n) /\ Len(SubSeq(s, l, m)) = m - l + 1
<1>1. IsSeq(s) /\ Len(s) \in Nat
  BY SeqBasics DEF Values
<1>2. ASSUME NEW i \in 1..(m - l + 1)  PROVE Proper(SubSeq(s, l, m)[i], n)
  <2>1. l + i - 1 \in 1..Len(s)
    BY <1>1
  <2>. QED
    BY <1>1, <2>1, SeqPart DEF Values
<1>. QED
  BY <1>1, <1>2, SeqPart DEF Values

LEMMA ValuesConcat ==
  ASSUME NEW n, NEW s, Values(s, n), NEW t, Values(t, n)
  PROVE  Values(s \o t, n) /\ Len(s \o t) = Len(s) + Len(t)
<1>1. IsSeq(s) /\ Len(s) \in Nat /\ IsSeq(t) /\ Len(t) \in Nat
  BY SeqBasics DEF Values
<1>2. ASSUME NEW i \in 1..(Len(s) + Len(t))  PROVE Proper((s \o t)[i], n)
  <2>1. CASE i <= Len(s)
    <3>1. i \in 1..Len(s)
      BY <1>1, <2>1
    <3>. QED
      BY <1>1, <3>1, SeqConcat DEF Values
  <2>2. CASE ~ (i <= Len(s))
    <3>1. i - Len(s) \in 1..Len(t) /\ i = Len(s) + (i - Len(s))
      BY <1>1, <2>2
    <3>2. (s \o t)[Len(s) + (i - Len(s))] = t[i - Len(s)]
      BY <1>1, <3>1, SeqConcat
    <3>. QED
      BY <3>1, <3>2 DEF Values
  <2>. QED
    BY <2>1, <2>2
<1>. QED
  BY <1>1, <1>2, SeqConcat DEF Values

LEMMA ValuesReplaced ==
  ASSUME NEW n, NEW s, Values(s, n), NEW k, NEW x, Proper(x, n)
  PROVE  Values(Replaced(s, k, x), n) /\ Len(Replaced(s, k, x)) = Len(s)
<1>1. IsSeq(s) /\ \A i \in 1..Len(s) : Proper(s[i], n)
  BY DEF Values
<1>2. /\ IsSeq(Replaced(s, k, x)) /\ Len(Replaced(s, k, x)) = Len(s)
      /\ \A i \in 1..Len(s) : Replaced(s, k, x)[i] = IF i = k THEN x ELSE s[i]
  BY <1>1, SeqReplaced
<1>. QED
  BY <1>1, <1>2 DEF Values

LEMMA ValuesPair ==
  ASSUME NEW n, NEW x, NEW y, Proper(x, n), Proper(y, n)
  PROVE  Values(<<x, y>>, n) /\ Len(<<x, y>>) = 2
<1>. DEFINE t == <<x, y>>
<1>1. t \in Seq({x, y}) /\ Len(t) = 2 /\ t[1] = x /\ t[2] = y
  OBVIOUS
<1>. HIDE DEF t
<1>2. IsSeq(t)
  BY <1>1, SeqWithin
<1>3. \A i \in 1..2 : i = 1 \/ i = 2
  OBVIOUS
<1>4. Values(t, n)
  BY <1>1, <1>2, <1>3 DEF Values
<1>. QED
  BY <1>1, <1>4 DEF t

-----------------------------------------------------------------------------
Opens(fn) == Nesting(codes[fn])

-----------------------------------------------------------------------------
(* The inductive invariant.                                                *)

Kinds == {"call", "for", "next", "default", "collect"}
Waits == {"next", "default", "collect"}
FrameFields == {"fn", "ret", "gen", "base", "kind", "tries", "locals"}
GenFields == {"fn", "state", "ip", "saved", "tries", "locals"}

LocalsOK(l, n) == DOMAIN l = DOMAIN Locals /\ \A x \in DOMAIN l : Proper(l[x], n)

(* Activation f stands at instruction at of its code.                      *)
FrameOK(f, at, n) ==
  /\ DOMAIN f = FrameFields
  /\ f.fn \in DOMAIN codes /\ codes[f.fn].ok
  /\ at \in DOMAIN codes[f.fn].depth
  /\ f.base \in Nat
  /\ f.tries = Rebase(Opens(f.fn)[at], f.base)
  /\ f.gen = NoGen <=> ~codes[f.fn].gen
  /\ f.kind \in Kinds /\ (f.kind = "call" <=> f.gen = NoGen)
  /\ LocalsOK(f.locals, n)

(* The instruction at which the caller of activation f waits for it.       *)
Site(f) == IF f.kind \in {"collect", "for"} THEN f.ret ELSE f.ret - 1
Point(fs, p, i) == IF i = Len(fs) THEN p ELSE Site(fs[i + 1])

(* What the caller gave from its operands, or added to them.               *)
Taken(kind, argc) ==
  CASE kind = "call" -> argc + 1
    [] kind \in {"next", "default"} -> argc
    [] kind = "collect" -> -1
    [] OTHER -> 0

(* Activation f called g, and waits at instruction at.                     *)
CallOK(f, g, at) ==
  LET i == codes[f.fn].code[at]
  IN /\ i.op = IF g.kind = "for" THEN "RANGE_NEXT" ELSE "CALL"
     /\ g.kind \in Waits => i.arg >= 1
     /\ g.kind = "call" => i.arg = 0
     /\ g.base = f.base + codes[f.fn].depth[at] - Taken(g.kind, i.arg)
     /\ g.fn # "main" /\ g.ret \in Nat

(* The activations of a run that is at instruction p.                      *)
Shape(fs, p, gs) ==
  /\ IsSeq(fs) /\ Len(fs) >= 1
  /\ \A i \in 1..Len(fs) : FrameOK(fs[i], Point(fs, p, i), Len(gs))
  /\ \A i \in 1..Len(fs) - 1 : CallOK(fs[i], fs[i + 1], Site(fs[i + 1]))
  /\ fs[1].fn = "main" /\ fs[1].base = 0
  /\ \A i, j \in 1..Len(fs) : i <= j => fs[i].base <= fs[j].base

(* A generator that runs has one activation, and it is of its code.        *)
Running(fs, gs) ==
  /\ \A i \in 1..Len(fs) : fs[i].gen # NoGen =>
       /\ fs[i].gen \in 1..Len(gs)
       /\ gs[fs[i].gen].state = "running" /\ gs[fs[i].gen].fn = fs[i].fn
  /\ \A i, j \in 1..Len(fs) : fs[i].gen = fs[j].gen /\ fs[i].gen # NoGen => i = j
  /\ \A g \in 1..Len(gs) : gs[g].state = "running" => \E i \in 1..Len(fs) : fs[i].gen = g

GenOK(o, n) ==
  LET c == codes[o.fn]
  IN /\ DOMAIN o = GenFields
     /\ o.fn \in DOMAIN codes \ {"main"} /\ c.ok /\ c.gen
     /\ o.state \in {"created", "suspended", "running", "done"}
     /\ LocalsOK(o.locals, n)
     /\ o.state \in {"created", "suspended"} =>
          /\ o.ip \in DOMAIN c.depth
          /\ Values(o.saved, n) /\ Len(o.saved) = c.depth[o.ip]
          /\ o.tries = Opens(o.fn)[o.ip]
     /\ o.state = "suspended" =>
          o.ip - 1 \in DOMAIN c.depth /\ c.code[o.ip - 1].op = "YIELD_VALUE"
Generators(gs) == IsSeq(gs) /\ \A g \in 1..Len(gs) : GenOK(gs[g], Len(gs))

Fixed == pid \in DOMAIN Compiled /\ codes = [fn \in DOMAIN Compiled[pid] |-> Verified(Compiled[pid][fn])]

Consistent(fs, p, gs, st) ==
  /\ Shape(fs, p, gs) /\ Running(fs, gs) /\ Generators(gs) /\ Values(st, Len(gs))
  /\ Len(st) = fs[Len(fs)].base + codes[fs[Len(fs)].fn].depth[p]

IInv ==
  /\ Fixed
  /\ exc \notin {"start", "run"}
  /\ status = "run" => Consistent(frames, ip, gens, stack)
  /\ status # "run" => frames = <<>> /\ Generators(gens) /\ Running(frames, gens)
  /\ status = "start" => stack = <<>> /\ gens = <<>> /\ ip = 1

-----------------------------------------------------------------------------
(* What the verifier and the structure of code give for each instruction.  *)

LEMMA EffectIs ==
  ASSUME NEW i
  PROVE  /\ i.op \in {"LOAD", "LOAD_NAME", "DUP", "RANGE_NEXT", "RETURN_NONE"} => Effect(i) = 1
         /\ i.op \in {"HALT", "JUMP", "ROT_TWO", "LOAD_ENTER", "LOAD_EXIT", "SETUP_TRY", "POP_TRY"}
              => Effect(i) = 0
         /\ i.op \in {"STORE_NAME", "POP", "EQUAL", "JUMP_IF_FALSE", "RAISE", "CHECK_EXCEPT",
                      "RETURN_VALUE", "YIELD_VALUE"} => Effect(i) = -1
         /\ i.op = "CALL" => Effect(i) = - i.arg
         /\ i.op = "RANGE_INIT" => Effect(i) = 1 - i.arg
<1>1. i.op \in {"LOAD", "LOAD_NAME", "DUP", "RANGE_NEXT", "RETURN_NONE"} => Effect(i) = 1
  BY DEF Effect
<1>2. i.op \in {"HALT", "JUMP", "ROT_TWO", "LOAD_ENTER", "LOAD_EXIT", "SETUP_TRY", "POP_TRY"}
        => Effect(i) = 0
  BY DEF Effect
<1>3. i.op \in {"STORE_NAME", "POP", "EQUAL", "JUMP_IF_FALSE", "RAISE", "CHECK_EXCEPT",
                "RETURN_VALUE", "YIELD_VALUE"} => Effect(i) = -1
  BY DEF Effect
<1>4. i.op = "CALL" => Effect(i) = - i.arg
  BY DEF Effect
<1>5. i.op = "RANGE_INIT" => Effect(i) = 1 - i.arg
  BY DEF Effect
<1>. QED
  BY <1>1, <1>2, <1>3, <1>4, <1>5

LEMMA NeedsIs ==
  ASSUME NEW i
  PROVE  /\ i.op = "CALL" => Needs(i) = i.arg + 1
         /\ i.op \in {"EQUAL", "ROT_TWO", "CHECK_EXCEPT"} => Needs(i) = 2
         /\ i.op \in {"POP", "DUP", "STORE_NAME", "JUMP_IF_FALSE", "RANGE_INIT", "RANGE_NEXT",
                      "RETURN_VALUE", "YIELD_VALUE", "RAISE", "LOAD_ENTER", "LOAD_EXIT"}
              => Needs(i) = 1
         /\ i.op \in {"HALT", "LOAD", "LOAD_NAME", "JUMP", "SETUP_TRY", "POP_TRY", "RETURN_NONE"}
              => Needs(i) = 0
         /\ WellFormed(i) => Needs(i) \in Nat
<1>1. i.op = "CALL" => Needs(i) = i.arg + 1
  BY DEF Needs
<1>2. i.op \in {"EQUAL", "ROT_TWO", "CHECK_EXCEPT"} => Needs(i) = 2
  BY DEF Needs
<1>3. i.op \in {"POP", "DUP", "STORE_NAME", "JUMP_IF_FALSE", "RANGE_INIT", "RANGE_NEXT",
                "RETURN_VALUE", "YIELD_VALUE", "RAISE", "LOAD_ENTER", "LOAD_EXIT"}
        => Needs(i) = 1
  BY DEF Needs
<1>4. i.op \in {"HALT", "LOAD", "LOAD_NAME", "JUMP", "SETUP_TRY", "POP_TRY", "RETURN_NONE"}
        => Needs(i) = 0
  BY DEF Needs
<1>5. WellFormed(i) => Needs(i) \in Nat
  BY <1>1, <1>2, <1>3, <1>4 DEF WellFormed, Opcodes
<1>. QED
  BY <1>1, <1>2, <1>3, <1>4, <1>5

LEMMA CodeIs ==
  ASSUME Fixed, NEW fn \in DOMAIN codes
  PROVE  /\ codes[fn].code \in Seq(Range(codes[fn].code)) /\ codes[fn].gen \in BOOLEAN
         /\ \A at \in DOMAIN codes[fn].code : WellFormed(codes[fn].code[at])
         /\ codes[fn].ok =>
              /\ Closed(codes[fn].code, codes[fn].depth)
              /\ ~ codes[fn].gen => \A at \in DOMAIN codes[fn].code :
                                      codes[fn].code[at].op # "YIELD_VALUE"
              /\ codes[fn].max \in Nat
              /\ \A at \in DOMAIN codes[fn].depth :
                   codes[fn].depth[at] + Effect(codes[fn].code[at]) <= codes[fn].max
         /\ "main" \in DOMAIN codes /\ ~ codes["main"].gen
<1>1. pid \in DOMAIN Compiled /\ DOMAIN codes = DOMAIN Compiled[pid]
      /\ \A f \in DOMAIN codes : codes[f] = Verified(Compiled[pid][f])
  BY DEF Fixed
<1>. DEFINE k == Compiled[pid][fn]
            v == Verify(k.code, k.gen)
            c == [code |-> k.code, gen |-> k.gen, ok |-> v.ok, depth |-> v.depth, max |-> v.max]
<1>2. codes[fn] = c
  BY <1>1 DEF Verified
<1>3. "main" \in DOMAIN codes /\ ~ codes["main"].gen
  <2>1. "main" \in DOMAIN Compiled[pid] /\ ~ Compiled[pid]["main"].gen
    BY <1>1, CompiledAssumption
  <2>2. \A k0 : Verified(k0).gen = k0.gen
    BY DEF Verified
  <2>. QED
    BY <1>1, <2>1, <2>2
<1>4. k.gen \in BOOLEAN /\ k.code \in Seq(Range(k.code)) /\ \A at \in DOMAIN k.code : WellFormed(k.code[at])
  BY <1>1, CompiledAssumption
<1>5. c.code = k.code /\ c.gen = k.gen /\ c.ok = v.ok /\ c.depth = v.depth /\ c.max = v.max
  OBVIOUS
<1>6. Measured(k.code)
  <2>. SUFFICES ASSUME NEW i, WellFormed(i)  PROVE Effect(i) \in Int
    BY <1>4 DEF Measured
  <2>. QED
    BY EffectIs DEF WellFormed, Opcodes
<1>. HIDE DEF k, v, c
<1>7. v.ok => /\ Closed(k.code, v.depth)
              /\ ~ k.gen => \A at \in DOMAIN k.code : k.code[at].op # "YIELD_VALUE"
  BY <1>4, <1>6, VerifiedIsClosed DEF v
<1>8. v.ok => /\ v.max \in Nat
              /\ \A at \in DOMAIN v.depth : v.depth[at] + Effect(k.code[at]) <= v.max
  BY <1>4, <1>6, MaximumCovers DEF v
<1>. QED
  BY <1>2, <1>3, <1>4, <1>5, <1>7, <1>8

(* The first instruction of a code object.                                 *)
LEMMA Entry ==
  ASSUME Fixed, StructuredCode, NEW fn \in DOMAIN codes, codes[fn].ok
  PROVE  1 \in DOMAIN codes[fn].depth /\ codes[fn].depth[1] = 0 /\ Opens(fn)[1] = <<>>
<1>1. Structured(fn, codes[fn], Nesting(codes[fn]))
  BY DEF StructuredCode
<1>2. Closed(codes[fn].code, codes[fn].depth)
  BY CodeIs
<1>. QED
  BY <1>1, <1>2 DEF Structured, Opens, Closed

(* An instruction finds what it takes, and takes nothing of a try block    *)
(* that is open; the handler of that block finds the blocks outside it.    *)
LEMMA Standing ==
  ASSUME Fixed, StructuredCode, NEW fn \in DOMAIN codes, codes[fn].ok,
         NEW at \in DOMAIN codes[fn].depth
  PROVE  /\ WellFormed(codes[fn].code[at]) /\ Needs(codes[fn].code[at]) \in Nat
         /\ at \in Nat /\ codes[fn].depth[at] \in Nat
         /\ Opens(fn)[at] \in Seq([handler : DOMAIN codes[fn].depth, depth : Nat])
         /\ FloorOf(Opens(fn)[at]) \in Nat
         /\ codes[fn].depth[at] - Needs(codes[fn].code[at]) >= FloorOf(Opens(fn)[at])
         /\ Opens(fn)[at] # <<>> =>
              LET last == Opens(fn)[at][Len(Opens(fn)[at])]
              IN /\ last.handler \in DOMAIN codes[fn].depth
                 /\ last.depth = FloorOf(Opens(fn)[at]) /\ last.depth \in Nat
                 /\ Opens(fn)[last.handler] = Front(Opens(fn)[at])
                 /\ codes[fn].depth[last.handler] = last.depth + 1
<1>. DEFINE c == codes[fn]
            open == Opens(fn)
            i == c.code[at]
            bs == open[at]
            last == bs[Len(bs)]
<1>1. StructuredAt(fn, c, open, at) /\ DOMAIN open = DOMAIN c.depth
  BY DEF StructuredCode, Structured, Opens
<1>2. Closed(c.code, c.depth) /\ c.code \in Seq(Range(c.code)) /\ \A a \in DOMAIN c.code : WellFormed(c.code[a])
  BY CodeIs
<1>3. at \in DOMAIN c.code /\ c.depth[at] \in Int
  BY <1>2 DEF Closed
<1>4. WellFormed(i) /\ Needs(i) \in Nat /\ at \in Nat
  BY <1>2, <1>3, NeedsIs
<1>5. /\ bs \in Seq([handler : DOMAIN c.depth, depth : Nat])
      /\ c.depth[at] - Needs(i) >= FloorOf(bs)
      /\ bs # <<>> => /\ open[last.handler] = Front(bs)
                      /\ c.depth[last.handler] = last.depth + 1
  BY <1>1 DEF StructuredAt
<1>. HIDE DEF bs, i
<1>6. bs # <<>> => last \in [handler : DOMAIN c.depth, depth : Nat]
  BY <1>5, LastOf
<1>7. FloorOf(bs) \in Nat /\ (bs # <<>> => FloorOf(bs) = last.depth)
  BY <1>6 DEF FloorOf
<1>8. c.depth[at] \in Nat
  BY <1>3, <1>4, <1>5, <1>7
<1>. QED
  BY <1>4, <1>5, <1>6, <1>7, <1>8 DEF bs, i

(* The instruction after it.                                               *)
LEMMA FallThrough ==
  ASSUME Fixed, StructuredCode, NEW fn \in DOMAIN codes, codes[fn].ok,
         NEW at \in DOMAIN codes[fn].depth,
         codes[fn].code[at].op \notin Ends \cup {"JUMP"}
  PROVE  /\ at + 1 \in DOMAIN codes[fn].depth
         /\ codes[fn].depth[at + 1] = codes[fn].depth[at] + Effect(codes[fn].code[at])
         /\ Opens(fn)[at + 1] = Nested(codes[fn], at, Opens(fn)[at])
<1>. DEFINE c == codes[fn]
            open == Opens(fn)
<1>1. StructuredAt(fn, c, open, at)
  BY DEF StructuredCode, Structured, Opens
<1>2. Closed(c.code, c.depth)
  BY CodeIs
<1>3. \A s \in Successors(c.code, at, c.depth[at]) : s[1] \in DOMAIN c.depth /\ c.depth[s[1]] = s[2]
  BY <1>2 DEF Closed, Followed
<1>4. <<at + 1, c.depth[at] + Effect(c.code[at])>> \in Successors(c.code, at, c.depth[at])
  BY DEF Successors
<1>5. at + 1 \in DOMAIN c.depth /\ c.depth[at + 1] = c.depth[at] + Effect(c.code[at])
  BY <1>3, <1>4
<1>6. <<at + 1, Nested(c, at, open[at])>> \in Edges(c, at, open[at])
  BY DEF Edges
<1>7. open[at + 1] = Nested(c, at, open[at])
  BY <1>1, <1>6 DEF StructuredAt
<1>. QED
  BY <1>5, <1>7

(* The instruction to which it branches.                                   *)
LEMMA Branching ==
  ASSUME Fixed, StructuredCode, NEW fn \in DOMAIN codes, codes[fn].ok,
         NEW at \in DOMAIN codes[fn].depth,
         codes[fn].code[at].op \in Branches
  PROVE  /\ codes[fn].code[at].arg \in DOMAIN codes[fn].depth
         /\ codes[fn].depth[codes[fn].code[at].arg] = BranchDepth(codes[fn].code[at], codes[fn].depth[at])
         /\ Opens(fn)[codes[fn].code[at].arg] = Opens(fn)[at]
<1>. DEFINE c == codes[fn]
            open == Opens(fn)
<1>1. StructuredAt(fn, c, open, at)
  BY DEF StructuredCode, Structured, Opens
<1>2. Closed(c.code, c.depth)
  BY CodeIs
<1>3. \A s \in Successors(c.code, at, c.depth[at]) : s[1] \in DOMAIN c.depth /\ c.depth[s[1]] = s[2]
  BY <1>2 DEF Closed, Followed
<1>4. <<c.code[at].arg, BranchDepth(c.code[at], c.depth[at])>> \in Successors(c.code, at, c.depth[at])
  BY DEF Successors
<1>5. c.code[at].arg \in DOMAIN c.depth /\ c.depth[c.code[at].arg] = BranchDepth(c.code[at], c.depth[at])
  BY <1>3, <1>4
<1>6. <<c.code[at].arg, open[at]>> \in Edges(c, at, open[at])
  BY DEF Edges
<1>7. open[c.code[at].arg] = open[at]
  BY <1>1, <1>6 DEF StructuredAt
<1>. QED
  BY <1>5, <1>7
-----------------------------------------------------------------------------
(* The activations: how their shape survives a change of the innermost one,*)
(* a call, a return and an unwinding.                                      *)

LEMMA ShapeTop ==
  ASSUME NEW fs, NEW p, NEW gs, Shape(fs, p, gs)
  PROVE  /\ IsSeq(fs) /\ Len(fs) \in 1..Len(fs) /\ DOMAIN fs = 1..Len(fs)
         /\ FrameOK(fs[Len(fs)], p, Len(gs))
         /\ \A i \in 1..Len(fs) : /\ FrameOK(fs[i], Point(fs, p, i), Len(gs))
                                  /\ fs[i].base \in Nat /\ fs[i].base <= fs[Len(fs)].base
         /\ \A i \in 1..Len(fs) - 1 : /\ FrameOK(fs[i], Site(fs[i + 1]), Len(gs))
                                      /\ CallOK(fs[i], fs[i + 1], Site(fs[i + 1]))
<1>1. IsSeq(fs) /\ Len(fs) \in Nat /\ Len(fs) >= 1 /\ DOMAIN fs = 1..Len(fs)
  BY SeqBasics DEF Shape
<1>2. Len(fs) \in 1..Len(fs)
  BY <1>1
<1>3. \A i \in 1..Len(fs) : FrameOK(fs[i], Point(fs, p, i), Len(gs))
  BY DEF Shape
<1>4. \A i \in 1..Len(fs) : fs[i].base \in Nat /\ fs[i].base <= fs[Len(fs)].base
  <2>. SUFFICES ASSUME NEW i \in 1..Len(fs)  PROVE fs[i].base \in Nat /\ fs[i].base <= fs[Len(fs)].base
    OBVIOUS
  <2>1. fs[i].base \in Nat
    BY <1>3 DEF FrameOK
  <2>2. i <= Len(fs)
    BY <1>1
  <2>3. fs[i].base <= fs[Len(fs)].base
    BY <1>2, <2>2 DEF Shape
  <2>. QED
    BY <2>1, <2>3
<1>5. FrameOK(fs[Len(fs)], p, Len(gs))
  BY <1>2, <1>3 DEF Point
<1>6. ASSUME NEW i \in 1..Len(fs) - 1
      PROVE  FrameOK(fs[i], Site(fs[i + 1]), Len(gs)) /\ CallOK(fs[i], fs[i + 1], Site(fs[i + 1]))
  <2>1. i \in 1..Len(fs) /\ i # Len(fs)
    <3>1. Len(fs) \in Nat /\ \A l \in Nat : \A j \in 1..l - 1 : j \in 1..l /\ j # l
      BY <1>1
    <3>. QED
      BY <3>1
  <2>2. Point(fs, p, i) = Site(fs[i + 1])
    BY <2>1 DEF Point
  <2>. QED
    BY <1>3, <2>1, <2>2 DEF Shape
<1>. QED
  BY <1>1, <1>2, <1>3, <1>4, <1>5, <1>6

LEMMA ShapeMade ==
  ASSUME NEW fs, NEW p, NEW gs, IsSeq(fs), Len(fs) >= 1,
         FrameOK(fs[Len(fs)], p, Len(gs)),
         \A i \in 1..Len(fs) - 1 : /\ FrameOK(fs[i], Site(fs[i + 1]), Len(gs))
                                   /\ CallOK(fs[i], fs[i + 1], Site(fs[i + 1])),
         fs[1].fn = "main", fs[1].base = 0,
         \A i, j \in 1..Len(fs) : i <= j => fs[i].base <= fs[j].base
  PROVE  Shape(fs, p, gs)
<1>1. Len(fs) \in Nat
  BY SeqBasics
<1>2. ASSUME NEW i \in 1..Len(fs)  PROVE FrameOK(fs[i], Point(fs, p, i), Len(gs))
  <2>1. CASE i = Len(fs)
    BY <2>1 DEF Point
  <2>2. CASE i # Len(fs)
    <3>1. i \in 1..Len(fs) - 1
      BY <1>1, <2>2
    <3>2. Point(fs, p, i) = Site(fs[i + 1])
      BY <2>2 DEF Point
    <3>. QED
      BY <3>1, <3>2
  <2>. QED
    BY <2>1, <2>2
<1>. QED
  BY <1>2 DEF Shape

(* The innermost activation goes on at q, with other try blocks or locals. *)
LEMMA ShapeMoved ==
  ASSUME NEW fs, NEW p, NEW gs, Shape(fs, p, gs), NEW f, NEW q,
         f.fn = fs[Len(fs)].fn, f.base = fs[Len(fs)].base,
         f.kind = fs[Len(fs)].kind, f.ret = fs[Len(fs)].ret,
         FrameOK(f, q, Len(gs))
  PROVE  Shape(Replaced(fs, Len(fs), f), q, gs)
<1>. DEFINE L == Len(fs)
            hs == Replaced(fs, L, f)
<1>1. IsSeq(fs) /\ L \in Nat /\ L >= 1
  BY ShapeTop
<1>2. /\ IsSeq(hs) /\ Len(hs) = L
      /\ \A i \in 1..L : hs[i] = IF i = L THEN f ELSE fs[i]
  BY <1>1, SeqReplaced
<1>3. \A i \in 1..L : hs[i].fn = fs[i].fn /\ hs[i].base = fs[i].base /\ hs[i].kind = fs[i].kind
                      /\ hs[i].ret = fs[i].ret
  BY <1>2
<1>. HIDE DEF hs
<1>4. FrameOK(hs[L], q, Len(gs))
  BY <1>1, <1>2
<1>5. ASSUME NEW i \in 1..L - 1
      PROVE  FrameOK(hs[i], Site(hs[i + 1]), Len(gs)) /\ CallOK(hs[i], hs[i + 1], Site(hs[i + 1]))
  <2>1. i \in 1..L /\ i # L /\ i + 1 \in 1..L
    BY <1>1
  <2>2. hs[i] = fs[i]
    BY <1>2, <2>1
  <2>3. Site(hs[i + 1]) = Site(fs[i + 1])
    BY <1>3, <2>1 DEF Site
  <2>4. FrameOK(fs[i], Site(fs[i + 1]), Len(gs)) /\ CallOK(fs[i], fs[i + 1], Site(fs[i + 1]))
    BY ShapeTop
  <2>5. CallOK(fs[i], hs[i + 1], Site(fs[i + 1]))
    BY <1>3, <2>1, <2>4 DEF CallOK
  <2>. QED
    BY <2>2, <2>3, <2>4, <2>5
<1>6. hs[1].fn = "main" /\ hs[1].base = 0
  BY <1>1, <1>3 DEF Shape
<1>7. \A i, j \in 1..L : i <= j => hs[i].base <= hs[j].base
  BY <1>1, <1>3 DEF Shape
<1>8. Shape(hs, q, gs)
  BY <1>1, <1>2, <1>4, <1>5, <1>6, <1>7, ShapeMade
<1>. QED
  BY <1>8 DEF hs

(* The innermost activation calls g.                                       *)
LEMMA ShapePushed ==
  ASSUME NEW fs, NEW p, NEW gs, Shape(fs, p, gs), NEW g, NEW q,
         FrameOK(g, q, Len(gs)), Site(g) = p, CallOK(fs[Len(fs)], g, p),
         fs[Len(fs)].base <= g.base
  PROVE  Shape(Append(fs, g), q, gs)
<1>. DEFINE L == Len(fs)
            hs == Append(fs, g)
<1>1. IsSeq(fs) /\ L \in Nat /\ L >= 1 /\ L \in 1..L
  BY ShapeTop
<1>2. /\ IsSeq(hs) /\ Len(hs) = L + 1
      /\ \A i \in 1..L : hs[i] = fs[i]
      /\ hs[L + 1] = g
  BY <1>1, SeqAppend
<1>. HIDE DEF hs
<1>4. FrameOK(hs[L + 1], q, Len(gs))
  BY <1>2
<1>5. ASSUME NEW i \in 1..L
      PROVE  FrameOK(hs[i], Site(hs[i + 1]), Len(gs)) /\ CallOK(hs[i], hs[i + 1], Site(hs[i + 1]))
  <2>1. CASE i = L
    BY <1>1, <1>2, <2>1, ShapeTop
  <2>2. CASE i # L
    <3>1. i \in 1..L - 1 /\ i + 1 \in 1..L
      BY <1>1, <2>2
    <3>2. hs[i] = fs[i] /\ hs[i + 1] = fs[i + 1]
      BY <1>2, <3>1
    <3>. QED
      BY <3>1, <3>2, ShapeTop
  <2>. QED
    BY <2>1, <2>2
<1>6. hs[1].fn = "main" /\ hs[1].base = 0
  BY <1>1, <1>2 DEF Shape
<1>7. ASSUME NEW i \in 1..L + 1, NEW j \in 1..L + 1, i <= j
      PROVE  hs[i].base <= hs[j].base
  <2>1. CASE j \in 1..L
    <3>1. i \in 1..L
      BY <1>1, <1>7, <2>1
    <3>2. fs[i].base <= fs[j].base
      BY <1>7, <2>1, <3>1 DEF Shape
    <3>. QED
      BY <1>2, <2>1, <3>1, <3>2
  <2>2. CASE j = L + 1 /\ i \in 1..L
    <3>1. fs[i].base \in Nat /\ fs[i].base <= fs[L].base /\ fs[L].base \in Nat
      BY <1>1, <2>2, ShapeTop
    <3>2. g.base \in Nat
      BY DEF FrameOK
    <3>. QED
      BY <1>2, <2>2, <3>1, <3>2
  <2>3. CASE j = L + 1 /\ i = L + 1
    <3>1. g.base \in Nat
      BY DEF FrameOK
    <3>. QED
      BY <1>2, <2>3, <3>1
  <2>. QED
    BY <1>1, <2>1, <2>2, <2>3
<1>8. Len(hs) >= 1 /\ (L + 1) - 1 = L
  BY <1>1, <1>2
<1>9. Shape(hs, q, gs)
  BY <1>2, <1>4, <1>5, <1>6, <1>7, <1>8, ShapeMade
<1>. QED
  BY <1>9 DEF hs

(* The activations above the k-th one are given up.                        *)
LEMMA ShapeCut ==
  ASSUME NEW fs, NEW p, NEW gs, Shape(fs, p, gs), NEW k \in 1..Len(fs)
  PROVE  /\ Shape(SubSeq(fs, 1, k), Point(fs, p, k), gs)
         /\ Len(SubSeq(fs, 1, k)) = k /\ \A i \in 1..k : SubSeq(fs, 1, k)[i] = fs[i]
<1>. DEFINE L == Len(fs)
            hs == SubSeq(fs, 1, k)
<1>1. IsSeq(fs) /\ L \in Nat /\ L >= 1 /\ k \in 0..L /\ k \in Nat /\ k >= 1
  BY ShapeTop
<1>2. IsSeq(hs) /\ Len(hs) = k /\ \A i \in 1..k : hs[i] = fs[i]
  BY <1>1, SeqPrefix
<1>. HIDE DEF hs
<1>4. FrameOK(hs[k], Point(fs, p, k), Len(gs))
  BY <1>1, <1>2, ShapeTop
<1>5. ASSUME NEW i \in 1..k - 1
      PROVE  FrameOK(hs[i], Site(hs[i + 1]), Len(gs)) /\ CallOK(hs[i], hs[i + 1], Site(hs[i + 1]))
  <2>1. i \in 1..L - 1 /\ i \in 1..k /\ i + 1 \in 1..k
    BY <1>1
  <2>. QED
    BY <1>2, <2>1, ShapeTop
<1>6. hs[1].fn = "main" /\ hs[1].base = 0
  BY <1>1, <1>2 DEF Shape
<1>7. ASSUME NEW i \in 1..k, NEW j \in 1..k, i <= j
      PROVE  hs[i].base <= hs[j].base
  <2>1. i \in 1..L /\ j \in 1..L
    BY <1>1
  <2>2. fs[i].base <= fs[j].base
    BY <1>7, <2>1 DEF Shape
  <2>. QED
    BY <1>2, <2>2
<1>8. Shape(hs, Point(fs, p, k), gs)
  BY <1>1, <1>2, <1>4, <1>5, <1>6, <1>7, ShapeMade
<1>. QED
  BY <1>2, <1>8 DEF hs

(* More generators exist.                                                  *)
LEMMA FrameMore ==
  ASSUME NEW f, NEW at, NEW n \in Nat, NEW m \in Nat, n <= m, FrameOK(f, at, n)
  PROVE  FrameOK(f, at, m)
<1>1. LocalsOK(f.locals, m)
  BY ValuesMore DEF FrameOK, LocalsOK
<1>. QED
  BY <1>1 DEF FrameOK

LEMMA ShapeMore ==
  ASSUME NEW fs, NEW p, NEW gs, NEW hs, Shape(fs, p, gs),
         Len(gs) \in Nat, Len(hs) \in Nat, Len(gs) <= Len(hs)
  PROVE  Shape(fs, p, hs)
BY FrameMore DEF Shape
-----------------------------------------------------------------------------
(* The generators.                                                         *)

Ended(o) == [o EXCEPT !.state = "done", !.saved = <<>>, !.tries = <<>>]

LEMMA EndedOK ==
  ASSUME NEW o, NEW n, GenOK(o, n)
  PROVE  GenOK(Ended(o), n) /\ Ended(o).state = "done"
<1>1. /\ DOMAIN Ended(o) = DOMAIN o /\ DOMAIN o = GenFields
      /\ Ended(o).state = "done" /\ Ended(o).fn = o.fn /\ Ended(o).locals = o.locals
  BY DEF Ended, GenOK, GenFields
<1>. QED
  BY <1>1 DEF GenOK

LEMMA GenMore ==
  ASSUME NEW o, NEW n \in Nat, NEW m \in Nat, n <= m, GenOK(o, n)
  PROVE  GenOK(o, m)
<1>1. LocalsOK(o.locals, m)
  BY ValuesMore DEF GenOK, LocalsOK
<1>2. Values(o.saved, n) => Values(o.saved, m)
  BY SeqBasics, ValuesMore DEF Values
<1>. QED
  BY <1>1, <1>2 DEF GenOK

LEMMA GeneratorsReplaced ==
  ASSUME NEW gs, Generators(gs), NEW h, NEW o, GenOK(o, Len(gs))
  PROVE  /\ Generators(Replaced(gs, h, o)) /\ Len(Replaced(gs, h, o)) = Len(gs)
         /\ \A i \in 1..Len(gs) : Replaced(gs, h, o)[i] = IF i = h THEN o ELSE gs[i]
<1>1. IsSeq(gs) /\ \A g \in 1..Len(gs) : GenOK(gs[g], Len(gs))
  BY DEF Generators
<1>2. /\ IsSeq(Replaced(gs, h, o)) /\ Len(Replaced(gs, h, o)) = Len(gs)
      /\ \A i \in 1..Len(gs) : Replaced(gs, h, o)[i] = IF i = h THEN o ELSE gs[i]
  BY <1>1, SeqReplaced
<1>. QED
  BY <1>1, <1>2 DEF Generators

LEMMA GeneratorsAppend ==
  ASSUME NEW gs, Generators(gs), NEW o, GenOK(o, Len(gs))
  PROVE  Generators(Append(gs, o)) /\ Len(Append(gs, o)) = Len(gs) + 1
<1>1. IsSeq(gs) /\ Len(gs) \in Nat /\ \A g \in 1..Len(gs) : GenOK(gs[g], Len(gs))
  BY SeqBasics DEF Generators
<1>2. /\ IsSeq(Append(gs, o)) /\ Len(Append(gs, o)) = Len(gs) + 1
      /\ \A i \in 1..Len(gs) : Append(gs, o)[i] = gs[i]
      /\ Append(gs, o)[Len(gs) + 1] = o
  BY <1>1, SeqAppend
<1>3. Len(gs) + 1 \in Nat /\ Len(gs) <= Len(gs) + 1
  BY <1>1
<1>4. ASSUME NEW g \in 1..Len(gs) + 1  PROVE GenOK(Append(gs, o)[g], Len(gs) + 1)
  <2>1. CASE g = Len(gs) + 1
    BY <1>1, <1>2, <1>3, <2>1, GenMore
  <2>2. CASE g # Len(gs) + 1
    <3>1. g \in 1..Len(gs)
      BY <1>1, <2>2
    <3>. QED
      BY <1>1, <1>2, <1>3, <3>1, GenMore
  <2>. QED
    BY <2>1, <2>2
<1>. QED
  BY <1>2, <1>4 DEF Generators

LEMMA FinishedIs ==
  ASSUME NEW gs, IsSeq(gs), NEW fs, NEW k
  PROVE  /\ IsSeq(Finished(gs, fs, k)) /\ Len(Finished(gs, fs, k)) = Len(gs)
         /\ \A g \in 1..Len(gs) :
              Finished(gs, fs, k)[g] = IF \E i \in DOMAIN fs : i > k /\ fs[i].gen = g
                                       THEN Ended(gs[g]) ELSE gs[g]
<1>. DEFINE hs == Finished(gs, fs, k)
<1>1. Len(gs) \in Nat /\ DOMAIN gs = 1..Len(gs)
  BY SeqBasics
<1>2. hs = [g \in 1..Len(gs) |-> IF \E i \in DOMAIN fs : i > k /\ fs[i].gen = g
                                 THEN Ended(gs[g]) ELSE gs[g]]
  BY <1>1 DEF Finished, Ended
<1>3. \A g \in 1..Len(gs) : hs[g] = IF \E i \in DOMAIN fs : i > k /\ fs[i].gen = g
                                    THEN Ended(gs[g]) ELSE gs[g]
  BY <1>2
<1>4. hs = [g \in 1..Len(gs) |-> hs[g]]
  BY <1>2
<1>. HIDE DEF hs
<1>5. IsSeq(hs) /\ Len(hs) = Len(gs)
  BY <1>1, <1>4, SeqMade
<1>. QED
  BY <1>3, <1>5 DEF hs

(* The activations above the k-th one are given up, and their generators   *)
(* are done.                                                               *)
LEMMA RunningCut ==
  ASSUME NEW fs, IsSeq(fs), NEW gs, Running(fs, gs), Generators(gs), NEW k \in 0..Len(fs)
  PROVE  /\ Running(SubSeq(fs, 1, k), Finished(gs, fs, k))
         /\ Generators(Finished(gs, fs, k)) /\ Len(Finished(gs, fs, k)) = Len(gs)
<1>. DEFINE hs == SubSeq(fs, 1, k)
            ds == Finished(gs, fs, k)
            Lost(g) == \E i \in DOMAIN fs : i > k /\ fs[i].gen = g
<1>1. Len(fs) \in Nat /\ DOMAIN fs = 1..Len(fs) /\ k \in Nat
  BY SeqBasics
<1>2. IsSeq(hs) /\ Len(hs) = k /\ \A i \in 1..k : hs[i] = fs[i] /\ i \in 1..Len(fs)
  BY <1>1, SeqPrefix
<1>3. IsSeq(gs) /\ \A g \in 1..Len(gs) : GenOK(gs[g], Len(gs))
  BY DEF Generators
<1>4. /\ IsSeq(ds) /\ Len(ds) = Len(gs)
      /\ \A g \in 1..Len(gs) : ds[g] = IF Lost(g) THEN Ended(gs[g]) ELSE gs[g]
  BY <1>3, FinishedIs
<1>. HIDE DEF hs, ds
<1>5. \A g \in 1..Len(gs) : GenOK(ds[g], Len(gs)) /\ (Lost(g) => ds[g].state = "done")
  <2>. SUFFICES ASSUME NEW g \in 1..Len(gs)
                PROVE  GenOK(ds[g], Len(gs)) /\ (Lost(g) => ds[g].state = "done")
    OBVIOUS
  <2>1. GenOK(Ended(gs[g]), Len(gs)) /\ Ended(gs[g]).state = "done"
    BY <1>3, EndedOK
  <2>2. ds[g] = IF Lost(g) THEN Ended(gs[g]) ELSE gs[g]
    BY <1>4
  <2>. QED
    BY <1>3, <2>1, <2>2
<1>6. Generators(ds)
  BY <1>4, <1>5 DEF Generators
<1>7. ASSUME NEW i \in 1..k, hs[i].gen # NoGen
      PROVE  hs[i].gen \in 1..Len(gs) /\ ds[hs[i].gen].state = "running" /\ ds[hs[i].gen].fn = hs[i].fn
  <2>1. /\ hs[i] = fs[i] /\ i \in 1..Len(fs)
        /\ fs[i].gen \in 1..Len(gs) /\ gs[fs[i].gen].state = "running" /\ gs[fs[i].gen].fn = fs[i].fn
    BY <1>2, <1>7 DEF Running
  <2>2. ~ Lost(fs[i].gen)
    <3>. SUFFICES ASSUME NEW j \in DOMAIN fs, j > k, fs[j].gen = fs[i].gen  PROVE FALSE
      OBVIOUS
    <3>1. j = i
      BY <1>1, <1>7, <2>1 DEF Running
    <3>. QED
      BY <1>1, <3>1
  <2>. QED
    BY <1>4, <2>1, <2>2
<1>8. ASSUME NEW i \in 1..k, NEW j \in 1..k, hs[i].gen = hs[j].gen, hs[i].gen # NoGen
      PROVE  i = j
  BY <1>2, <1>8 DEF Running
<1>9. ASSUME NEW g \in 1..Len(gs), ds[g].state = "running"
      PROVE  \E i \in 1..k : hs[i].gen = g
  <2>1. ~ Lost(g)
    BY <1>5, <1>9
  <2>2. gs[g].state = "running"
    BY <1>4, <1>9, <2>1
  <2>3. PICK i \in 1..Len(fs) : fs[i].gen = g
    BY <2>2 DEF Running
  <2>4. i \in 1..k
    BY <1>1, <2>1, <2>3
  <2>. QED
    BY <1>2, <2>3, <2>4
<1>10. Running(hs, ds)
  BY <1>2, <1>4, <1>7, <1>8, <1>9 DEF Running
<1>. QED
  BY <1>4, <1>6, <1>10 DEF hs, ds

LEMMA RunningMoved ==
  ASSUME NEW fs, IsSeq(fs), NEW gs, Running(fs, gs), NEW f,
         f.gen = fs[Len(fs)].gen, f.fn = fs[Len(fs)].fn
  PROVE  Running(Replaced(fs, Len(fs), f), gs)
<1>. DEFINE hs == Replaced(fs, Len(fs), f)
<1>1. Len(hs) = Len(fs) /\ \A i \in 1..Len(fs) : hs[i] = IF i = Len(fs) THEN f ELSE fs[i]
  BY SeqReplaced
<1>2. \A i \in 1..Len(fs) : hs[i].gen = fs[i].gen /\ hs[i].fn = fs[i].fn
  BY <1>1
<1>. HIDE DEF hs
<1>3. Running(hs, gs)
  BY <1>1, <1>2 DEF Running
<1>. QED
  BY <1>3 DEF hs

(* A function is called.                                                   *)
LEMMA RunningCalled ==
  ASSUME NEW fs, IsSeq(fs), NEW gs, Running(fs, gs), NEW f, f.gen = NoGen
  PROVE  Running(Append(fs, f), gs)
<1>. DEFINE hs == Append(fs, f)
            L == Len(fs)
<1>1. L \in Nat /\ Len(hs) = L + 1 /\ (\A i \in 1..L : hs[i] = fs[i]) /\ hs[L + 1] = f
  BY SeqBasics, SeqAppend
<1>. HIDE DEF hs
<1>2. \A i \in 1..L + 1 : hs[i].gen # NoGen => i \in 1..L
  BY <1>1
<1>3. ASSUME NEW i \in 1..L + 1, hs[i].gen # NoGen
      PROVE  hs[i].gen \in 1..Len(gs) /\ gs[hs[i].gen].state = "running" /\ gs[hs[i].gen].fn = hs[i].fn
  BY <1>1, <1>2, <1>3 DEF Running
<1>4. ASSUME NEW i \in 1..L + 1, NEW j \in 1..L + 1, hs[i].gen = hs[j].gen, hs[i].gen # NoGen
      PROVE  i = j
  <2>1. i \in 1..L /\ j \in 1..L
    BY <1>2, <1>4
  <2>. QED
    BY <1>1, <1>4, <2>1 DEF Running
<1>5. ASSUME NEW g \in 1..Len(gs), gs[g].state = "running"
      PROVE  \E i \in 1..L + 1 : hs[i].gen = g
  <2>1. PICK i \in 1..L : fs[i].gen = g
    BY <1>5 DEF Running
  <2>2. i \in 1..L + 1
    BY <1>1
  <2>. QED
    BY <1>1, <2>1, <2>2
<1>6. Running(hs, gs)
  BY <1>1, <1>3, <1>4, <1>5 DEF Running
<1>. QED
  BY <1>6 DEF hs

(* Generator h, which has no activation, is given one.                     *)
LEMMA RunningResumed ==
  ASSUME NEW fs, IsSeq(fs), NEW gs, Running(fs, gs), IsSeq(gs), NEW h \in 1..Len(gs),
         gs[h].state # "running",
         NEW o, o.state = "running", o.fn = gs[h].fn,
         NEW f, f.gen = h, f.fn = o.fn
  PROVE  Running(Append(fs, f), Replaced(gs, h, o))
<1>. DEFINE hs == Append(fs, f)
            ds == Replaced(gs, h, o)
            L == Len(fs)
<1>1. L \in Nat /\ Len(hs) = L + 1 /\ (\A i \in 1..L : hs[i] = fs[i]) /\ hs[L + 1] = f
  BY SeqBasics, SeqAppend
<1>2. Len(ds) = Len(gs) /\ \A g \in 1..Len(gs) : ds[g] = IF g = h THEN o ELSE gs[g]
  BY SeqReplaced
<1>. HIDE DEF hs, ds
<1>3. \A i \in 1..L : fs[i].gen # NoGen =>
        /\ fs[i].gen \in 1..Len(gs) /\ fs[i].gen # h
        /\ gs[fs[i].gen].state = "running" /\ gs[fs[i].gen].fn = fs[i].fn
  BY DEF Running
<1>4. ASSUME NEW i \in 1..L + 1, hs[i].gen # NoGen
      PROVE  hs[i].gen \in 1..Len(gs) /\ ds[hs[i].gen].state = "running" /\ ds[hs[i].gen].fn = hs[i].fn
  <2>1. CASE i = L + 1
    BY <1>1, <1>2, <2>1
  <2>2. CASE i # L + 1
    <3>1. i \in 1..L /\ hs[i] = fs[i]
      BY <1>1, <2>2
    <3>. QED
      BY <1>2, <1>3, <1>4, <3>1
  <2>. QED
    BY <2>1, <2>2
<1>5. ASSUME NEW i \in 1..L + 1, NEW j \in 1..L + 1, hs[i].gen = hs[j].gen, hs[i].gen # NoGen
      PROVE  i = j
  <2>1. CASE i \in 1..L /\ j \in 1..L
    BY <1>1, <1>5, <2>1 DEF Running
  <2>2. CASE i = L + 1 /\ j \in 1..L
    BY <1>1, <1>3, <1>5, <2>2
  <2>3. CASE j = L + 1 /\ i \in 1..L
    BY <1>1, <1>3, <1>5, <2>3
  <2>. QED
    BY <1>1, <2>1, <2>2, <2>3
<1>6. ASSUME NEW g \in 1..Len(gs), ds[g].state = "running"
      PROVE  \E i \in 1..L + 1 : hs[i].gen = g
  <2>1. CASE g = h
    <3>1. L + 1 \in 1..L + 1
      BY <1>1
    <3>. QED
      BY <1>1, <2>1, <3>1
  <2>2. CASE g # h
    <3>1. gs[g].state = "running"
      BY <1>2, <1>6, <2>2
    <3>2. PICK i \in 1..L : fs[i].gen = g
      BY <3>1 DEF Running
    <3>3. i \in 1..L + 1
      BY <1>1
    <3>. QED
      BY <1>1, <3>2, <3>3
  <2>. QED
    BY <2>1, <2>2
<1>7. Running(hs, ds)
  BY <1>1, <1>2, <1>4, <1>5, <1>6 DEF Running
<1>. QED
  BY <1>7 DEF hs, ds

(* The generator of the innermost activation stops.                        *)
LEMMA RunningStopped ==
  ASSUME NEW fs, IsSeq(fs), Len(fs) >= 1, NEW gs, Running(fs, gs), IsSeq(gs),
         NEW h, h = fs[Len(fs)].gen, h # NoGen,
         NEW o, o.state # "running"
  PROVE  h \in 1..Len(gs) /\ gs[h].fn = fs[Len(fs)].fn /\ Running(SubSeq(fs, 1, Len(fs) - 1), Replaced(gs, h, o))
<1>. DEFINE L == Len(fs)
            hs == SubSeq(fs, 1, L - 1)
            ds == Replaced(gs, h, o)
<1>1. L \in Nat /\ L \in 1..L /\ L - 1 \in 0..L
  BY SeqBasics
<1>2. Len(hs) = L - 1 /\ \A i \in 1..L - 1 : hs[i] = fs[i]
  BY <1>1, SeqPrefix
<1>. HIDE DEF hs, L
<1>3. \A i \in 1..L - 1 : i \in 1..L /\ i # L
  BY <1>1
<1>. USE DEF L
<1>4. Len(hs) = L - 1 /\ \A i \in 1..L - 1 : hs[i] = fs[i] /\ i \in 1..L /\ i # L
  BY <1>2, <1>3
<1>5. Len(ds) = Len(gs) /\ \A g \in 1..Len(gs) : ds[g] = IF g = h THEN o ELSE gs[g]
  BY SeqReplaced
<1>. HIDE DEF hs, ds
<1>6. h \in 1..Len(gs) /\ gs[h].fn = fs[L].fn
  BY <1>1 DEF Running
<1>7. ASSUME NEW i \in 1..L - 1, hs[i].gen # NoGen
      PROVE  hs[i].gen \in 1..Len(gs) /\ ds[hs[i].gen].state = "running" /\ ds[hs[i].gen].fn = hs[i].fn
  <2>1. hs[i] = fs[i] /\ i \in 1..L /\ i # L
    BY <1>4
  <2>2. fs[i].gen # h
    BY <1>1, <1>7, <2>1 DEF Running
  <2>. QED
    BY <1>5, <1>7, <2>1, <2>2 DEF Running
<1>8. ASSUME NEW i \in 1..L - 1, NEW j \in 1..L - 1, hs[i].gen = hs[j].gen, hs[i].gen # NoGen
      PROVE  i = j
  BY <1>4, <1>8 DEF Running
<1>9. ASSUME NEW g \in 1..Len(gs), ds[g].state = "running"
      PROVE  \E i \in 1..L - 1 : hs[i].gen = g
  <2>1. g # h /\ gs[g].state = "running"
    BY <1>5, <1>9
  <2>2. PICK i \in 1..L : fs[i].gen = g
    BY <2>1 DEF Running
  <2>3. i # L
    BY <2>1, <2>2
  <2>4. i \in 1..L - 1
    BY <1>1, <2>3
  <2>. QED
    BY <1>4, <2>2, <2>4
<1>10. Running(hs, ds)
  BY <1>4, <1>5, <1>7, <1>8, <1>9 DEF Running
<1>. QED
  BY <1>6, <1>10 DEF hs, ds

LEMMA RunningCreated ==
  ASSUME NEW fs, NEW gs, Running(fs, gs), IsSeq(gs), NEW o, o.state = "created"
  PROVE  Running(fs, Append(gs, o))
<1>. DEFINE ds == Append(gs, o)
<1>1. Len(gs) \in Nat /\ Len(ds) = Len(gs) + 1 /\ (\A g \in 1..Len(gs) : ds[g] = gs[g])
      /\ ds[Len(gs) + 1] = o
  BY SeqBasics, SeqAppend
<1>. HIDE DEF ds
<1>2. \A g \in 1..Len(gs) + 1 : ds[g].state = "running" => g \in 1..Len(gs)
  BY <1>1
<1>3. \A g \in 1..Len(gs) : g \in 1..Len(gs) + 1
  BY <1>1
<1>4. Running(fs, ds)
  BY <1>1, <1>2, <1>3 DEF Running
<1>. QED
  BY <1>4 DEF ds
-----------------------------------------------------------------------------
(* Code does not change, so that an invariant of the new state may be read *)
(* with the code of the old one.                                           *)

LEMMA Stands ==
  ASSUME Fixed, pid' = pid, codes' = codes, exc' \notin {"start", "run"}, status' = "run",
         Consistent(frames', ip', gens', stack')
  PROVE  IInv'
<1>1. Fixed'
  BY DEF Fixed
<1>2. Shape(frames, ip, gens)'
  <2>1. \A f, at, n : FrameOK(f, at, n) => /\ DOMAIN f = FrameFields
                                           /\ f.fn \in DOMAIN codes' /\ codes'[f.fn].ok
                                           /\ at \in DOMAIN codes'[f.fn].depth
                                           /\ f.base \in Nat
                                           /\ f.tries = Rebase(Nesting(codes'[f.fn])[at], f.base)
                                           /\ f.gen = NoGen <=> ~codes'[f.fn].gen
                                           /\ f.kind \in Kinds /\ (f.kind = "call" <=> f.gen = NoGen)
                                           /\ LocalsOK(f.locals, n)
    BY DEF FrameOK, Opens
  <2>. QED
    BY <2>1 DEF Consistent, Shape, FrameOK, CallOK, Opens
<1>3. Running(frames, gens)'
  BY DEF Consistent, Running
<1>4. Generators(gens)'
  BY DEF Consistent, Generators, GenOK, Opens
<1>5. Values(stack, Len(gens))'
  BY DEF Consistent
<1>6. (Len(stack) = frames[Len(frames)].base + codes[frames[Len(frames)].fn].depth[ip])'
  BY DEF Consistent
<1>. QED
  BY <1>1, <1>2, <1>3, <1>4, <1>5, <1>6 DEF IInv, Consistent

(* A run that is over.                                                     *)
LEMMA Stops ==
  ASSUME Fixed, pid' = pid, codes' = codes, exc' \notin {"start", "run"},
         status' \notin {"start", "run"}, frames' = <<>>,
         Generators(gens'), Running(<<>>, gens')
  PROVE  IInv'
<1>1. Fixed'
  BY DEF Fixed
<1>2. Generators(gens)'
  BY DEF Generators, GenOK, Opens
<1>3. Running(frames, gens)'
  BY DEF Running
<1>. QED
  BY <1>1, <1>2, <1>3 DEF IInv
-----------------------------------------------------------------------------
(* Try blocks.                                                             *)

Blocks(D) == [handler : D, depth : Nat]

LEMMA BlocksAre ==
  ASSUME NEW D, NEW x \in Blocks(D)
  PROVE  x.handler \in D /\ x.depth \in Nat /\ x = [handler |-> x.handler, depth |-> x.depth]
BY DEF Blocks

LEMMA BlocksMade ==
  ASSUME NEW D, NEW h \in D, NEW d \in Nat
  PROVE  [handler |-> h, depth |-> d] \in Blocks(D)
BY DEF Blocks

LEMMA RebaseIs ==
  ASSUME NEW D, NEW bs \in Seq(Blocks(D)), NEW by \in Int
  PROVE  /\ IsSeq(Rebase(bs, by)) /\ Len(Rebase(bs, by)) = Len(bs) /\ Len(bs) \in Nat
         /\ \A i \in 1..Len(bs) :
              Rebase(bs, by)[i] = [handler |-> bs[i].handler, depth |-> bs[i].depth + by]
<1>. DEFINE rs == Rebase(bs, by)
<1>1. Len(bs) \in Nat /\ DOMAIN bs = 1..Len(bs) /\ \A i \in 1..Len(bs) : bs[i] \in Blocks(D)
  OBVIOUS
<1>2. rs = [i \in 1..Len(bs) |-> [bs[i] EXCEPT !.depth = @ + by]]
  BY <1>1 DEF Rebase
<1>3. \A i \in 1..Len(bs) : rs[i] = [handler |-> bs[i].handler, depth |-> bs[i].depth + by]
  BY <1>1, <1>2, BlocksAre
<1>4. rs = [i \in 1..Len(bs) |-> rs[i]]
  BY <1>2
<1>. HIDE DEF rs
<1>5. IsSeq(rs) /\ Len(rs) = Len(bs)
  BY <1>1, <1>4, SeqMade
<1>. QED
  BY <1>1, <1>3, <1>5 DEF rs

LEMMA RebaseEmpty ==
  ASSUME NEW by \in Int
  PROVE  Rebase(<<>>, by) = <<>>
<1>1. <<>> \in Seq(Blocks({})) /\ Len(<<>>) = 0
  OBVIOUS
<1>2. IsSeq(Rebase(<<>>, by)) /\ Len(Rebase(<<>>, by)) = 0
  BY <1>1, RebaseIs
<1>. QED
  BY <1>2, SeqBasics

LEMMA RebaseBack ==
  ASSUME NEW D, NEW bs \in Seq(Blocks(D)), NEW b \in Nat
  PROVE  Rebase(Rebase(bs, b), -b) = bs
<1>. DEFINE rs == Rebase(bs, b)
            ts == [i \in 1..Len(bs) |-> [rs[i] EXCEPT !.depth = @ + (-b)]]
<1>1. Len(bs) \in Nat /\ DOMAIN bs = 1..Len(bs) /\ \A i \in 1..Len(bs) : bs[i] \in Blocks(D)
  OBVIOUS
<1>2. /\ IsSeq(rs) /\ Len(rs) = Len(bs)
      /\ \A i \in 1..Len(bs) : rs[i] = [handler |-> bs[i].handler, depth |-> bs[i].depth + b]
  <2>1. b \in Int
    OBVIOUS
  <2>. QED
    BY <2>1, RebaseIs
<1>3. DOMAIN rs = 1..Len(bs)
  BY <1>2, SeqBasics
<1>. HIDE DEF rs
<1>4. Rebase(rs, -b) = ts
  BY <1>3 DEF Rebase
<1>5. \A i \in 1..Len(bs) : ts[i] = bs[i]
  <2>. SUFFICES ASSUME NEW i \in 1..Len(bs)  PROVE ts[i] = bs[i]
    OBVIOUS
  <2>1. ts[i] = [rs[i] EXCEPT !.depth = @ + (-b)]
    OBVIOUS
  <2>2. rs[i] = [handler |-> bs[i].handler, depth |-> bs[i].depth + b] /\ bs[i] \in Blocks(D)
    BY <1>1, <1>2
  <2>3. bs[i].depth \in Nat /\ (bs[i].depth + b) + (-b) = bs[i].depth
        /\ bs[i] = [handler |-> bs[i].handler, depth |-> bs[i].depth]
    BY <2>2, BlocksAre
  <2>. QED
    BY <2>1, <2>2, <2>3
<1>6. bs = [i \in 1..Len(bs) |-> bs[i]]
  BY <1>1
<1>. QED
  BY <1>4, <1>5, <1>6 DEF rs

LEMMA RebaseAppend ==
  ASSUME NEW D, NEW bs \in Seq(Blocks(D)), NEW b \in Nat,
         NEW h \in D, NEW d \in Nat
  PROVE  Rebase(Append(bs, [handler |-> h, depth |-> d]), b)
           = Append(Rebase(bs, b), [handler |-> h, depth |-> d + b])
<1>. DEFINE x == [handler |-> h, depth |-> d]
            y == [handler |-> h, depth |-> d + b]
            cs == Append(bs, x)
            rs == Rebase(bs, b)
            L == Len(bs)
<1>0. b \in Int
  OBVIOUS
<1>1. x \in Blocks(D) /\ x.handler = h /\ x.depth = d
  BY BlocksMade
<1>. HIDE DEF x, y
<1>2. L \in Nat /\ IsSeq(bs) /\ cs \in Seq(Blocks(D))
  BY <1>1, SeqWithin
<1>3. Len(cs) = L + 1 /\ (\A i \in 1..L : cs[i] = bs[i]) /\ cs[L + 1] = x
  BY <1>2, SeqAppend
<1>. HIDE DEF cs
<1>4. /\ IsSeq(rs) /\ Len(rs) = L
      /\ \A i \in 1..L : rs[i] = [handler |-> bs[i].handler, depth |-> bs[i].depth + b]
  BY <1>0, RebaseIs
<1>5. /\ IsSeq(Rebase(cs, b)) /\ Len(Rebase(cs, b)) = L + 1
      /\ \A i \in 1..L + 1 : Rebase(cs, b)[i] = [handler |-> cs[i].handler, depth |-> cs[i].depth + b]
  BY <1>0, <1>2, <1>3, RebaseIs
<1>. HIDE DEF rs
<1>6. /\ IsSeq(Append(rs, y)) /\ Len(Append(rs, y)) = L + 1
      /\ (\A i \in 1..L : Append(rs, y)[i] = rs[i]) /\ Append(rs, y)[L + 1] = y
  BY <1>4, SeqAppend
<1>7. ASSUME NEW i \in 1..L + 1  PROVE Rebase(cs, b)[i] = Append(rs, y)[i]
  <2>1. CASE i = L + 1
    BY <1>1, <1>3, <1>5, <1>6, <2>1 DEF y
  <2>2. CASE i # L + 1
    <3>1. i \in 1..L
      BY <1>2, <2>2
    <3>. QED
      BY <1>3, <1>4, <1>5, <1>6, <3>1
  <2>. QED
    BY <2>1, <2>2
<1>8. Rebase(cs, b) = Append(rs, y)
  BY <1>5, <1>6, <1>7, SeqEqual
<1>. QED
  BY <1>8 DEF cs, rs, x, y

LEMMA RebaseFront ==
  ASSUME NEW D, NEW bs \in Seq(Blocks(D)), NEW b \in Nat, bs # <<>>
  PROVE  /\ Rebase(Front(bs), b) = Front(Rebase(bs, b))
         /\ Rebase(bs, b) # <<>> /\ Len(Rebase(bs, b)) \in 1..Len(Rebase(bs, b))
         /\ Rebase(bs, b)[Len(Rebase(bs, b))]
              = [handler |-> bs[Len(bs)].handler, depth |-> bs[Len(bs)].depth + b]
<1>. DEFINE cs == Front(bs)
            rs == Rebase(bs, b)
            L == Len(bs)
<1>0. b \in Int
  OBVIOUS
<1>1. IsSeq(bs) /\ L \in Nat /\ L >= 1 /\ L \in 1..L /\ L - 1 \in 0..L
  BY SeqWithin, LastOf
<1>2. IsSeq(cs) /\ Len(cs) = L - 1 /\ \A i \in 1..L - 1 : cs[i] = bs[i]
  BY <1>1, SeqPrefix DEF Front
<1>3. cs \in Seq(Blocks(D))
  <2>1. L - 1 \in Nat /\ \A i \in 1..L - 1 : i \in 1..L
    BY <1>1
  <2>2. SubSeq(bs, 1, L - 1) \in Seq(Blocks(D))
    BY <2>1
  <2>. QED
    BY <2>2 DEF Front
<1>. HIDE DEF cs
<1>4. /\ IsSeq(rs) /\ Len(rs) = L
      /\ \A i \in 1..L : rs[i] = [handler |-> bs[i].handler, depth |-> bs[i].depth + b]
  BY <1>0, RebaseIs
<1>5. /\ IsSeq(Rebase(cs, b)) /\ Len(Rebase(cs, b)) = L - 1
      /\ \A i \in 1..L - 1 : Rebase(cs, b)[i] = [handler |-> cs[i].handler, depth |-> cs[i].depth + b]
  BY <1>0, <1>2, <1>3, RebaseIs
<1>. HIDE DEF rs
<1>6. IsSeq(Front(rs)) /\ Len(Front(rs)) = L - 1 /\ \A i \in 1..L - 1 : Front(rs)[i] = rs[i]
  BY <1>1, <1>4, SeqPrefix DEF Front
<1>. HIDE DEF L
<1>7. \A i \in 1..L - 1 : i \in 1..L
  BY <1>1
<1>8. \A i \in 1..L - 1 : Rebase(cs, b)[i] = Front(rs)[i]
  BY <1>2, <1>4, <1>5, <1>6, <1>7
<1>9. Rebase(cs, b) = Front(rs)
  BY <1>5, <1>6, <1>8, SeqEqual
<1>10. rs # <<>>
  BY <1>1, <1>4, SeqBasics
<1>. QED
  BY <1>1, <1>4, <1>9, <1>10 DEF cs, rs, L
-----------------------------------------------------------------------------
(* Errors.                                                                 *)

LEMMA AbortOK ==
  ASSUME Fixed, pid' = pid, codes' = codes, exc' \notin {"start", "run"},
         NEW fs, IsSeq(fs), NEW gs, Running(fs, gs), Generators(gs),
         NEW kind, kind \notin {"start", "run"}, Abort(kind, fs, gs)
  PROVE  IInv'
<1>1. 0 \in 0..Len(fs) /\ SubSeq(fs, 1, 0) = <<>>
  BY SeqBasics DEF IsSeq
<1>2. Running(<<>>, Finished(gs, fs, 0)) /\ Generators(Finished(gs, fs, 0))
  BY <1>1, RunningCut
<1>. QED
  BY <1>2, Stops DEF Abort

(* Activation f stands at instruction at with its own try blocks.          *)
LEMMA BlocksOpen ==
  ASSUME Fixed, StructuredCode, NEW f, NEW at, NEW n, FrameOK(f, at, n)
  PROVE  /\ f.fn \in DOMAIN codes /\ codes[f.fn].ok /\ at \in DOMAIN codes[f.fn].depth
         /\ Opens(f.fn)[at] \in Seq(Blocks(DOMAIN codes[f.fn].depth))
         /\ f.tries = Rebase(Opens(f.fn)[at], f.base) /\ f.base \in Nat
         /\ f.tries = <<>> <=> Opens(f.fn)[at] = <<>>
         /\ Opens(f.fn)[at] # <<>> =>
              LET last == Opens(f.fn)[at][Len(Opens(f.fn)[at])]
              IN /\ last.handler \in DOMAIN codes[f.fn].depth
                 /\ last.depth = FloorOf(Opens(f.fn)[at]) /\ last.depth \in Nat
                 /\ Opens(f.fn)[last.handler] = Front(Opens(f.fn)[at])
                 /\ codes[f.fn].depth[last.handler] = last.depth + 1
<1>1. /\ f.fn \in DOMAIN codes /\ codes[f.fn].ok /\ at \in DOMAIN codes[f.fn].depth
      /\ f.tries = Rebase(Opens(f.fn)[at], f.base) /\ f.base \in Nat
  BY DEF FrameOK
<1>2. Opens(f.fn)[at] \in Seq(Blocks(DOMAIN codes[f.fn].depth))
  BY <1>1, Standing DEF Blocks
<1>. DEFINE bs == Opens(f.fn)[at]
            D == DOMAIN codes[f.fn].depth
<1>. HIDE DEF bs, D
<1>3. f.base \in Int
  BY <1>1
<1>4. bs = <<>> => Rebase(bs, f.base) = <<>>
  BY <1>3, RebaseEmpty
<1>5. bs # <<>> => Rebase(bs, f.base) # <<>>
  BY <1>1, <1>2, RebaseFront DEF bs, D
<1>6. f.tries = <<>> <=> bs = <<>>
  BY <1>1, <1>4, <1>5 DEF bs
<1>. USE DEF bs
<1>7. bs # <<>> =>
        LET last == bs[Len(bs)]
        IN /\ last.handler \in DOMAIN codes[f.fn].depth
           /\ last.depth = FloorOf(bs) /\ last.depth \in Nat
           /\ Opens(f.fn)[last.handler] = Front(bs)
           /\ codes[f.fn].depth[last.handler] = last.depth + 1
  BY <1>1, Standing
<1>. QED
  BY <1>1, <1>2, <1>6, <1>7

(* A callee starts above what its caller's innermost try block keeps.      *)
LEMMA CalleeAbove ==
  ASSUME Fixed, StructuredCode, NEW f, NEW at, NEW n, FrameOK(f, at, n),
         NEW g, g.kind \in Kinds, CallOK(f, g, at)
  PROVE  f.base + FloorOf(Opens(f.fn)[at]) <= g.base
<1>. DEFINE i == codes[f.fn].code[at]
            d == codes[f.fn].depth[at]
            floor == FloorOf(Opens(f.fn)[at])
<1>1. /\ WellFormed(i) /\ Needs(i) \in Nat /\ d \in Nat /\ floor \in Nat /\ d - Needs(i) >= floor
      /\ f.base \in Nat
  BY Standing DEF FrameOK
<1>. HIDE DEF d, floor, i
<1>2. /\ i.op = IF g.kind = "for" THEN "RANGE_NEXT" ELSE "CALL"
      /\ g.base = f.base + d - Taken(g.kind, i.arg)
  BY DEF CallOK, i, d
<1>3. CASE g.kind = "for"
  <2>1. Taken(g.kind, i.arg) = 0
    BY <1>3 DEF Taken
  <2>. QED
    BY <1>1, <1>2, <2>1 DEF floor
<1>4. CASE g.kind # "for"
  <2>1. i.op = "CALL" /\ i.arg \in Nat /\ Needs(i) = i.arg + 1
    BY <1>1, <1>2, <1>4, NeedsIs DEF WellFormed
  <2>2. Taken(g.kind, i.arg) \in {i.arg + 1, i.arg, -1}
    BY <1>4 DEF Taken, Kinds
  <2>3. Taken(g.kind, i.arg) \in Int /\ Taken(g.kind, i.arg) <= i.arg + 1
    BY <2>1, <2>2
  <2>. QED
    BY <1>1, <1>2, <2>1, <2>3 DEF floor
<1>. QED
  BY <1>3, <1>4

LEMMA LastCatching ==
  ASSUME NEW n \in Nat, NEW S \in SUBSET (1..n), S # {}
  PROVE  Max(S) \in S
<1>1. IsFiniteSet(S)
  <2>1. 1 \in Int /\ n \in Int
    OBVIOUS
  <2>2. IsFiniteSet(1..n)
    BY <2>1, FS_Interval
  <2>. QED
    BY <2>2, FS_Subset
<1>2. S \in SUBSET Int
  OBVIOUS
<1>3. \E x \in S : \A y \in S : x >= y
  BY <1>1, <1>2, MaximumExists
<1>. QED
  BY <1>3 DEF Max

(* py68_vm_catch: an error in activation fs[Len(fs)] at p, whose operands  *)
(* st go beyond what the innermost try block keeps.                        *)
LEMMA ThrowOK ==
  ASSUME Fixed, StructuredCode, status = "run",
         NEW fs, NEW p, NEW gs, NEW st, Shape(fs, p, gs), Running(fs, gs), Generators(gs),
         Values(st, Len(gs)),
         Len(st) >= fs[Len(fs)].base + FloorOf(Opens(fs[Len(fs)].fn)[p]),
         NEW kind, kind \notin {"start", "run"},
         NEW current, current \notin {"start", "run"},
         Throw(kind, current, fs, gs, st)
  PROVE  IInv'
<1>. DEFINE e == IF current # "none" /\ Kind(current) = kind THEN current ELSE kind
            catching == {k \in DOMAIN fs : fs[k].tries # <<>>}
            k == Max(catching)
            block == fs[k].tries[Len(fs[k].tries)]
            depth == IF Len(st) > block.depth THEN block.depth ELSE Len(st)
<1>1. e \notin {"start", "run"}
  OBVIOUS
<1>2. /\ exc' = e /\ pid' = pid /\ codes' = codes
      /\ catching = {} => Abort(kind, fs, gs)
      /\ catching # {} => /\ frames' = Unwound(fs, k)
                          /\ stack' = Append(SubSeq(st, 1, depth), <<"exc", e>>)
                          /\ gens' = Finished(gs, fs, k)
                          /\ ip' = block.handler
                          /\ status' = status
  BY DEF Throw
<1>3. IsSeq(fs) /\ Len(fs) \in Nat /\ DOMAIN fs = 1..Len(fs) /\ Len(fs) \in 1..Len(fs)
  BY ShapeTop, SeqBasics
<1>4. CASE catching = {}
  BY <1>1, <1>2, <1>3, <1>4, AbortOK
<1>5. CASE catching # {}
  <2>1. k \in 1..Len(fs) /\ fs[k].tries # <<>>
    <3>1. catching \in SUBSET (1..Len(fs))
      BY <1>3
    <3>2. k \in catching
      BY <1>3, <1>5, <3>1, LastCatching
    <3>. QED
      BY <1>3, <3>2
  <2>. DEFINE f == fs[k]
              at == Point(fs, p, k)
              bs == Opens(f.fn)[at]
              D == DOMAIN codes[f.fn].depth
              last == bs[Len(bs)]
              h == [f EXCEPT !.tries = Front(@)]
              n == Len(gs)
  <2>. HIDE DEF e, catching, k
  <2>2. FrameOK(f, at, n)
    BY <2>1, ShapeTop
  <2>3. /\ f.fn \in DOMAIN codes /\ codes[f.fn].ok /\ at \in D
        /\ bs \in Seq(Blocks(D)) /\ bs # <<>>
        /\ f.tries = Rebase(bs, f.base) /\ f.base \in Nat
    BY <2>1, <2>2, BlocksOpen
  <2>4. /\ last.handler \in D /\ last.depth = FloorOf(bs) /\ last.depth \in Nat
        /\ Opens(f.fn)[last.handler] = Front(bs)
        /\ codes[f.fn].depth[last.handler] = last.depth + 1
    <3>1. Opens(f.fn)[at] # <<>>
      BY <2>3
    <3>. HIDE DEF f, at
    <3>. QED
      BY <2>2, <3>1, BlocksOpen DEF bs, D
  <2>. HIDE DEF bs, D, at
  <2>5. block = [handler |-> last.handler, depth |-> last.depth + f.base]
        /\ Rebase(Front(bs), f.base) = Front(f.tries)
    BY <2>3, RebaseFront
  <2>6. Len(st) \in Nat
    BY SeqBasics DEF Values
  <2>7. f.base + last.depth <= Len(st)
    <3>1. fs[Len(fs)].base \in Nat /\ FrameOK(fs[Len(fs)], p, n)
      BY <1>3, ShapeTop
    <3>2. FloorOf(Opens(fs[Len(fs)].fn)[p]) \in Nat
      BY <3>1, Standing DEF FrameOK
    <3>3. CASE k = Len(fs)
      <4>1. at = p
        BY <3>3 DEF at, Point
      <4>. QED
        BY <2>3, <2>4, <2>6, <3>3, <4>1 DEF bs
    <3>4. CASE k # Len(fs)
      <4>1. k \in 1..Len(fs) - 1 /\ k + 1 \in 1..Len(fs)
        <5>1. \A l \in Nat : \A j \in 1..l : j # l => j \in 1..l - 1 /\ j + 1 \in 1..l
          OBVIOUS
        <5>. QED
          BY <1>3, <2>1, <3>4, <5>1
      <4>2. at = Site(fs[k + 1]) /\ CallOK(f, fs[k + 1], at)
        BY <3>4, <4>1, ShapeTop DEF at, Point
      <4>3. fs[k + 1].base \in Nat /\ fs[k + 1].base <= fs[Len(fs)].base /\ fs[k + 1].kind \in Kinds
        BY <4>1, ShapeTop DEF FrameOK
      <4>4. f.base + FloorOf(bs) <= fs[k + 1].base
        BY <2>2, <4>2, <4>3, CalleeAbove DEF bs
      <4>5. fs[Len(fs)].base <= Len(st)
        <5>1. \A x, y, z \in Nat : z >= x + y => x <= z
          OBVIOUS
        <5>. QED
          BY <2>6, <3>1, <3>2, <5>1
      <4>6. \A x, y, u, v, z \in Nat : x + y <= u /\ u <= v /\ v <= z => x + y <= z
        OBVIOUS
      <4>7. f.base \in Nat /\ last.depth \in Nat /\ f.base + last.depth <= fs[k + 1].base
        BY <2>3, <2>4, <4>4
      <4>. HIDE DEF f, last
      <4>. QED
        BY <2>6, <3>1, <4>3, <4>5, <4>6, <4>7
    <3>. QED
      BY <3>3, <3>4
  <2>8. depth = f.base + last.depth /\ depth \in 0..Len(st)
    <3>1. block.depth = last.depth + f.base
      BY <2>5
    <3>. HIDE DEF block, last, f
    <3>. QED
      BY <2>3, <2>4, <2>6, <2>7, <3>1
  <2>. HIDE DEF depth
  <2>9. Values(stack', n) /\ Len(stack') = f.base + (last.depth + 1)
    <3>1. Values(SubSeq(st, 1, depth), n) /\ Len(SubSeq(st, 1, depth)) = depth
      BY <2>8, ValuesPrefix
    <3>2. Proper(<<"exc", e>>, n)
      BY <1>1 DEF Proper, e
    <3>3. Values(Append(SubSeq(st, 1, depth), <<"exc", e>>), n)
          /\ Len(Append(SubSeq(st, 1, depth), <<"exc", e>>)) = depth + 1
      <4>. DEFINE ps == SubSeq(st, 1, depth)
                  x == <<"exc", e>>
      <4>1. Values(ps, n) /\ Len(ps) = depth /\ Proper(x, n)
        BY <3>1, <3>2
      <4>. HIDE DEF ps, x, n
      <4>2. Values(Append(ps, x), n) /\ Len(Append(ps, x)) = Len(ps) + 1
        BY <4>1, ValuesAppend
      <4>. QED
        BY <4>1, <4>2 DEF ps, x
    <3>4. depth + 1 = f.base + (last.depth + 1)
      <4>1. \A x, y \in Nat : (x + y) + 1 = x + (y + 1)
        OBVIOUS
      <4>2. f.base \in Nat /\ last.depth \in Nat /\ depth = f.base + last.depth
        BY <2>3, <2>4, <2>8
      <4>. HIDE DEF f, last
      <4>. QED
        BY <4>1, <4>2
    <3>. QED
      BY <1>2, <1>5, <3>3, <3>4
  <2>10. /\ h.fn = f.fn /\ h.base = f.base /\ h.kind = f.kind /\ h.ret = f.ret /\ h.gen = f.gen
         /\ h.locals = f.locals /\ DOMAIN h = DOMAIN f /\ h.tries = Front(f.tries)
    BY <2>2 DEF FrameOK, FrameFields
  <2>. HIDE DEF h
  <2>11. FrameOK(h, last.handler, n)
    <3>1. h.tries = Rebase(Opens(h.fn)[last.handler], h.base)
      BY <2>4, <2>5, <2>10
    <3>2. last.handler \in DOMAIN codes[h.fn].depth
      BY <2>4, <2>10 DEF D
    <3>. QED
      BY <2>2, <2>10, <3>1, <3>2 DEF FrameOK
  <2>. DEFINE cut == SubSeq(fs, 1, k)
              ds == Finished(gs, fs, k)
  <2>12. Shape(cut, at, gs) /\ Len(cut) = k /\ cut[k] = f
    BY <2>1, ShapeCut DEF at
  <2>13. Running(cut, ds) /\ Generators(ds) /\ Len(ds) = n
    <3>1. k \in 0..Len(fs)
      BY <1>3, <2>1
    <3>. QED
      BY <1>3, <3>1, RunningCut
  <2>. HIDE DEF cut, ds
  <2>14. frames' = Replaced(cut, k, h)
    <3>1. cut[k] = f
      BY <2>12
    <3>. QED
      BY <1>2, <1>5, <3>1 DEF Unwound, Replaced, cut, h
  <2>15. IsSeq(cut)
    BY <2>12, ShapeTop
  <2>16. Shape(Replaced(cut, k, h), last.handler, gs)
    BY <2>10, <2>11, <2>12, ShapeMoved
  <2>17. Shape(Replaced(cut, k, h), last.handler, ds)
    BY <2>13, <2>16, ShapeMore, SeqBasics DEF Generators
  <2>18. Running(Replaced(cut, k, h), ds)
    BY <2>10, <2>12, <2>13, <2>15, RunningMoved
  <2>19. Len(Replaced(cut, k, h)) = k /\ Replaced(cut, k, h)[k] = h
    <3>1. k \in 1..k
      BY <1>3, <2>1
    <3>. QED
      BY <2>12, <2>15, <3>1, SeqReplaced
  <2>20. ip' = last.handler /\ gens' = ds
    BY <1>2, <1>5, <2>5 DEF ds
  <2>21. Consistent(frames', ip', gens', stack')
    BY <2>4, <2>9, <2>10, <2>13, <2>14, <2>17, <2>18, <2>19, <2>20 DEF Consistent
  <2>. QED
    BY <1>1, <1>2, <1>5, <2>21, Stands DEF e
<1>. QED
  BY <1>4, <1>5
-----------------------------------------------------------------------------
(* An instruction is about to run.                                         *)

LEMMA Ready ==
  ASSUME IInv, StructuredCode, status = "run"
  PROVE  /\ Fixed /\ Shape(frames, ip, gens) /\ Running(frames, gens) /\ Generators(gens)
         /\ Values(stack, Len(gens)) /\ IsSeq(stack) /\ N \in Nat
         /\ IsSeq(gens) /\ Len(gens) \in Nat
         /\ IsSeq(frames) /\ Len(frames) \in Nat /\ Len(frames) \in 1..Len(frames)
         /\ FrameOK(Top, ip, Len(gens)) /\ Top.base \in Nat
         /\ Top.fn \in DOMAIN codes /\ codes[Top.fn].ok /\ Current = codes[Top.fn]
         /\ ip \in DOMAIN Current.depth /\ ip \in Nat /\ Current.depth[ip] \in Nat
         /\ N = Top.base + Current.depth[ip]
         /\ WellFormed(Current.code[ip]) /\ Needs(Current.code[ip]) \in Nat
         /\ FloorOf(Opens(Top.fn)[ip]) \in Nat
         /\ N - Needs(Current.code[ip]) >= Top.base + FloorOf(Opens(Top.fn)[ip])
         /\ exc \notin {"start", "run"}
<1>1. Fixed /\ Consistent(frames, ip, gens, stack) /\ exc \notin {"start", "run"}
  BY DEF IInv
<1>2. /\ Shape(frames, ip, gens) /\ Running(frames, gens) /\ Generators(gens)
      /\ Values(stack, Len(gens)) /\ IsSeq(stack) /\ IsSeq(gens)
  BY <1>1 DEF Consistent, Values, Generators
<1>3. N \in Nat /\ Len(gens) \in Nat
  BY <1>2, SeqBasics DEF N
<1>4. /\ IsSeq(frames) /\ Len(frames) \in Nat /\ Len(frames) \in 1..Len(frames)
      /\ FrameOK(Top, ip, Len(gens))
  BY <1>2, ShapeTop, SeqBasics DEF Top
<1>5. /\ Top.base \in Nat /\ Top.fn \in DOMAIN codes /\ codes[Top.fn].ok /\ Current = codes[Top.fn]
      /\ ip \in DOMAIN Current.depth
  BY <1>4 DEF FrameOK, Current
<1>6. N = Top.base + Current.depth[ip]
  BY <1>1 DEF Consistent, N, Current, Top
<1>7. /\ WellFormed(Current.code[ip]) /\ Needs(Current.code[ip]) \in Nat
      /\ ip \in Nat /\ Current.depth[ip] \in Nat
      /\ FloorOf(Opens(Top.fn)[ip]) \in Nat
      /\ Current.depth[ip] - Needs(Current.code[ip]) >= FloorOf(Opens(Top.fn)[ip])
  BY <1>1, <1>5, Standing
<1>8. N - Needs(Current.code[ip]) >= Top.base + FloorOf(Opens(Top.fn)[ip])
  BY <1>3, <1>5, <1>6, <1>7
<1>. QED
  BY <1>1, <1>2, <1>3, <1>4, <1>5, <1>6, <1>7, <1>8

LEMMA CutOK ==
  ASSUME IInv, StructuredCode, status = "run", NEW n \in Nat, n <= Needs(Current.code[ip])
  PROVE  /\ Values(Cut(n), Len(gens)) /\ IsSeq(Cut(n)) /\ Len(Cut(n)) = N - n
         /\ N - n \in Nat /\ N - n >= Top.base + FloorOf(Opens(Top.fn)[ip])
         /\ n > 0 => Proper(stack[N], Len(gens))
         /\ n > 1 => Proper(stack[N - 1], Len(gens))
<1>1. /\ N \in Nat /\ Needs(Current.code[ip]) \in Nat /\ Top.base \in Nat
      /\ FloorOf(Opens(Top.fn)[ip]) \in Nat
      /\ N - Needs(Current.code[ip]) >= Top.base + FloorOf(Opens(Top.fn)[ip])
      /\ Values(stack, Len(gens))
  BY Ready
<1>2. N - n \in 0..N /\ N - n >= Top.base + FloorOf(Opens(Top.fn)[ip])
  BY <1>1
<1>3. Values(Cut(n), Len(gens)) /\ Len(Cut(n)) = N - n
  BY <1>1, <1>2, ValuesPrefix DEF Cut, N
<1>4. (n > 0 => N \in 1..N) /\ (n > 1 => N - 1 \in 1..N)
  BY <1>1, <1>2
<1>5. \A i \in 1..N : Proper(stack[i], Len(gens))
  BY <1>1 DEF Values, N
<1>. QED
  BY <1>1, <1>2, <1>3, <1>4, <1>5 DEF Values

LEMMA CutOne ==
  ASSUME IInv, StructuredCode, status = "run", Needs(Current.code[ip]) \in {1, 2}
  PROVE  /\ Values(Cut(1), Len(gens)) /\ Len(Cut(1)) = N - 1 /\ N \in Nat /\ N - 1 \in Nat
         /\ N - 1 >= Top.base + FloorOf(Opens(Top.fn)[ip])
         /\ Proper(stack[N], Len(gens))
<1>1. 1 \in Nat /\ 1 <= Needs(Current.code[ip]) /\ 1 > 0
  OBVIOUS
<1>2. N \in Nat
  BY Ready
<1>. QED
  BY <1>1, <1>2, CutOK

LEMMA CutTwo ==
  ASSUME IInv, StructuredCode, status = "run", Needs(Current.code[ip]) = 2
  PROVE  /\ Values(Cut(2), Len(gens)) /\ Len(Cut(2)) = N - 2 /\ N \in Nat
         /\ Proper(stack[N], Len(gens)) /\ Proper(stack[N - 1], Len(gens))
<1>1. 2 \in Nat /\ 2 <= Needs(Current.code[ip]) /\ 2 > 0 /\ 2 > 1
  OBVIOUS
<1>2. N \in Nat
  BY Ready
<1>. QED
  BY <1>1, <1>2, CutOK

(* An error in the current activation.                                     *)
LEMMA ErrorOK ==
  ASSUME IInv, StructuredCode, status = "run", NEW kind, kind \notin {"start", "run"},
         NEW st, Values(st, Len(gens)), Len(st) >= Top.base + FloorOf(Opens(Top.fn)[ip]),
         Error(kind, st)
  PROVE  IInv'
<1>1. Throw(kind, exc, frames, gens, st)
  BY DEF Error
<1>. QED
  BY <1>1, Ready, ThrowOK DEF Top

LEMMA ErrorCut ==
  ASSUME IInv, StructuredCode, status = "run", NEW kind, kind \notin {"start", "run"},
         NEW n \in Nat, n <= Needs(Current.code[ip]), Error(kind, Cut(n))
  PROVE  IInv'
BY CutOK, ErrorOK

LEMMA ErrorWhole ==
  ASSUME IInv, StructuredCode, status = "run", NEW kind, kind \notin {"start", "run"},
         Error(kind, stack)
  PROVE  IInv'
<1>1. /\ Values(stack, Len(gens)) /\ N \in Nat /\ Needs(Current.code[ip]) \in Nat
      /\ Top.base \in Nat /\ FloorOf(Opens(Top.fn)[ip]) \in Nat
      /\ N - Needs(Current.code[ip]) >= Top.base + FloorOf(Opens(Top.fn)[ip])
  BY Ready
<1>2. N >= Top.base + FloorOf(Opens(Top.fn)[ip])
  BY <1>1
<1>. QED
  BY <1>1, <1>2, ErrorOK DEF N

(* The same activations, of which the innermost one stands elsewhere.      *)
LEMMA ShapeGoes ==
  ASSUME NEW fs, NEW p, NEW gs, Shape(fs, p, gs), NEW q,
         q \in DOMAIN codes[fs[Len(fs)].fn].depth,
         Opens(fs[Len(fs)].fn)[q] = Opens(fs[Len(fs)].fn)[p]
  PROVE  Shape(fs, q, gs)
<1>1. IsSeq(fs) /\ Len(fs) \in 1..Len(fs) /\ FrameOK(fs[Len(fs)], p, Len(gs))
  BY ShapeTop
<1>2. FrameOK(fs[Len(fs)], q, Len(gs))
  BY <1>1 DEF FrameOK
<1>3. Replaced(fs, Len(fs), fs[Len(fs)]) = fs
  <2>1. /\ IsSeq(Replaced(fs, Len(fs), fs[Len(fs)])) /\ Len(Replaced(fs, Len(fs), fs[Len(fs)])) = Len(fs)
        /\ \A i \in 1..Len(fs) : Replaced(fs, Len(fs), fs[Len(fs)])[i] = fs[i]
    BY <1>1, SeqReplaced
  <2>. QED
    BY <1>1, <2>1, SeqEqual
<1>4. Shape(Replaced(fs, Len(fs), fs[Len(fs)]), q, gs)
  BY <1>2, ShapeMoved
<1>. QED
  BY <1>3, <1>4

(* The current activation goes on at next with the operands st.            *)
Stays(st, next) ==
  /\ stack' = st /\ ip' = next
  /\ pid' = pid /\ codes' = codes /\ frames' = frames /\ gens' = gens /\ exc' = exc
  /\ status' = status

LEMMA GoStays ==
  ASSUME NEW st, NEW next, Go(st, next)
  PROVE  Stays(st, next)
BY DEF Go, Stays

LEMMA GoesOn ==
  ASSUME IInv, StructuredCode, status = "run", NEW st, NEW next,
         next \in DOMAIN Current.depth, Opens(Top.fn)[next] = Opens(Top.fn)[ip],
         Values(st, Len(gens)), Len(st) = Top.base + Current.depth[next], Stays(st, next)
  PROVE  IInv'
<1>1. /\ Fixed /\ Shape(frames, ip, gens) /\ Running(frames, gens) /\ Generators(gens)
      /\ Current = codes[Top.fn] /\ exc \notin {"start", "run"}
  BY Ready
<1>2. Shape(frames, next, gens)
  BY <1>1, ShapeGoes DEF Top
<1>3. Consistent(frames, next, gens, st)
  BY <1>1, <1>2 DEF Consistent, Top
<1>4. /\ pid' = pid /\ codes' = codes /\ exc' = exc /\ status' = "run"
      /\ frames' = frames /\ ip' = next /\ gens' = gens /\ stack' = st
  BY DEF Stays
<1>5. Consistent(frames', ip', gens', stack')
  BY <1>3, <1>4
<1>. QED
  BY <1>1, <1>4, <1>5, Stands

LEMMA Onward ==
  ASSUME IInv, StructuredCode, status = "run",
         Current.code[ip].op \notin Ends \cup {"JUMP", "SETUP_TRY", "POP_TRY"},
         NEW st, Values(st, Len(gens)), Len(st) = N + Effect(Current.code[ip]),
         Effect(Current.code[ip]) \in Int, Stays(st, ip + 1)
  PROVE  IInv'
<1>1. /\ Fixed /\ Current = codes[Top.fn] /\ Top.fn \in DOMAIN codes /\ codes[Top.fn].ok
      /\ ip \in DOMAIN Current.depth /\ N = Top.base + Current.depth[ip]
      /\ Top.base \in Nat /\ Current.depth[ip] \in Nat
  BY Ready
<1>2. /\ ip + 1 \in DOMAIN Current.depth
      /\ Current.depth[ip + 1] = Current.depth[ip] + Effect(Current.code[ip])
      /\ Opens(Top.fn)[ip + 1] = Nested(codes[Top.fn], ip, Opens(Top.fn)[ip])
  BY <1>1, FallThrough
<1>3. Opens(Top.fn)[ip + 1] = Opens(Top.fn)[ip]
  BY <1>1, <1>2 DEF Nested
<1>4. Len(st) = Top.base + Current.depth[ip + 1]
  BY <1>1, <1>2
<1>. QED
  BY <1>2, <1>3, <1>4, GoesOn

LEMMA Sideways ==
  ASSUME IInv, StructuredCode, status = "run", Current.code[ip].op \in Branches,
         NEW st, Values(st, Len(gens)),
         Len(st) = Top.base + BranchDepth(Current.code[ip], Current.depth[ip]), Stays(st, Arg)
  PROVE  IInv'
<1>1. /\ Fixed /\ Current = codes[Top.fn] /\ Top.fn \in DOMAIN codes /\ codes[Top.fn].ok
      /\ ip \in DOMAIN Current.depth
  BY Ready
<1>2. /\ Arg \in DOMAIN Current.depth
      /\ Current.depth[Arg] = BranchDepth(Current.code[ip], Current.depth[ip])
      /\ Opens(Top.fn)[Arg] = Opens(Top.fn)[ip]
  BY <1>1, Branching DEF Arg
<1>. QED
  BY <1>2, GoesOn
-----------------------------------------------------------------------------
(* The instructions, one by one.                                           *)

LEMMA Harmless ==
  ASSUME NEW n
  PROVE  /\ Proper(None, n) /\ Proper(Manager, n) /\ Proper(Unbound, n)
         /\ \A x : /\ Proper(<<"bool", x>>, n) /\ Proper(<<"list", x>>, n)
                   /\ Proper(<<"native", x>>, n) /\ Proper(<<"int", x>>, n)
         /\ \A x, y : Proper(<<"range", x, y>>, n)
BY DEF Proper, None, Manager, Unbound

LEMMA LoadStep ==
  ASSUME IInv, StructuredCode, Load
  PROVE  IInv'
<1>. DEFINE st == Append(stack, Arg)
<1>1. status = "run" /\ Current.code[ip].op = "LOAD" /\ Stays(st, ip + 1)
  BY GoStays DEF Load, Fetch
<1>2. WellFormed(Current.code[ip]) /\ Len(gens) \in Nat /\ Values(stack, Len(gens)) /\ N \in Nat
  BY <1>1, Ready
<1>3. Proper(Arg, Len(gens))
  BY <1>1, <1>2, ValuesMore DEF WellFormed, Arg
<1>4. Values(st, Len(gens)) /\ Len(st) = N + 1
  BY <1>2, <1>3, ValuesAppend DEF N
<1>. HIDE DEF st
<1>5. Effect(Current.code[ip]) = 1
  BY <1>1, EffectIs
<1>. QED
  BY <1>1, <1>4, <1>5, Onward DEF Ends

LEMMA LoadNameStep ==
  ASSUME IInv, StructuredCode, LoadName
  PROVE  IInv'
<1>1. status = "run" /\ Current.code[ip].op = "LOAD_NAME"
  BY DEF LoadName, Fetch
<1>2. /\ WellFormed(Current.code[ip]) /\ Len(gens) \in Nat /\ Values(stack, Len(gens)) /\ N \in Nat
      /\ FrameOK(Top, ip, Len(gens))
  BY <1>1, Ready
<1>3. Proper(Top.locals[Arg], Len(gens))
  BY <1>1, <1>2 DEF WellFormed, Arg, FrameOK, LocalsOK
<1>4. CASE Error("NameError", stack)
  BY <1>1, <1>4, ErrorWhole
<1>5. CASE Go(Append(stack, Top.locals[Arg]), ip + 1)
  <2>. DEFINE st == Append(stack, Top.locals[Arg])
  <2>1. Values(st, Len(gens)) /\ Len(st) = N + 1
    BY <1>2, <1>3, ValuesAppend DEF N
  <2>3. Stays(st, ip + 1)
    BY <1>5, GoStays
  <2>. HIDE DEF st
  <2>2. Effect(Current.code[ip]) = 1
    BY <1>1, EffectIs
  <2>. QED
    BY <1>1, <2>1, <2>2, <2>3, Onward DEF Ends
<1>. QED
  BY <1>4, <1>5 DEF LoadName

LEMMA PopStep ==
  ASSUME IInv, StructuredCode, PopOp
  PROVE  IInv'
<1>1. status = "run" /\ Current.code[ip].op = "POP" /\ Stays(Cut(1), ip + 1)
  BY GoStays DEF PopOp, Fetch
<1>2. Needs(Current.code[ip]) = 1 /\ Effect(Current.code[ip]) = -1
  BY <1>1, NeedsIs, EffectIs
<1>3. Values(Cut(1), Len(gens)) /\ Len(Cut(1)) = N - 1
  BY <1>1, <1>2, CutOK
<1>4. N - 1 = N + (-1)
  BY <1>1, Ready
<1>. QED
  BY <1>1, <1>2, <1>3, <1>4, Onward DEF Ends

LEMMA DupStep ==
  ASSUME IInv, StructuredCode, Dup
  PROVE  IInv'
<1>. DEFINE st == Append(stack, stack[N])
<1>1. status = "run" /\ Current.code[ip].op = "DUP" /\ Stays(st, ip + 1)
  BY GoStays DEF Dup, Fetch
<1>2. Needs(Current.code[ip]) = 1 /\ Effect(Current.code[ip]) = 1
  BY <1>1, NeedsIs, EffectIs
<1>3. Proper(stack[N], Len(gens)) /\ Values(stack, Len(gens))
  BY <1>1, <1>2, CutOK, Ready
<1>4. Values(st, Len(gens)) /\ Len(st) = N + 1
  BY <1>3, ValuesAppend DEF N
<1>. HIDE DEF st
<1>. QED
  BY <1>1, <1>2, <1>4, Onward DEF Ends

LEMMA RotTwoStep ==
  ASSUME IInv, StructuredCode, RotTwo
  PROVE  IInv'
<1>. DEFINE st == Cut(2) \o <<stack[N], stack[N - 1]>>
<1>1. status = "run" /\ Current.code[ip].op = "ROT_TWO" /\ Stays(st, ip + 1)
  BY GoStays DEF RotTwo, Fetch
<1>2. Needs(Current.code[ip]) = 2 /\ Effect(Current.code[ip]) = 0
  BY <1>1, NeedsIs, EffectIs
<1>3. /\ Values(Cut(2), Len(gens)) /\ Len(Cut(2)) = N - 2
      /\ Proper(stack[N], Len(gens)) /\ Proper(stack[N - 1], Len(gens)) /\ N \in Nat
  BY <1>1, <1>2, CutTwo
<1>4. Values(<<stack[N], stack[N - 1]>>, Len(gens)) /\ Len(<<stack[N], stack[N - 1]>>) = 2
  BY <1>3, ValuesPair
<1>5. Values(st, Len(gens)) /\ Len(st) = (N - 2) + 2
  BY <1>3, <1>4, ValuesConcat
<1>. HIDE DEF st
<1>6. (N - 2) + 2 = N + 0
  BY <1>3
<1>. QED
  BY <1>1, <1>2, <1>5, <1>6, Onward DEF Ends

LEMMA EqualStep ==
  ASSUME IInv, StructuredCode, EqualOp
  PROVE  IInv'
<1>. DEFINE v == <<"bool", stack[N - 1] = stack[N]>>
            st == Append(Cut(2), v)
<1>1. status = "run" /\ Current.code[ip].op = "EQUAL" /\ Stays(st, ip + 1)
  BY GoStays DEF EqualOp, Fetch
<1>2. Needs(Current.code[ip]) = 2 /\ Effect(Current.code[ip]) = -1
  BY <1>1, NeedsIs, EffectIs
<1>3. Values(Cut(2), Len(gens)) /\ Len(Cut(2)) = N - 2 /\ N \in Nat
  BY <1>1, <1>2, CutTwo
<1>4. Proper(v, Len(gens))
  BY Harmless
<1>. HIDE DEF v
<1>5. Values(st, Len(gens)) /\ Len(st) = (N - 2) + 1
  BY <1>3, <1>4, ValuesAppend
<1>. HIDE DEF st
<1>6. (N - 2) + 1 = N + (-1)
  BY <1>3
<1>. QED
  BY <1>1, <1>2, <1>5, <1>6, Onward DEF Ends

LEMMA JumpStep ==
  ASSUME IInv, StructuredCode, Jump
  PROVE  IInv'
<1>1. status = "run" /\ Current.code[ip].op = "JUMP" /\ Stays(stack, Arg)
  BY GoStays DEF Jump, Fetch
<1>2. /\ Values(stack, Len(gens)) /\ Current.depth[ip] \in Nat /\ N = Top.base + Current.depth[ip]
  BY <1>1, Ready
<1>3. Effect(Current.code[ip]) = 0
  BY <1>1, EffectIs
<1>4. BranchDepth(Current.code[ip], Current.depth[ip]) = Current.depth[ip]
  BY <1>1, <1>2, <1>3 DEF BranchDepth
<1>. QED
  BY <1>1, <1>2, <1>4, Sideways DEF Branches, N

(* A conditional jump that takes one operand whether it jumps or not.      *)
LEMMA Conditional ==
  ASSUME IInv, StructuredCode, status = "run",
         Current.code[ip].op \in {"JUMP_IF_FALSE", "CHECK_EXCEPT"},
         NEW next, next \in {Arg, ip + 1}, Go(Cut(1), next)
  PROVE  IInv'
<1>1. Needs(Current.code[ip]) \in {1, 2} /\ Effect(Current.code[ip]) = -1
  BY NeedsIs, EffectIs
<1>2. /\ Values(Cut(1), Len(gens)) /\ Len(Cut(1)) = N - 1 /\ N \in Nat
      /\ N = Top.base + Current.depth[ip] /\ Top.base \in Nat /\ Current.depth[ip] \in Nat
  BY <1>1, CutOne, Ready
<1>3. Stays(Cut(1), next)
  BY GoStays
<1>4. CASE next = ip + 1
  <2>1. N - 1 = N + (-1)
    BY <1>2
  <2>. QED
    BY <1>1, <1>2, <1>3, <1>4, <2>1, Onward DEF Ends
<1>5. CASE next = Arg
  <2>1. BranchDepth(Current.code[ip], Current.depth[ip]) = Current.depth[ip] + (-1)
    BY <1>1 DEF BranchDepth
  <2>2. N - 1 = Top.base + (Current.depth[ip] + (-1))
    BY <1>2
  <2>. QED
    BY <1>2, <1>3, <1>5, <2>1, <2>2, Sideways DEF Branches
<1>. QED
  BY <1>4, <1>5

LEMMA JumpIfFalseStep ==
  ASSUME IInv, StructuredCode, JumpIfFalse
  PROVE  IInv'
<1>1. status = "run" /\ Current.code[ip].op = "JUMP_IF_FALSE"
  BY DEF JumpIfFalse, Fetch
<1>2. \E next \in {Arg, ip + 1} : Go(Cut(1), next)
  BY DEF JumpIfFalse
<1>. QED
  BY <1>1, <1>2, Conditional

LEMMA CheckExceptStep ==
  ASSUME IInv, StructuredCode, CheckExcept
  PROVE  IInv'
<1>1. status = "run" /\ Current.code[ip].op = "CHECK_EXCEPT"
  BY DEF CheckExcept, Fetch
<1>2. \E next \in {Arg, ip + 1} : Go(Cut(1), next)
  BY DEF CheckExcept
<1>. QED
  BY <1>1, <1>2, Conditional

LEMMA LoadMethodStep ==
  ASSUME IInv, StructuredCode, LoadMethod
  PROVE  IInv'
<1>1. PICK m \in {"enter", "exit"} :
        /\ Fetch(IF m = "enter" THEN "LOAD_ENTER" ELSE "LOAD_EXIT")
        /\ IF stack[N] = Manager THEN Go(Append(Cut(1), Native(m)), ip + 1)
           ELSE Error("TypeError", Cut(1))
  BY DEF LoadMethod
<1>2. status = "run" /\ Current.code[ip].op \in {"LOAD_ENTER", "LOAD_EXIT"}
  BY <1>1 DEF Fetch
<1>3. Needs(Current.code[ip]) = 1 /\ Effect(Current.code[ip]) = 0
  BY <1>2, NeedsIs, EffectIs
<1>4. CASE Error("TypeError", Cut(1))
  BY <1>2, <1>3, <1>4, ErrorCut
<1>5. CASE Go(Append(Cut(1), Native(m)), ip + 1)
  <2>1. Values(Cut(1), Len(gens)) /\ Len(Cut(1)) = N - 1 /\ N \in Nat
    BY <1>2, <1>3, CutOK, Ready
  <2>2. Proper(Native(m), Len(gens))
    BY Harmless DEF Native
  <2>. DEFINE st == Append(Cut(1), Native(m))
  <2>3. Values(st, Len(gens)) /\ Len(st) = (N - 1) + 1
    BY <2>1, <2>2, ValuesAppend
  <2>5. Stays(st, ip + 1)
    BY <1>5, GoStays
  <2>. HIDE DEF st
  <2>4. (N - 1) + 1 = N + 0
    BY <2>1
  <2>. QED
    BY <1>2, <1>3, <2>3, <2>4, <2>5, Onward DEF Ends
<1>. QED
  BY <1>1, <1>4, <1>5

LEMMA RaiseStep ==
  ASSUME IInv, StructuredCode, RaiseOp
  PROVE  IInv'
<1>. DEFINE v == stack[N]
            t == IF v = None THEN exc ELSE v[2]
            raised == v[1] \in {"type", "exc"} \/ (v = None /\ exc # "none")
<1>1. status = "run" /\ Current.code[ip].op = "RAISE"
  BY DEF RaiseOp, Fetch
<1>2. IF raised THEN Throw(Kind(t), t, frames, gens, Cut(1)) ELSE Error("TypeError", Cut(1))
  BY DEF RaiseOp
<1>3. Needs(Current.code[ip]) = 1
  BY <1>1, NeedsIs
<1>4. /\ Values(Cut(1), Len(gens)) /\ Len(Cut(1)) >= Top.base + FloorOf(Opens(Top.fn)[ip])
      /\ Proper(v, Len(gens))
  BY <1>1, <1>3, CutOK
<1>5. exc \notin {"start", "run"}
  BY <1>1, Ready
<1>6. CASE raised
  <2>1. t \notin {"start", "run"}
    BY <1>4, <1>5, <1>6 DEF Proper
  <2>. HIDE DEF t
  <2>2. Kind(t) \notin {"start", "run"}
    BY <2>1 DEF Kind
  <2>. QED
    BY <1>1, <1>2, <1>4, <1>6, <2>1, <2>2, Ready, ThrowOK DEF Top
<1>7. CASE ~ raised
  BY <1>1, <1>2, <1>3, <1>7, ErrorCut
<1>. QED
  BY <1>6, <1>7
-----------------------------------------------------------------------------
(* Instructions that change the current activation.                        *)

LEMMA TopChanged ==
  ASSUME IInv, StructuredCode, status = "run", NEW f, NEW q, NEW st,
         f.fn = Top.fn, f.base = Top.base, f.kind = Top.kind, f.ret = Top.ret, f.gen = Top.gen,
         FrameOK(f, q, Len(gens)), Values(st, Len(gens)), Len(st) = Top.base + Current.depth[q],
         frames' = Replaced(frames, Len(frames), f), ip' = q, stack' = st,
         pid' = pid, codes' = codes, gens' = gens, exc' = exc, status' = status
  PROVE  IInv'
<1>1. /\ Fixed /\ Shape(frames, ip, gens) /\ Running(frames, gens) /\ Generators(gens)
      /\ IsSeq(frames) /\ Len(frames) \in 1..Len(frames)
      /\ Current = codes[Top.fn] /\ exc \notin {"start", "run"}
  BY Ready
<1>. DEFINE fs == Replaced(frames, Len(frames), f)
<1>2. Shape(fs, q, gens)
  BY <1>1, ShapeMoved DEF Top
<1>3. Running(fs, gens)
  BY <1>1, RunningMoved DEF Top
<1>4. Len(fs) = Len(frames) /\ fs[Len(frames)] = f
  BY <1>1, SeqReplaced
<1>. HIDE DEF fs
<1>5. Consistent(fs, q, gens, st)
  BY <1>1, <1>2, <1>3, <1>4 DEF Consistent
<1>6. Consistent(frames', ip', gens', stack')
  BY <1>5 DEF fs
<1>. QED
  BY <1>1, <1>6, Stands

LEMMA StoreNameStep ==
  ASSUME IInv, StructuredCode, StoreName
  PROVE  IInv'
<1>. DEFINE L == Len(frames)
            f == [Top EXCEPT !.locals[Arg] = stack[N]]
<1>1. /\ status = "run" /\ Current.code[ip].op = "STORE_NAME"
      /\ frames' = [frames EXCEPT ![L].locals[Arg] = stack[N]]
      /\ stack' = Cut(1) /\ ip' = ip + 1
      /\ pid' = pid /\ codes' = codes /\ gens' = gens /\ exc' = exc /\ status' = status
  BY DEF StoreName, Fetch
<1>2. Needs(Current.code[ip]) = 1 /\ Effect(Current.code[ip]) = -1
  BY <1>1, NeedsIs, EffectIs
<1>3. Values(Cut(1), Len(gens)) /\ Len(Cut(1)) = N - 1 /\ Proper(stack[N], Len(gens))
  BY <1>1, <1>2, CutOK
<1>4. /\ N \in Nat /\ N = Top.base + Current.depth[ip] /\ Top.base \in Nat /\ Current.depth[ip] \in Nat
      /\ Fixed /\ Current = codes[Top.fn] /\ Top.fn \in DOMAIN codes /\ codes[Top.fn].ok
      /\ ip \in DOMAIN Current.depth /\ FrameOK(Top, ip, Len(gens)) /\ L \in 1..L
      /\ IsSeq(frames) /\ WellFormed(Current.code[ip])
  BY <1>1, Ready
<1>5. /\ ip + 1 \in DOMAIN Current.depth
      /\ Current.depth[ip + 1] = Current.depth[ip] + (-1)
      /\ Opens(Top.fn)[ip + 1] = Nested(codes[Top.fn], ip, Opens(Top.fn)[ip])
  BY <1>1, <1>2, <1>4, FallThrough DEF Ends
<1>6. Opens(Top.fn)[ip + 1] = Opens(Top.fn)[ip]
  BY <1>1, <1>4, <1>5 DEF Nested
<1>7. frames' = Replaced(frames, L, f)
  BY <1>1, <1>4, SeqBasics DEF Replaced, Top
<1>8. /\ f.fn = Top.fn /\ f.base = Top.base /\ f.kind = Top.kind /\ f.ret = Top.ret /\ f.gen = Top.gen
      /\ f.tries = Top.tries /\ f.locals = [Top.locals EXCEPT ![Arg] = stack[N]]
      /\ DOMAIN f = DOMAIN Top
  BY <1>4 DEF FrameOK, FrameFields
<1>9. LocalsOK(f.locals, Len(gens))
  BY <1>3, <1>4, <1>8 DEF FrameOK, LocalsOK
<1>. HIDE DEF f
<1>10. FrameOK(f, ip + 1, Len(gens))
  BY <1>4, <1>5, <1>6, <1>8, <1>9 DEF FrameOK
<1>11. N - 1 = Top.base + Current.depth[ip + 1]
  BY <1>4, <1>5
<1>. QED
  BY <1>1, <1>3, <1>4, <1>7, <1>8, <1>10, <1>11, TopChanged

(* Try blocks are opened and closed without a change of the operands.      *)
Retried(f, ts) == [f EXCEPT !.tries = ts]

LEMMA BlocksChanged ==
  ASSUME IInv, StructuredCode, status = "run", NEW ts,
         Current.code[ip].op \in {"SETUP_TRY", "POP_TRY"},
         ts = Rebase(Opens(Top.fn)[ip + 1], Top.base),
         frames' = Replaced(frames, Len(frames), Retried(Top, ts)), ip' = ip + 1,
         pid' = pid, codes' = codes, stack' = stack, gens' = gens, exc' = exc, status' = status
  PROVE  IInv'
<1>. DEFINE L == Len(frames)
            f == Retried(Top, ts)
<1>1. Effect(Current.code[ip]) = 0
  BY EffectIs
<1>2. /\ Values(stack, Len(gens)) /\ IsSeq(frames)
      /\ N \in Nat /\ N = Top.base + Current.depth[ip] /\ Top.base \in Nat /\ Current.depth[ip] \in Nat
      /\ Fixed /\ Current = codes[Top.fn] /\ Top.fn \in DOMAIN codes /\ codes[Top.fn].ok
      /\ ip \in DOMAIN Current.depth /\ FrameOK(Top, ip, Len(gens)) /\ L \in 1..L
  BY Ready
<1>3. ip + 1 \in DOMAIN Current.depth /\ Current.depth[ip + 1] = Current.depth[ip] + 0
  BY <1>1, <1>2, FallThrough DEF Ends
<1>5. /\ f.fn = Top.fn /\ f.base = Top.base /\ f.kind = Top.kind /\ f.ret = Top.ret /\ f.gen = Top.gen
      /\ f.tries = ts /\ f.locals = Top.locals /\ DOMAIN f = DOMAIN Top
  BY <1>2 DEF FrameOK, FrameFields, Retried
<1>4. frames' = Replaced(frames, L, f)
  OBVIOUS
<1>. HIDE DEF f
<1>6. FrameOK(f, ip + 1, Len(gens))
  BY <1>2, <1>3, <1>5 DEF FrameOK
<1>7. Len(stack) = Top.base + Current.depth[ip + 1]
  BY <1>2, <1>3 DEF N
<1>. QED
  BY <1>2, <1>4, <1>5, <1>6, <1>7, TopChanged

LEMMA SetupTryStep ==
  ASSUME IInv, StructuredCode, SetupTry
  PROVE  IInv'
<1>1. status = "run" /\ Current.code[ip].op = "SETUP_TRY"
  BY DEF SetupTry, Fetch
<1>2. CASE Error("ValueError", stack)
  BY <1>1, <1>2, ErrorWhole
<1>3. CASE /\ frames' = [frames EXCEPT ![Len(frames)].tries = Append(@, [handler |-> Arg, depth |-> N])]
           /\ ip' = ip + 1 /\ UNCHANGED <<pid, codes, stack, gens, exc, out, status>>
  <2>. DEFINE ts == Append(Top.tries, [handler |-> Arg, depth |-> N])
              bs == Opens(Top.fn)[ip]
              D == DOMAIN codes[Top.fn].depth
              d == codes[Top.fn].depth[ip]
  <2>1. /\ Fixed /\ Current = codes[Top.fn] /\ Top.fn \in DOMAIN codes /\ codes[Top.fn].ok
        /\ ip \in D /\ FrameOK(Top, ip, Len(gens)) /\ N = Top.base + d /\ Top.base \in Nat /\ d \in Nat
    BY <1>1, Ready
  <2>2. bs \in Seq(Blocks(D)) /\ Top.tries = Rebase(bs, Top.base)
    BY <2>1, BlocksOpen
  <2>3. Arg \in D
    BY <1>1, <2>1, Branching DEF Branches, Arg
  <2>4. Opens(Top.fn)[ip + 1] = Nested(codes[Top.fn], ip, bs)
    BY <1>1, <2>1, FallThrough DEF Ends
  <2>5. Nested(codes[Top.fn], ip, bs) = Append(bs, [handler |-> Arg, depth |-> d])
    BY <1>1, <2>1 DEF Nested, Arg
  <2>. HIDE DEF bs, D, d
  <2>6. Rebase(Append(bs, [handler |-> Arg, depth |-> d]), Top.base)
          = Append(Rebase(bs, Top.base), [handler |-> Arg, depth |-> d + Top.base])
    BY <2>1, <2>2, <2>3, RebaseAppend
  <2>7. d + Top.base = N
    BY <2>1
  <2>8. ts = Rebase(Opens(Top.fn)[ip + 1], Top.base)
    BY <2>2, <2>4, <2>5, <2>6, <2>7 DEF bs
  <2>9. /\ frames' = Replaced(frames, Len(frames), Retried(Top, ts)) /\ ip' = ip + 1
        /\ pid' = pid /\ codes' = codes /\ stack' = stack /\ gens' = gens /\ exc' = exc
        /\ status' = status
    BY <1>3 DEF Top, Retried, Replaced
  <2>. HIDE DEF ts
  <2>. QED
    BY <1>1, <2>8, <2>9, BlocksChanged
<1>. QED
  BY <1>2, <1>3 DEF SetupTry

LEMMA PopTryStep ==
  ASSUME IInv, StructuredCode, PopTry
  PROVE  IInv'
<1>. DEFINE ts == Front(Top.tries)
            bs == Opens(Top.fn)[ip]
            D == DOMAIN codes[Top.fn].depth
<1>1. /\ status = "run" /\ Current.code[ip].op = "POP_TRY" /\ Top.tries # <<>>
      /\ frames' = Replaced(frames, Len(frames), Retried(Top, ts)) /\ ip' = ip + 1
      /\ pid' = pid /\ codes' = codes /\ stack' = stack /\ gens' = gens /\ exc' = exc
      /\ status' = status
  BY DEF PopTry, Fetch, Top, Retried, Replaced
<1>2. /\ Fixed /\ Current = codes[Top.fn] /\ Top.fn \in DOMAIN codes /\ codes[Top.fn].ok
      /\ ip \in D /\ FrameOK(Top, ip, Len(gens)) /\ Top.base \in Nat
  BY <1>1, Ready
<1>3. bs \in Seq(Blocks(D)) /\ Top.tries = Rebase(bs, Top.base) /\ bs # <<>>
  BY <1>1, <1>2, BlocksOpen
<1>4. Opens(Top.fn)[ip + 1] = Nested(codes[Top.fn], ip, bs)
  BY <1>1, <1>2, FallThrough DEF Ends
<1>5. Nested(codes[Top.fn], ip, bs) = Front(bs)
  BY <1>1, <1>2, <1>3 DEF Nested
<1>. HIDE DEF bs, D
<1>6. Rebase(Front(bs), Top.base) = Front(Rebase(bs, Top.base))
  BY <1>2, <1>3, RebaseFront
<1>7. ts = Rebase(Opens(Top.fn)[ip + 1], Top.base)
  BY <1>3, <1>4, <1>5, <1>6
<1>. HIDE DEF ts
<1>. QED
  BY <1>1, <1>7, BlocksChanged

-----------------------------------------------------------------------------
(* Calls.                                                                  *)

(* py68_vm_resume_generator: generator g goes on for an instruction that   *)
(* waits, or the call fails in it.                                         *)
LEMMA ResumeStep ==
  ASSUME IInv, StructuredCode, status = "run",
         NEW g \in 1..Len(gens), gens[g].state # "done",
         NEW kind \in Kinds \ {"call"}, NEW ret, NEW st, Values(st, Len(gens)),
         Current.code[ip].op = IF kind = "for" THEN "RANGE_NEXT" ELSE "CALL",
         kind \in Waits => Arg >= 1,
         ret = IF kind \in {"collect", "for"} THEN ip ELSE ip + 1,
         Len(st) = N - Taken(kind, Arg),
         Resume(g, kind, ret, st)
  PROVE  IInv'
<1>. DEFINE o == gens[g]
            b == Len(st)
            n == Len(gens)
            i == Current.code[ip]
            f == Activate(o.fn, ret, g, b, kind, Rebase(o.tries, b), o.locals)
            r == [o EXCEPT !.state = "running", !.saved = <<>>]
            fs == Append(frames, f)
            gs == Replaced(gens, g, r)
<1>1. /\ Fixed /\ Shape(frames, ip, gens) /\ Running(frames, gens) /\ Generators(gens)
      /\ IsSeq(frames) /\ Len(frames) \in 1..Len(frames) /\ Len(frames) \in Nat
      /\ IsSeq(gens) /\ n \in Nat /\ FrameOK(Top, ip, n) /\ Top.base \in Nat
      /\ Current = codes[Top.fn] /\ Current.depth[ip] \in Nat /\ N = Top.base + Current.depth[ip]
      /\ N \in Nat /\ WellFormed(i) /\ exc \notin {"start", "run"} /\ ip \in Nat
      /\ Needs(i) \in Nat /\ FloorOf(Opens(Top.fn)[ip]) \in Nat
      /\ N - Needs(i) >= Top.base + FloorOf(Opens(Top.fn)[ip])
  BY Ready
<1>2. Taken(kind, Arg) \in Int /\ Taken(kind, Arg) <= Needs(i)
  <2>1. CASE kind = "for"
    <3>1. Taken(kind, Arg) = 0
      BY <2>1 DEF Taken
    <3>. QED
      BY <1>1, <3>1
  <2>2. CASE kind # "for"
    <3>1. i.op = "CALL"
      BY <2>2
    <3>2. i.arg = Arg /\ Arg \in Nat /\ Needs(i) = Arg + 1
      BY <1>1, <3>1, NeedsIs DEF WellFormed, Arg
    <3>3. Taken(kind, Arg) \in {Arg, -1}
      BY <2>2 DEF Taken, Kinds
    <3>. QED
      BY <3>2, <3>3
  <2>. QED
    BY <2>1, <2>2
<1>3. b \in Nat /\ b >= Top.base + FloorOf(Opens(Top.fn)[ip]) /\ b >= Top.base
  <2>1. \A l, t, k \in Nat : \A d, x \in Int :
          d <= k /\ l - k >= t + x /\ x >= 0 => /\ l - d \in Nat /\ l - d >= t + x
                                              /\ l - d >= t
    OBVIOUS
  <2>2. b = N - Taken(kind, Arg) /\ FloorOf(Opens(Top.fn)[ip]) \in Int
        /\ FloorOf(Opens(Top.fn)[ip]) >= 0
    BY <1>1
  <2>3. /\ N \in Nat /\ Top.base \in Nat /\ Needs(i) \in Nat
        /\ Taken(kind, Arg) \in Int /\ Taken(kind, Arg) <= Needs(i)
        /\ N - Needs(i) >= Top.base + FloorOf(Opens(Top.fn)[ip])
    BY <1>1, <1>2
  <2>. HIDE DEF b, i
  <2>. QED
    BY <2>1, <2>2, <2>3
<1>4. CASE Error("ValueError", st) \/ Error("RecursionError", st)
  <2>1. PICK error \in {"ValueError", "RecursionError"} : Error(error, st)
    BY <1>4
  <2>. QED
    BY <1>3, <2>1, ErrorOK
<1>5. CASE /\ o.state # "running"
           /\ frames' = fs /\ stack' = st \o o.saved
           /\ gens' = [gens EXCEPT ![g].state = "running", ![g].saved = <<>>]
           /\ ip' = o.ip /\ UNCHANGED <<pid, codes, exc, out, status>>
  <2>1. GenOK(o, n)
    BY <1>1 DEF Generators
  <2>2. /\ o.fn \in DOMAIN codes \ {"main"} /\ codes[o.fn].ok /\ codes[o.fn].gen
        /\ o.state \in {"created", "suspended"} /\ DOMAIN o = GenFields
        /\ LocalsOK(o.locals, n) /\ o.ip \in DOMAIN codes[o.fn].depth
        /\ Values(o.saved, n) /\ Len(o.saved) = codes[o.fn].depth[o.ip]
        /\ o.tries = Opens(o.fn)[o.ip]
    BY <1>5, <2>1 DEF GenOK
  <2>3. /\ f.fn = o.fn /\ f.ret = ret /\ f.gen = g /\ f.base = b /\ f.kind = kind
        /\ f.tries = Rebase(o.tries, b) /\ f.locals = o.locals /\ DOMAIN f = FrameFields
    BY DEF Activate, FrameFields
  <2>4. gens' = gs
    BY <1>1, <1>5, SeqBasics DEF Replaced
  <2>5. r.state = "running" /\ r.fn = o.fn /\ r.locals = o.locals /\ DOMAIN r = DOMAIN o
    BY <2>2 DEF GenFields
  <2>. HIDE DEF f, r
  <2>6. GenOK(r, n)
    BY <2>2, <2>5 DEF GenOK
  <2>7. Generators(gs) /\ Len(gs) = n
    BY <1>1, <2>6, GeneratorsReplaced
  <2>8. FrameOK(f, o.ip, n)
    <3>1. g # NoGen
      BY <1>1 DEF NoGen
    <3>. QED
      BY <1>3, <2>2, <2>3, <3>1 DEF FrameOK
  <2>9. Site(f) = ip
    <3>1. (ip + 1) - 1 = ip
      BY <1>1
    <3>. QED
      BY <2>3, <3>1 DEF Site
  <2>10. CallOK(Top, f, ip)
    <3>1. b = Top.base + Current.depth[ip] - Taken(kind, Arg)
      <4>1. /\ N = Top.base + Current.depth[ip] /\ Top.base \in Nat /\ Current.depth[ip] \in Nat
            /\ Taken(kind, Arg) \in Int /\ b = N - Taken(kind, Arg)
        BY <1>1, <1>2
      <4>2. \A x, y \in Nat : \A z \in Int : (x + y) - z = x + (y - z)
        OBVIOUS
      <4>. HIDE DEF b
      <4>. QED
        BY <4>1, <4>2
    <3>2. /\ Current.code[ip].op = IF f.kind = "for" THEN "RANGE_NEXT" ELSE "CALL"
          /\ f.kind \in Waits => Current.code[ip].arg >= 1
          /\ f.kind # "call" /\ f.fn # "main" /\ f.ret \in Nat
          /\ f.base = Top.base + Current.depth[ip] - Taken(f.kind, Current.code[ip].arg)
      <4>1. Current.code[ip].arg = Arg
        BY DEF Arg
      <4>2. ret \in Nat
        BY <1>1
      <4>3. f.kind = kind /\ f.kind # "call" /\ f.fn # "main" /\ f.ret = ret /\ f.base = b
        BY <2>2, <2>3
      <4>. HIDE DEF b
      <4>. QED
        BY <3>1, <4>1, <4>2, <4>3
    <3>. QED
      BY <1>1, <3>2 DEF CallOK
  <2>11. Shape(fs, o.ip, gs)
    <3>1. Shape(fs, o.ip, gens)
      BY <1>1, <1>3, <2>3, <2>8, <2>9, <2>10, ShapePushed DEF Top
    <3>. QED
      BY <1>1, <2>7, <3>1, ShapeMore
  <2>12. Running(fs, gs)
    BY <1>1, <1>5, <2>3, <2>5, RunningResumed
  <2>13. Values(st \o o.saved, n) /\ Len(st \o o.saved) = b + codes[o.fn].depth[o.ip]
    <3>1. Values(st, n) /\ Values(o.saved, n)
      BY <2>2
    <3>. DEFINE t == o.saved
    <3>. HIDE DEF n, t
    <3>2. Values(st \o t, n) /\ Len(st \o t) = Len(st) + Len(t)
      BY <3>1, ValuesConcat DEF t
    <3>3. Values(st \o o.saved, n) /\ Len(st \o o.saved) = b + Len(o.saved)
      BY <3>2 DEF t
    <3>. HIDE DEF o
    <3>. QED
      BY <2>2, <3>3
  <2>14. Len(fs) = Len(frames) + 1 /\ fs[Len(frames) + 1] = f
    BY <1>1, SeqAppend
  <2>. DEFINE vs == st \o o.saved
  <2>. HIDE DEF fs, gs, vs
  <2>15. Consistent(fs, o.ip, gs, vs)
    BY <2>3, <2>7, <2>11, <2>12, <2>13, <2>14 DEF Consistent, vs
  <2>16. Consistent(frames', ip', gens', stack')
    BY <1>5, <2>4, <2>15 DEF vs
  <2>. QED
    BY <1>1, <1>5, <2>16, Stands
<1>. QED
  BY <1>4, <1>5 DEF Resume
LEMMA CallFacts ==
  ASSUME IInv, StructuredCode, status = "run", Current.code[ip].op = "CALL"
  PROVE  /\ Arg \in Nat /\ Needs(Current.code[ip]) = Arg + 1 /\ Effect(Current.code[ip]) = - Arg
         /\ N \in Nat /\ N >= Arg + 1 /\ Values(stack, Len(gens)) /\ Len(gens) \in Nat
         /\ Values(Cut(Arg + 1), Len(gens)) /\ Len(Cut(Arg + 1)) = N - (Arg + 1)
         /\ Arg > 0 => Proper(Argument, Len(gens))
         /\ Proper(Callee, Len(gens)) /\ Proper(stack[N], Len(gens))
         /\ codes[Top.fn].code[ip].arg = Arg
<1>1. /\ WellFormed(Current.code[ip]) /\ N \in Nat /\ Values(stack, Len(gens)) /\ Len(gens) \in Nat
      /\ Current = codes[Top.fn]
  BY Ready
<1>2. Arg \in Nat
  BY <1>1 DEF WellFormed, Arg
<1>3. Needs(Current.code[ip]) = Arg + 1 /\ Effect(Current.code[ip]) = - Arg
  BY NeedsIs, EffectIs DEF Arg
<1>4. Arg + 1 \in Nat /\ Arg + 1 <= Needs(Current.code[ip])
  BY <1>2, <1>3
<1>5. Values(Cut(Arg + 1), Len(gens)) /\ Len(Cut(Arg + 1)) = N - (Arg + 1) /\ N - (Arg + 1) \in Nat
  BY <1>4, CutOK
<1>6. N >= Arg + 1
  BY <1>1, <1>2, <1>5
<1>7. \A i \in 1..N : Proper(stack[i], Len(gens))
  BY <1>1 DEF Values, N
<1>8. N - Arg \in 1..N /\ N \in 1..N /\ (Arg > 0 => N - Arg + 1 \in 1..N)
  BY <1>1, <1>2, <1>6
<1>9. (Arg > 0 => Proper(Argument, Len(gens))) /\ Proper(Callee, Len(gens)) /\ Proper(stack[N], Len(gens))
  BY <1>7, <1>8 DEF Argument, Callee
<1>. QED
  BY <1>1, <1>2, <1>3, <1>5, <1>6, <1>9 DEF Arg

(* A call that gives its result at once.                                   *)
LEMMA AnswersCall ==
  ASSUME IInv, StructuredCode, status = "run", Current.code[ip].op = "CALL",
         NEW v, Proper(v, Len(gens)), NEW st, st = Append(Cut(Arg + 1), v), Stays(st, ip + 1)
  PROVE  IInv'
<1>1. /\ Arg \in Nat /\ Effect(Current.code[ip]) = - Arg /\ N \in Nat
      /\ Values(Cut(Arg + 1), Len(gens)) /\ Len(Cut(Arg + 1)) = N - (Arg + 1)
  BY CallFacts
<1>2. Values(Append(Cut(Arg + 1), v), Len(gens)) /\ Len(Append(Cut(Arg + 1), v)) = N - (Arg + 1) + 1
  BY <1>1, ValuesAppend
<1>3. N - (Arg + 1) + 1 = N + (- Arg) /\ - Arg \in Int
  BY <1>1
<1>4. Values(st, Len(gens)) /\ Len(st) = N + (- Arg)
  BY <1>2, <1>3
<1>. QED
  BY <1>1, <1>3, <1>4, Onward DEF Ends

LEMMA CallPrintStep ==
  ASSUME IInv, StructuredCode, CallPrint
  PROVE  IInv'
<1>. DEFINE st == Append(Cut(Arg + 1), None)
<1>1. status = "run" /\ Current.code[ip].op = "CALL" /\ Stays(st, ip + 1)
  BY DEF CallPrint, CallOp, Fetch, Stays
<1>2. Proper(None, Len(gens))
  BY Harmless
<1>3. st = Append(Cut(Arg + 1), None)
  OBVIOUS
<1>. HIDE DEF st
<1>. QED
  BY <1>1, <1>2, <1>3, AnswersCall

LEMMA CallMethodStep ==
  ASSUME IInv, StructuredCode, CallMethod
  PROVE  IInv'
<1>1. PICK m \in {"enter", "exit"} :
        /\ CallOp(Native(m))
        /\ stack' = Append(Cut(Arg + 1), IF m = "enter" THEN Manager ELSE None)
        /\ ip' = ip + 1
        /\ UNCHANGED <<pid, codes, frames, gens, exc, status>>
  BY DEF CallMethod
<1>. DEFINE v == IF m = "enter" THEN Manager ELSE None
            st == Append(Cut(Arg + 1), v)
<1>2. status = "run" /\ Current.code[ip].op = "CALL" /\ Stays(st, ip + 1)
  BY <1>1 DEF CallOp, Fetch, Stays
<1>3. Proper(v, Len(gens))
  BY Harmless
<1>4. st = Append(Cut(Arg + 1), v)
  OBVIOUS
<1>. HIDE DEF st, v
<1>. QED
  BY <1>2, <1>3, <1>4, AnswersCall

LEMMA CallFaultStep ==
  ASSUME IInv, StructuredCode, CallFault
  PROVE  IInv'
<1>1. /\ status = "run" /\ Current.code[ip].op = "CALL"
      /\ IF Arg = 1 /\ Argument[1] = "type" THEN Error(Argument[2], stack)
         ELSE Error("TypeError", stack)
  BY DEF CallFault, CallOp, Fetch
<1>2. Arg = 1 => Proper(Argument, Len(gens))
  BY <1>1, CallFacts
<1>3. CASE Arg = 1 /\ Argument[1] = "type"
  <2>1. Argument[2] \notin {"start", "run"}
    BY <1>2, <1>3 DEF Proper
  <2>. QED
    BY <1>1, <1>3, <2>1, ErrorWhole
<1>4. CASE ~ (Arg = 1 /\ Argument[1] = "type")
  BY <1>1, <1>4, ErrorWhole
<1>. QED
  BY <1>3, <1>4

LEMMA CallOtherStep ==
  ASSUME IInv, StructuredCode, CallOther
  PROVE  IInv'
BY ErrorWhole DEF CallOther, Fetch

(* What OnGenerator finds is one of the generators made.                   *)
LEMMA OnGeneratorOK ==
  ASSUME IInv, StructuredCode, status = "run", Current.code[ip].op = "CALL", OnGenerator
  PROVE  Arg > 0 /\ Argument[2] \in 1..Len(gens)
BY CallFacts DEF OnGenerator, Proper

LEMMA CallNextStep ==
  ASSUME IInv, StructuredCode, CallNext
  PROVE  IInv'
<1>. DEFINE g == Argument[2]
            rest == Cut(Arg + 1)
            placeholder == IF Arg = 2 THEN stack[N] ELSE None
            st == Append(rest, placeholder)
            kind == IF Arg = 2 THEN "default" ELSE "next"
<1>1. status = "run" /\ Current.code[ip].op = "CALL"
  BY DEF CallNext, CallOp, Fetch
<1>2. \/ Error("TypeError", stack)
      \/ OnGenerator /\ Arg = 2 /\ Go(st, ip + 1)
      \/ Error("StopIteration", rest)
      \/ /\ OnGenerator /\ Arg \in {1, 2} /\ gens[g].state # "done"
         /\ Resume(g, kind, ip + 1, st)
  <2>1. Arg \in Nat
    BY <1>1, CallFacts
  <2>2. OnGenerator => Arg > 0
    BY DEF OnGenerator
  <2>3. OnGenerator /\ ~ (Arg > 2) => Arg \in {1, 2}
    BY <2>1, <2>2
  <2>4. CASE ~ OnGenerator \/ Arg > 2
    BY <2>4 DEF CallNext
  <2>5. CASE ~ (~ OnGenerator \/ Arg > 2) /\ gens[g].state = "done" /\ Arg = 2
    BY <2>5, <2>1 DEF CallNext
  <2>6. CASE ~ (~ OnGenerator \/ Arg > 2) /\ gens[g].state = "done" /\ Arg = 1
    BY <2>6, <2>1 DEF CallNext
  <2>7. CASE ~ (~ OnGenerator \/ Arg > 2) /\ gens[g].state # "done"
    <3>1. Resume(g, kind, ip + 1, st)
      BY <2>7 DEF CallNext
    <3>. QED
      BY <2>3, <2>7, <3>1
  <2>. QED
    BY <2>3, <2>4, <2>5, <2>6, <2>7
<1>3. /\ Arg \in Nat /\ Needs(Current.code[ip]) = Arg + 1 /\ N \in Nat
      /\ Values(rest, Len(gens)) /\ Len(rest) = N - (Arg + 1) /\ Proper(stack[N], Len(gens))
  BY <1>1, CallFacts
<1>4. Proper(placeholder, Len(gens)) /\ st = Append(Cut(Arg + 1), placeholder)
  BY <1>3, Harmless
<1>5. CASE Error("TypeError", stack)
  BY <1>1, <1>5, ErrorWhole
<1>6. CASE Go(st, ip + 1)
  <2>1. Stays(st, ip + 1)
    BY <1>6, GoStays
  <2>. HIDE DEF st, placeholder
  <2>. QED
    BY <1>1, <1>4, <2>1, AnswersCall
<1>7. CASE Error("StopIteration", rest)
  <2>1. Arg + 1 \in Nat /\ Arg + 1 <= Needs(Current.code[ip])
    BY <1>3
  <2>. QED
    BY <1>1, <1>7, <2>1, ErrorCut
<1>8. CASE /\ OnGenerator /\ Arg \in {1, 2} /\ gens[g].state # "done"
           /\ Resume(g, kind, ip + 1, st)
  <2>1. g \in 1..Len(gens)
    BY <1>1, <1>8, OnGeneratorOK
  <2>2. Values(st, Len(gens)) /\ Len(st) = N - (Arg + 1) + 1
    BY <1>3, <1>4, ValuesAppend
  <2>3. /\ kind \in Kinds \ {"call"} /\ kind # "for" /\ kind \in {"next", "default"}
        /\ kind \notin {"collect", "for"}
    BY DEF Kinds
  <2>4. Taken(kind, Arg) = Arg
    BY <2>3 DEF Taken
  <2>. HIDE DEF st, kind, g, placeholder
  <2>5. N - (Arg + 1) + 1 = N - Arg /\ Arg >= 1
    BY <1>3, <1>8
  <2>6. Len(st) = N - Taken(kind, Arg)
    BY <2>2, <2>4, <2>5
  <2>. QED
    BY <1>1, <1>8, <2>1, <2>2, <2>3, <2>5, <2>6, ResumeStep
<1>. QED
  BY <1>2, <1>5, <1>6, <1>7, <1>8

LEMMA CallListStep ==
  ASSUME IInv, StructuredCode, CallList
  PROVE  IInv'
<1>. DEFINE g == Argument[2]
            empty == <<"list", <<>>>>
            again == Replaced(stack, N - Arg + 1, empty)
            st == Append(stack, empty)
<1>1. status = "run" /\ Current.code[ip].op = "CALL"
  BY DEF CallList, CallOp, Fetch
<1>2. /\ Arg \in Nat /\ N \in Nat /\ Values(stack, Len(gens))
      /\ Arg > 0 => Proper(Argument, Len(gens))
  BY <1>1, CallFacts
<1>3. \/ OnGenerator /\ gens[g].state = "done" /\ Go(again, ip)
      \/ OnGenerator /\ gens[g].state # "done" /\ Resume(g, "collect", ip, st)
      \/ Arg = 0 /\ Go(Append(Cut(1), empty), ip + 1)
      \/ Arg = 1 /\ Go(Append(Cut(Arg + 1), Argument), ip + 1)
      \/ Error("TypeError", stack)
  <2>1. CASE OnGenerator
    <3>1. Arg # 0 /\ ~ (Arg = 1 /\ Argument[1] = "list")
      BY <1>2, <2>1 DEF OnGenerator
    <3>2. CallList => IF gens[g].state = "done" THEN Go(again, ip) ELSE Resume(g, "collect", ip, st)
      BY <2>1, <3>1 DEF CallList
    <3>. QED
      BY <2>1, <3>2
  <2>2. CASE ~ OnGenerator /\ Arg = 0
    <3>1. CallList => Go(Append(Cut(1), empty), ip + 1)
      BY <2>2 DEF CallList
    <3>. QED
      BY <2>2, <3>1
  <2>3. CASE ~ OnGenerator /\ Arg # 0 /\ Arg = 1 /\ Argument[1] = "list"
    <3>1. CallList => Go(Append(Cut(Arg + 1), Argument), ip + 1)
      BY <2>3 DEF CallList
    <3>. QED
      BY <2>3, <3>1
  <2>4. CASE ~ OnGenerator /\ Arg # 0 /\ ~ (Arg = 1 /\ Argument[1] = "list")
    <3>1. CallList => Error("TypeError", stack)
      BY <2>4 DEF CallList
    <3>. QED
      BY <3>1
  <2>. QED
    BY <2>1, <2>2, <2>3, <2>4
<1>4. Proper(empty, Len(gens))
  BY Harmless
<1>5. CASE Go(again, ip)
  <2>1. Stays(again, ip)
    BY <1>5, GoStays
  <2>. HIDE DEF empty
  <2>2. Values(again, Len(gens)) /\ Len(again) = Len(stack)
    BY <1>2, <1>4, ValuesReplaced
  <2>. HIDE DEF again
  <2>3. ip \in DOMAIN Current.depth /\ N = Top.base + Current.depth[ip]
    BY <1>1, Ready
  <2>. QED
    BY <1>1, <2>1, <2>2, <2>3, GoesOn DEF N
<1>6. CASE OnGenerator /\ gens[g].state # "done" /\ Resume(g, "collect", ip, st)
  <2>1. g \in 1..Len(gens) /\ Arg >= 1
    BY <1>1, <1>2, <1>6, OnGeneratorOK
  <2>. HIDE DEF empty
  <2>2. Values(st, Len(gens)) /\ Len(st) = N + 1
    BY <1>2, <1>4, ValuesAppend DEF N
  <2>3. "collect" \in Kinds \ {"call"} /\ Taken("collect", Arg) = -1
    BY DEF Kinds, Taken
  <2>. HIDE DEF st, g
  <2>4. Len(st) = N - Taken("collect", Arg)
    BY <1>2, <2>2, <2>3
  <2>. QED
    BY <1>1, <1>6, <2>1, <2>2, <2>3, <2>4, ResumeStep
<1>7. CASE Arg = 0 /\ Go(Append(Cut(1), empty), ip + 1)
  <2>. DEFINE vs == Append(Cut(Arg + 1), empty)
  <2>1. Stays(vs, ip + 1)
    BY <1>7, GoStays
  <2>2. vs = Append(Cut(Arg + 1), empty)
    OBVIOUS
  <2>. HIDE DEF vs, empty
  <2>. QED
    BY <1>1, <1>4, <2>1, <2>2, AnswersCall
<1>8. CASE Arg = 1 /\ Go(Append(Cut(Arg + 1), Argument), ip + 1)
  <2>. DEFINE vs == Append(Cut(Arg + 1), Argument)
  <2>1. Stays(vs, ip + 1)
    BY <1>8, GoStays
  <2>2. vs = Append(Cut(Arg + 1), Argument) /\ Proper(Argument, Len(gens))
    BY <1>2, <1>8
  <2>. HIDE DEF vs
  <2>. QED
    BY <1>1, <2>1, <2>2, AnswersCall
<1>9. CASE Error("TypeError", stack)
  BY <1>1, <1>9, ErrorWhole
<1>. QED
  BY <1>3, <1>5, <1>6, <1>7, <1>8, <1>9
LEMMA ValuesEmpty ==
  ASSUME NEW n
  PROVE  Values(<<>>, n) /\ Len(<<>>) = 0
<1>1. <<>> \in Seq({}) /\ Len(<<>>) = 0
  OBVIOUS
<1>2. IsSeq(<<>>)
  BY <1>1, SeqWithin
<1>. QED
  BY <1>1, <1>2 DEF Values

LEMMA LocalsUnbound ==
  ASSUME NEW n
  PROVE  LocalsOK(Locals, n)
BY Harmless DEF LocalsOK, Locals

(* The call of a generator function makes an object.                       *)
LEMMA CreateStep ==
  ASSUME IInv, StructuredCode, status = "run", Current.code[ip].op = "CALL", Arg = 0,
         NEW fn \in DOMAIN codes \ {"main"}, codes[fn].ok, codes[fn].gen,
         NEW o, o = [fn |-> fn, state |-> "created", ip |-> 1, saved |-> <<>>,
                     tries |-> <<>>, locals |-> Locals],
         NEW st, st = Append(Cut(1), <<"gen", Len(gens) + 1>>),
         gens' = Append(gens, o), stack' = st, ip' = ip + 1,
         pid' = pid, codes' = codes, frames' = frames, exc' = exc, status' = status
  PROVE  IInv'
<1>. DEFINE n == Len(gens)
            gs == Append(gens, o)
            v == <<"gen", n + 1>>
<1>1. /\ Fixed /\ Shape(frames, ip, gens) /\ Running(frames, gens) /\ Generators(gens)
      /\ IsSeq(gens) /\ n \in Nat /\ Top.base \in Nat
      /\ Current = codes[Top.fn] /\ Top.fn \in DOMAIN codes /\ codes[Top.fn].ok
      /\ ip \in DOMAIN Current.depth /\ Current.depth[ip] \in Nat
      /\ N = Top.base + Current.depth[ip] /\ N \in Nat /\ exc \notin {"start", "run"}
  BY Ready
<1>2. Needs(Current.code[ip]) = 1 /\ Effect(Current.code[ip]) = 0
  BY CallFacts
<1>3. Values(Cut(1), n) /\ Len(Cut(1)) = N - 1
  BY <1>2, CutOne
<1>4. /\ ip + 1 \in DOMAIN Current.depth /\ Current.depth[ip + 1] = Current.depth[ip] + 0
      /\ Opens(Top.fn)[ip + 1] = Nested(codes[Top.fn], ip, Opens(Top.fn)[ip])
  BY <1>1, <1>2, FallThrough DEF Ends
<1>5. Opens(Top.fn)[ip + 1] = Opens(Top.fn)[ip]
  BY <1>1, <1>4 DEF Nested
<1>6. GenOK(o, n)
  <2>1. 1 \in DOMAIN codes[fn].depth /\ codes[fn].depth[1] = 0 /\ Opens(fn)[1] = <<>>
    BY <1>1, Entry
  <2>2. Values(<<>>, n) /\ Len(<<>>) = 0
    BY ValuesEmpty
  <2>3. LocalsOK(Locals, n)
    BY LocalsUnbound
  <2>4. /\ DOMAIN o = GenFields /\ o.fn = fn /\ o.state = "created" /\ o.ip = 1 /\ o.saved = <<>>
        /\ o.tries = <<>> /\ o.locals = Locals
    BY DEF GenFields
  <2>. QED
    BY <2>1, <2>2, <2>3, <2>4 DEF GenOK
<1>7. Generators(gs) /\ Len(gs) = n + 1
  BY <1>1, <1>6, GeneratorsAppend
<1>8. o.state = "created"
  OBVIOUS
<1>9. Running(frames, gs)
  BY <1>1, <1>8, RunningCreated
<1>10. n + 1 \in Nat /\ n <= n + 1
  BY <1>1
<1>. HIDE DEF gs
<1>11. Shape(frames, ip + 1, gs)
  <2>1. Shape(frames, ip + 1, gens)
    BY <1>1, <1>4, <1>5, ShapeGoes DEF Top
  <2>. QED
    BY <1>1, <1>7, <1>10, <2>1, ShapeMore
<1>12. Values(Cut(1), n + 1)
  BY <1>1, <1>3, <1>10, ValuesMore DEF Values
<1>13. Proper(v, n + 1)
  BY <1>10 DEF Proper
<1>14. st = Append(Cut(1), v)
  OBVIOUS
<1>. HIDE DEF v, n
<1>15. Values(st, n + 1) /\ Len(st) = (N - 1) + 1
  BY <1>3, <1>12, <1>13, <1>14, ValuesAppend
<1>16. Len(st) = Top.base + Current.depth[ip + 1]
  BY <1>1, <1>4, <1>15
<1>17. Consistent(frames, ip + 1, gs, st)
  BY <1>1, <1>7, <1>9, <1>11, <1>15, <1>16 DEF Consistent, Top
<1>18. Consistent(frames', ip', gens', stack')
  BY <1>17 DEF gs
<1>. QED
  BY <1>1, <1>18, Stands

(* The call of a function begins an activation above what it leaves.       *)
LEMMA EnterStep ==
  ASSUME IInv, StructuredCode, status = "run", Current.code[ip].op = "CALL", Arg = 0,
         NEW fn \in DOMAIN codes \ {"main"}, codes[fn].ok, ~ codes[fn].gen,
         NEW f, f = Activate(fn, ip + 1, NoGen, N - 1, "call", <<>>, Locals),
         frames' = Append(frames, f), stack' = Cut(1), ip' = 1,
         pid' = pid, codes' = codes, gens' = gens, exc' = exc, status' = status
  PROVE  IInv'
<1>. DEFINE n == Len(gens)
            fs == Append(frames, f)
<1>1. /\ Fixed /\ Shape(frames, ip, gens) /\ Running(frames, gens) /\ Generators(gens)
      /\ IsSeq(frames) /\ Len(frames) \in Nat /\ Top.base \in Nat
      /\ Current = codes[Top.fn] /\ Current.depth[ip] \in Nat /\ ip \in Nat
      /\ N = Top.base + Current.depth[ip] /\ N \in Nat /\ exc \notin {"start", "run"}
      /\ FloorOf(Opens(Top.fn)[ip]) \in Nat
  BY Ready
<1>2. Needs(Current.code[ip]) = 1
  BY CallFacts
<1>3. /\ Values(Cut(1), n) /\ Len(Cut(1)) = N - 1 /\ N - 1 \in Nat
      /\ N - 1 >= Top.base + FloorOf(Opens(Top.fn)[ip])
  BY <1>2, CutOne
<1>4. /\ f.fn = fn /\ f.ret = ip + 1 /\ f.gen = NoGen /\ f.base = N - 1 /\ f.kind = "call"
      /\ f.tries = <<>> /\ f.locals = Locals /\ DOMAIN f = FrameFields
  BY DEF Activate, FrameFields
<1>5. 1 \in DOMAIN codes[fn].depth /\ codes[fn].depth[1] = 0 /\ Opens(fn)[1] = <<>>
  BY <1>1, Entry
<1>6. FrameOK(f, 1, n)
  <2>1. Rebase(<<>>, N - 1) = <<>>
    <3>1. N - 1 \in Int
      BY <1>3
    <3>. QED
      BY <3>1, RebaseEmpty
  <2>2. LocalsOK(Locals, n)
    BY LocalsUnbound
  <2>. QED
    BY <1>3, <1>4, <1>5, <2>1, <2>2 DEF FrameOK, Kinds
<1>7. Site(f) = ip
  <2>1. (ip + 1) - 1 = ip
    BY <1>1
  <2>. QED
    BY <1>4, <2>1 DEF Site
<1>8. CallOK(Top, f, ip)
  <2>1. Taken("call", 0) = 1
    BY DEF Taken
  <2>2. N - 1 = Top.base + Current.depth[ip] - 1
    BY <1>1
  <2>3. f.ret \in Nat
    BY <1>1, <1>4
  <2>4. Current.code[ip].op = "CALL" /\ Current.code[ip].arg = 0
    BY DEF Arg
  <2>5. f.kind = "call" /\ f.base = Top.base + Current.depth[ip] - 1 /\ f.fn # "main"
    BY <1>4, <2>2
  <2>6. Current = codes[Top.fn]
    BY DEF Current
  <2>. QED
    BY <2>1, <2>3, <2>4, <2>5, <2>6 DEF CallOK, Waits
<1>9. Top.base <= f.base
  BY <1>1, <1>3, <1>4
<1>10. Shape(fs, 1, gens)
  BY <1>1, <1>6, <1>7, <1>8, <1>9, ShapePushed DEF Top
<1>11. Running(fs, gens)
  BY <1>1, <1>4, RunningCalled
<1>12. Len(fs) = Len(frames) + 1 /\ fs[Len(frames) + 1] = f
  BY <1>1, SeqAppend
<1>. HIDE DEF fs
<1>13. N - 1 = f.base + codes[fn].depth[1]
  BY <1>3, <1>4, <1>5
<1>14. Consistent(fs, 1, gens, Cut(1))
  BY <1>1, <1>3, <1>4, <1>10, <1>11, <1>12, <1>13 DEF Consistent
<1>15. Consistent(frames', ip', gens', stack')
  BY <1>14 DEF fs
<1>. QED
  BY <1>1, <1>15, Stands

LEMMA CallFunctionStep ==
  ASSUME IInv, StructuredCode, CallFunction
  PROVE  IInv'
<1>1. PICK fn \in DOMAIN codes \ {"main"} :
        /\ CallOp(Fun(fn))
        /\ CASE Arg # 0 -> Error("TypeError", stack)
             [] Arg = 0 /\ ~codes[fn].ok ->
                  Abort("BytecodeError", frames, gens) /\ UNCHANGED <<pid, codes, ip, exc, out>>
             [] Arg = 0 /\ codes[fn].ok /\ codes[fn].gen ->
                  /\ gens' = Append(gens, [fn |-> fn, state |-> "created", ip |-> 1,
                                           saved |-> <<>>, tries |-> <<>>,
                                           locals |-> Locals])
                  /\ stack' = Append(Cut(1), <<"gen", Len(gens) + 1>>)
                  /\ ip' = ip + 1
                  /\ UNCHANGED <<pid, codes, frames, exc, out, status>>
             [] OTHER ->
                  IF Len(frames) >= RecursionLimit THEN Error("RecursionError", stack)
                  ELSE /\ frames' = Append(frames, Activate(fn, ip + 1, NoGen, N - 1,
                                                            "call", <<>>, Locals))
                       /\ stack' = Cut(1) /\ ip' = 1
                       /\ UNCHANGED <<pid, codes, gens, exc, out, status>>
  BY DEF CallFunction
<1>2. status = "run" /\ Current.code[ip].op = "CALL"
  BY <1>1 DEF CallOp, Fetch
<1>3. CASE Arg # 0
  BY <1>1, <1>2, <1>3, ErrorWhole
<1>4. CASE Arg = 0 /\ ~ codes[fn].ok
  <2>1. Abort("BytecodeError", frames, gens) /\ pid' = pid /\ codes' = codes /\ exc' = exc
    BY <1>1, <1>4
  <2>. QED
    BY <1>2, <2>1, AbortOK, Ready
<1>5. CASE Arg = 0 /\ codes[fn].ok /\ codes[fn].gen
  <2>1. /\ gens' = Append(gens, [fn |-> fn, state |-> "created", ip |-> 1, saved |-> <<>>,
                                 tries |-> <<>>, locals |-> Locals])
        /\ stack' = Append(Cut(1), <<"gen", Len(gens) + 1>>)
        /\ ip' = ip + 1
        /\ pid' = pid /\ codes' = codes /\ frames' = frames /\ exc' = exc /\ status' = status
    BY <1>1, <1>5
  <2>. QED
    BY <1>2, <1>5, <2>1, CreateStep
<1>6. CASE Arg = 0 /\ codes[fn].ok /\ ~ codes[fn].gen
  <2>1. \/ Error("RecursionError", stack)
        \/ /\ frames' = Append(frames, Activate(fn, ip + 1, NoGen, N - 1, "call", <<>>, Locals))
           /\ stack' = Cut(1) /\ ip' = 1
           /\ pid' = pid /\ codes' = codes /\ gens' = gens /\ exc' = exc /\ status' = status
    BY <1>1, <1>6
  <2>. QED
    BY <1>2, <1>6, <2>1, ErrorWhole, EnterStep
<1>. QED
  BY <1>3, <1>4, <1>5, <1>6

LEMMA RangeInitStep ==
  ASSUME IInv, StructuredCode, RangeInit
  PROVE  IInv'
<1>. DEFINE v == <<"range", 0, stack[N][2]>>
            st == Append(Cut(1), v)
<1>1. status = "run" /\ Current.code[ip].op = "RANGE_INIT"
  BY DEF RangeInit, Fetch
<1>2. Go(stack, ip + 1) \/ Go(st, ip + 1) \/ Error("TypeError", Cut(1))
  BY DEF RangeInit
<1>3. Needs(Current.code[ip]) = 1 /\ Effect(Current.code[ip]) = 0
  <2>1. Current.code[ip].arg = 1
    BY <1>1, Ready DEF WellFormed
  <2>. QED
    BY <1>1, <2>1, NeedsIs, EffectIs
<1>4. /\ Values(Cut(1), Len(gens)) /\ Len(Cut(1)) = N - 1 /\ N \in Nat
      /\ Values(stack, Len(gens)) /\ N = N + 0
  BY <1>1, <1>3, CutOK, Ready
<1>5. CASE Go(stack, ip + 1)
  BY <1>1, <1>3, <1>4, <1>5, GoStays, Onward DEF Ends, N
<1>6. CASE Go(st, ip + 1)
  <2>1. Stays(st, ip + 1)
    BY <1>6, GoStays
  <2>2. Proper(v, Len(gens))
    BY Harmless
  <2>. HIDE DEF v
  <2>3. Values(st, Len(gens)) /\ Len(st) = (N - 1) + 1
    BY <1>4, <2>2, ValuesAppend
  <2>. HIDE DEF st
  <2>4. (N - 1) + 1 = N + 0
    BY <1>4
  <2>. QED
    BY <1>1, <1>3, <2>1, <2>3, <2>4, Onward DEF Ends
<1>7. CASE Error("TypeError", Cut(1))
  BY <1>1, <1>3, <1>7, ErrorCut
<1>. QED
  BY <1>2, <1>5, <1>6, <1>7

LEMMA RangeNextStep ==
  ASSUME IInv, StructuredCode, RangeNext
  PROVE  IInv'
<1>. DEFINE v == stack[N]
            pair == <<NextRange(v), Num(v[2])>>
            st == Cut(1) \o pair
<1>1. status = "run" /\ Current.code[ip].op = "RANGE_NEXT"
  BY DEF RangeNext, Fetch
<1>2. \/ Go(Cut(1), Arg)
      \/ v[1] = "gen" /\ gens[v[2]].state # "done" /\ Resume(v[2], "for", ip, stack)
      \/ Go(st, ip + 1)
      \/ Error("TypeError", stack)
  BY DEF RangeNext
<1>3. Needs(Current.code[ip]) = 1 /\ Effect(Current.code[ip]) = 1
  BY <1>1, NeedsIs, EffectIs
<1>4. /\ Values(Cut(1), Len(gens)) /\ Len(Cut(1)) = N - 1 /\ Proper(v, Len(gens))
      /\ N \in Nat /\ Values(stack, Len(gens)) /\ N = Top.base + Current.depth[ip]
      /\ Top.base \in Nat /\ Current.depth[ip] \in Nat
  BY <1>1, <1>3, CutOK, Ready
<1>5. CASE Go(Cut(1), Arg)
  <2>1. Stays(Cut(1), Arg)
    BY <1>5, GoStays
  <2>2. BranchDepth(Current.code[ip], Current.depth[ip]) = Current.depth[ip] - 1
    BY <1>1 DEF BranchDepth
  <2>3. N - 1 = Top.base + (Current.depth[ip] - 1)
    BY <1>4
  <2>. QED
    BY <1>1, <1>4, <2>1, <2>2, <2>3, Sideways DEF Branches
<1>6. CASE v[1] = "gen" /\ gens[v[2]].state # "done" /\ Resume(v[2], "for", ip, stack)
  <2>1. v[2] \in 1..Len(gens)
    BY <1>4, <1>6 DEF Proper
  <2>2. "for" \in Kinds \ {"call"} /\ "for" \notin Waits /\ Taken("for", Arg) = 0
    BY DEF Kinds, Waits, Taken
  <2>3. Len(stack) = N - Taken("for", Arg)
    BY <1>4, <2>2 DEF N
  <2>. HIDE DEF v
  <2>. QED
    BY <1>1, <1>4, <1>6, <2>1, <2>2, <2>3, ResumeStep
<1>7. CASE Go(st, ip + 1)
  <2>1. Stays(st, ip + 1)
    BY <1>7, GoStays
  <2>2. Proper(NextRange(v), Len(gens)) /\ Proper(Num(v[2]), Len(gens))
    BY Harmless DEF NextRange, Num
  <2>3. Values(pair, Len(gens)) /\ Len(pair) = 2
    BY <2>2, ValuesPair
  <2>. HIDE DEF pair
  <2>6. Values(Cut(1), Len(gens)) /\ Len(Cut(1)) = N - 1
    BY <1>4
  <2>7. Values(st, Len(gens)) /\ Len(st) = Len(Cut(1)) + Len(pair)
    <3>. DEFINE rest == Cut(1)
                n == Len(gens)
    <3>1. Values(rest, n) /\ Values(pair, n)
      BY <2>3, <2>6
    <3>. HIDE DEF rest, n
    <3>2. Values(rest \o pair, n) /\ Len(rest \o pair) = Len(rest) + Len(pair)
      BY <3>1, ValuesConcat
    <3>. QED
      BY <3>2 DEF rest, n
  <2>4. Values(st, Len(gens)) /\ Len(st) = (N - 1) + 2
    BY <2>3, <2>6, <2>7
  <2>. HIDE DEF st
  <2>5. (N - 1) + 2 = N + 1
    BY <1>4
  <2>. QED
    BY <1>1, <1>3, <2>1, <2>4, <2>5, Onward DEF Ends
<1>8. CASE Error("TypeError", stack)
  BY <1>1, <1>8, ErrorWhole
<1>. QED
  BY <1>2, <1>5, <1>6, <1>7, <1>8
-----------------------------------------------------------------------------
(* Returns and yields.                                                     *)

Caller == frames[Len(frames) - 1]
CallSite == Site(Top)
Calling == codes[Caller.fn].code[CallSite]
CallDepth == codes[Caller.fn].depth[CallSite]

LEMMA Below ==
  ASSUME NEW l \in Nat, l >= 1, l # 1
  PROVE  l - 1 \in 1..l - 1 /\ l - 1 \in 1..l /\ l - 1 \in 0..l /\ l - 1 \in Nat
         /\ (l - 1) + 1 = l /\ l - 1 # l
OBVIOUS

LEMMA CallerIs ==
  ASSUME IInv, StructuredCode, status = "run", Top.fn # "main" \/ Top.gen # NoGen
  PROVE  /\ Len(frames) - 1 \in 1..Len(frames) - 1 /\ Len(frames) - 1 \in 1..Len(frames)
         /\ Len(frames) # 1 /\ Len(frames) - 1 \in Nat
         /\ Front(frames) = SubSeq(frames, 1, Len(frames) - 1)
         /\ IsSeq(Front(frames)) /\ Len(Front(frames)) = Len(frames) - 1
         /\ Front(frames)[Len(frames) - 1] = Caller
         /\ Shape(Front(frames), CallSite, gens)
         /\ FrameOK(Caller, CallSite, Len(gens)) /\ Caller.base \in Nat /\ Caller.fn \in DOMAIN codes /\ codes[Caller.fn].ok
         /\ CallSite \in DOMAIN codes[Caller.fn].depth /\ CallSite \in Nat /\ CallDepth \in Nat
         /\ WellFormed(Calling) /\ CallDepth - Needs(Calling) >= FloorOf(Opens(Caller.fn)[CallSite]) /\ Needs(Calling) \in Nat
         /\ FloorOf(Opens(Caller.fn)[CallSite]) \in Nat
         /\ CallOK(Caller, Top, CallSite)
         /\ Top.kind \in Kinds /\ (Top.kind = "call" <=> Top.gen = NoGen)
         /\ Top.kind = "for" => Calling.op = "RANGE_NEXT" /\ Top.base = Caller.base + CallDepth /\ Top.ret = CallSite
         /\ Top.kind # "for" => Calling.op = "CALL" /\ Calling.arg \in Nat /\ Needs(Calling) = Calling.arg + 1
         /\ Top.kind = "call" => Calling.arg = 0 /\ Top.base = Caller.base + (CallDepth - 1) /\ Top.ret = CallSite + 1
         /\ Top.kind \in {"next", "default"} =>
              Calling.arg >= 1 /\ Top.base = Caller.base + (CallDepth - Calling.arg) /\ Top.ret = CallSite + 1
         /\ Top.kind = "collect" => Calling.arg >= 1 /\ Top.base = Caller.base + (CallDepth + 1) /\ Top.ret = CallSite
<1>. DEFINE L == Len(frames)
<1>1. /\ Fixed /\ Shape(frames, ip, gens) /\ IsSeq(frames) /\ L \in Nat /\ L \in 1..L
      /\ FrameOK(Top, ip, Len(gens)) /\ Top.base \in Nat
  BY Ready
<1>2. L # 1
  <2>. SUFFICES ASSUME L = 1  PROVE FALSE
    OBVIOUS
  <2>1. Top.fn = "main"
    BY <1>1 DEF Shape, Top
  <2>2. ~ codes["main"].gen
    BY <1>1, <2>1, CodeIs DEF FrameOK
  <2>3. Top.gen = NoGen
    BY <1>1, <2>1, <2>2 DEF FrameOK
  <2>. QED
    BY <2>1, <2>3
<1>3. L - 1 \in 1..L - 1 /\ L - 1 \in 1..L /\ L - 1 \in 0..L /\ L - 1 \in Nat /\ (L - 1) + 1 = L /\ L - 1 # L
  <2>1. L >= 1
    BY <1>1
  <2>. HIDE DEF L
  <2>. QED
    BY <1>1, <1>2, <2>1, Below
<1>4. Front(frames) = SubSeq(frames, 1, L - 1)
  BY DEF Front
<1>5. /\ IsSeq(Front(frames)) /\ Len(Front(frames)) = L - 1
      /\ Front(frames)[L - 1] = Caller
  BY <1>1, <1>3, <1>4, SeqPrefix DEF Caller
<1>6. Shape(Front(frames), CallSite, gens)
  <2>1. Point(frames, ip, L - 1) = CallSite
    BY <1>3 DEF Point, Top, CallSite
  <2>. QED
    BY <1>1, <1>3, <1>4, <2>1, ShapeCut
<1>7. FrameOK(Caller, CallSite, Len(gens)) /\ CallOK(Caller, Top, CallSite)
  BY <1>1, <1>3, ShapeTop DEF Top, Caller, CallSite
<1>8. Caller.base \in Nat /\ Caller.fn \in DOMAIN codes /\ codes[Caller.fn].ok /\ CallSite \in DOMAIN codes[Caller.fn].depth
  BY <1>7 DEF FrameOK
<1>9. /\ WellFormed(Calling) /\ CallDepth - Needs(Calling) >= FloorOf(Opens(Caller.fn)[CallSite]) /\ Needs(Calling) \in Nat
      /\ CallSite \in Nat /\ CallDepth \in Nat /\ FloorOf(Opens(Caller.fn)[CallSite]) \in Nat
  BY <1>1, <1>8, Standing DEF Calling, CallDepth
<1>10. Top.kind \in Kinds /\ (Top.kind = "call" <=> Top.gen = NoGen)
  BY <1>1 DEF FrameOK
<1>11. /\ Calling.op = IF Top.kind = "for" THEN "RANGE_NEXT" ELSE "CALL"
       /\ Top.kind \in Waits => Calling.arg >= 1
       /\ Top.kind = "call" => Calling.arg = 0
       /\ Top.base = Caller.base + CallDepth - Taken(Top.kind, Calling.arg) /\ Top.ret \in Nat
  BY <1>7 DEF CallOK, Calling, CallDepth
<1>12. Top.kind # "for" => Calling.op = "CALL" /\ Calling.arg \in Nat /\ Needs(Calling) = Calling.arg + 1
  BY <1>9, <1>11, NeedsIs DEF WellFormed
<1>14. /\ Top.kind \in {"collect", "for"} => Top.ret = CallSite
       /\ Top.kind \notin {"collect", "for"} => Top.ret = CallSite + 1
  BY <1>11 DEF Site, CallSite
<1>15. CASE Top.kind = "for"
  <2>1. Taken(Top.kind, Calling.arg) = 0
    BY <1>15 DEF Taken
  <2>2. Top.base = Caller.base + CallDepth
    BY <1>8, <1>9, <1>11, <2>1
  <2>. QED
    BY <1>3, <1>4, <1>5, <1>6, <1>7, <1>8, <1>9, <1>10, <1>11, <1>12, <1>14, <1>15, <2>2, <1>2
<1>16. CASE Top.kind = "call"
  <2>1. Taken(Top.kind, Calling.arg) = 1
    BY <1>11, <1>16 DEF Taken
  <2>2. Top.base = Caller.base + (CallDepth - 1)
    BY <1>8, <1>9, <1>11, <2>1
  <2>. QED
    BY <1>3, <1>4, <1>5, <1>6, <1>7, <1>8, <1>9, <1>10, <1>11, <1>12, <1>14, <1>16, <2>2, <1>2
<1>17. CASE Top.kind \in {"next", "default"}
  <2>1. Taken(Top.kind, Calling.arg) = Calling.arg /\ Calling.arg >= 1
    BY <1>11, <1>17 DEF Taken, Waits
  <2>2. Top.base = Caller.base + (CallDepth - Calling.arg)
    BY <1>8, <1>9, <1>11, <1>12, <1>17, <2>1
  <2>. QED
    BY <1>3, <1>4, <1>5, <1>6, <1>7, <1>8, <1>9, <1>10, <1>11, <1>12, <1>14, <1>17, <2>1, <2>2, <1>2
<1>18. CASE Top.kind = "collect"
  <2>1. Taken(Top.kind, Calling.arg) = -1 /\ Calling.arg >= 1
    BY <1>11, <1>18 DEF Taken, Waits
  <2>2. Top.base = Caller.base + (CallDepth + 1)
    BY <1>8, <1>9, <1>11, <2>1
  <2>. QED
    BY <1>3, <1>4, <1>5, <1>6, <1>7, <1>8, <1>9, <1>10, <1>11, <1>12, <1>14, <1>18, <2>1, <2>2, <1>2
<1>. QED
  BY <1>10, <1>15, <1>16, <1>17, <1>18 DEF Kinds

(* The caller goes on with the operands st, CallSite the instruction that called *)
(* or, its result being there, CallSite the next.                                *)
LEMMA ComesBack ==
  ASSUME IInv, StructuredCode, status = "run", Top.fn # "main" \/ Top.gen # NoGen,
         NEW q, NEW gs, Running(Front(frames), gs), Generators(gs), Len(gs) = Len(gens),
         NEW st, Values(st, Len(gens)),
         \/ q = CallSite /\ Len(st) = Caller.base + CallDepth
         \/ /\ q = CallSite + 1
            /\ Len(st) = Caller.base + (CallDepth + Effect(Calling)),
         frames' = Front(frames), ip' = q, gens' = gs, stack' = st,
         pid' = pid, codes' = codes, exc' = exc, status' = status
  PROVE  IInv'
<1>. DEFINE L == Len(frames)
            fs == Front(frames)
            n == Len(gens)
<1>1. /\ Fixed /\ n \in Nat /\ exc \notin {"start", "run"}
  BY Ready
<1>2. /\ L - 1 \in 1..L - 1 /\ IsSeq(fs) /\ Len(fs) = L - 1 /\ fs[L - 1] = Caller
      /\ Shape(fs, CallSite, gens) /\ Caller.fn \in DOMAIN codes /\ codes[Caller.fn].ok
      /\ CallSite \in DOMAIN codes[Caller.fn].depth
      /\ Calling.op \in {"CALL", "RANGE_NEXT"}
  BY CallerIs
<1>. HIDE DEF fs
<1>3. /\ q \in DOMAIN codes[Caller.fn].depth /\ Opens(Caller.fn)[q] = Opens(Caller.fn)[CallSite]
      /\ Len(st) = Caller.base + codes[Caller.fn].depth[q]
  <2>1. CASE q = CallSite /\ Len(st) = Caller.base + CallDepth
    BY <1>2, <2>1 DEF CallDepth
  <2>2. CASE q = CallSite + 1 /\ Len(st) = Caller.base + (CallDepth + Effect(Calling))
    <3>1. /\ CallSite + 1 \in DOMAIN codes[Caller.fn].depth
          /\ codes[Caller.fn].depth[CallSite + 1] = CallDepth + Effect(Calling)
          /\ Opens(Caller.fn)[CallSite + 1] = Nested(codes[Caller.fn], CallSite, Opens(Caller.fn)[CallSite])
      BY <1>1, <1>2, FallThrough DEF Ends, Calling, CallDepth
    <3>2. Nested(codes[Caller.fn], CallSite, Opens(Caller.fn)[CallSite]) = Opens(Caller.fn)[CallSite]
      BY <1>2 DEF Nested, Calling
    <3>. QED
      BY <2>2, <3>1, <3>2
  <2>. QED
    BY <2>1, <2>2
<1>4. Shape(fs, q, gens)
  BY <1>2, <1>3, ShapeGoes
<1>5. Shape(fs, q, gs)
  BY <1>1, <1>4, ShapeMore
<1>6. Consistent(fs, q, gs, st)
  BY <1>2, <1>3, <1>5 DEF Consistent, fs
<1>7. Consistent(frames', ip', gens', stack')
  BY <1>6 DEF fs
<1>. QED
  BY <1>1, <1>7, Stands

LEMMA HaltStep ==
  ASSUME IInv, StructuredCode, Halt
  PROVE  IInv'
<1>1. status = "run" /\ Current.code[ip].op = "HALT"
  BY DEF Halt, Fetch
<1>2. /\ Fixed /\ Shape(frames, ip, gens) /\ Running(frames, gens) /\ Generators(gens)
      /\ Len(frames) \in 1..Len(frames) /\ Len(frames) \in Nat /\ FrameOK(Top, ip, Len(gens))
      /\ Top.fn \in DOMAIN codes /\ codes[Top.fn].ok /\ Current = codes[Top.fn]
      /\ ip \in DOMAIN Current.depth /\ exc \notin {"start", "run"}
  BY <1>1, Ready
<1>3. Top.fn = "main"
  BY <1>1, <1>2 DEF StructuredCode, Structured, StructuredAt
<1>4. Len(frames) = 1
  <2>. SUFFICES ASSUME Len(frames) # 1  PROVE FALSE
    OBVIOUS
  <2>1. Len(frames) - 1 \in 1..Len(frames) - 1 /\ (Len(frames) - 1) + 1 = Len(frames)
    <3>1. Len(frames) >= 1
      BY <1>2
    <3>. QED
      BY <1>2, <3>1, Below
  <2>2. CallOK(frames[Len(frames) - 1], Top, Site(Top))
    BY <1>2, <2>1, ShapeTop DEF Top
  <2>. QED
    BY <1>3, <2>2 DEF CallOK
<1>5. /\ status' = "halted" /\ frames' = <<>> /\ gens' = gens
      /\ pid' = pid /\ codes' = codes /\ exc' = exc
  BY <1>4 DEF Halt
<1>6. Top.gen = NoGen
  <2>1. ~ codes["main"].gen
    BY <1>2, <1>3, CodeIs
  <2>. QED
    BY <1>2, <1>3, <2>1 DEF FrameOK
<1>7. Running(<<>>, gens)
  <2>1. ASSUME NEW g \in 1..Len(gens), gens[g].state = "running"  PROVE FALSE
    <3>1. PICK i \in 1..Len(frames) : frames[i].gen = g
      BY <1>2, <2>1 DEF Running
    <3>2. i = 1
      BY <1>4, <3>1
    <3>. QED
      BY <1>4, <1>6, <3>1, <3>2 DEF Top, NoGen
  <2>2. Len(<<>>) = 0
    OBVIOUS
  <2>3. \A i \in 1..Len(<<>>) : FALSE
    BY <2>2
  <2>. QED
    BY <2>1, <2>3 DEF Running
<1>. QED
  BY <1>2, <1>5, <1>7, Stops

LEMMA ReturnStep ==
  ASSUME IInv, StructuredCode, ReturnOp
  PROVE  IInv'
<1>. DEFINE st == IF Fetch("RETURN_NONE") THEN Append(stack, None) ELSE stack
<1>1. /\ status = "run" /\ Current.code[ip].op \in {"RETURN_VALUE", "RETURN_NONE"}
      /\ Top.gen = NoGen
      /\ Len(frames) # 1 => /\ frames' = Front(frames) /\ stack' = st /\ ip' = Top.ret
                            /\ gens' = gens /\ status' = status
      /\ pid' = pid /\ codes' = codes /\ exc' = exc
  BY DEF ReturnOp, Fetch
<1>2. /\ Fixed /\ Shape(frames, ip, gens) /\ Running(frames, gens) /\ Generators(gens)
      /\ IsSeq(frames) /\ FrameOK(Top, ip, Len(gens)) /\ Values(stack, Len(gens))
      /\ Top.fn \in DOMAIN codes /\ codes[Top.fn].ok /\ Current = codes[Top.fn]
      /\ ip \in DOMAIN Current.depth /\ N = Top.base + Current.depth[ip] /\ Top.base \in Nat
      /\ N \in Nat
  BY <1>1, Ready
<1>3. Top.fn # "main" /\ ~ Current.gen
      /\ (Current.code[ip].op = "RETURN_VALUE" => Current.depth[ip] = 1)
      /\ (Current.code[ip].op = "RETURN_NONE" => Current.depth[ip] = 0)
  <2>1. ~ Current.gen
    BY <1>1, <1>2 DEF FrameOK
  <2>2. StructuredAt(Top.fn, Current, Nesting(Current), ip)
    BY <1>2 DEF StructuredCode, Structured
  <2>. QED
    BY <1>1, <2>1, <2>2 DEF StructuredAt
<1>4. Top.kind = "call"
  BY <1>1, <1>2 DEF FrameOK
<1>5. Values(st, Len(gens)) /\ Len(st) = Top.base + 1
  <2>1. CASE Current.code[ip].op = "RETURN_NONE"
    <3>1. st = Append(stack, None)
      BY <1>1, <2>1 DEF Fetch
    <3>2. Values(Append(stack, None), Len(gens)) /\ Len(Append(stack, None)) = N + 1
      BY <1>2, Harmless, ValuesAppend DEF N
    <3>3. N = Top.base
      BY <1>2, <1>3, <2>1
    <3>. QED
      BY <3>1, <3>2, <3>3
  <2>2. CASE Current.code[ip].op = "RETURN_VALUE"
    <3>1. st = stack
      BY <2>2 DEF Fetch
    <3>. QED
      BY <1>2, <1>3, <2>2, <3>1 DEF N
  <2>. QED
    BY <1>1, <2>1, <2>2
<1>. HIDE DEF st
<1>6. /\ Len(frames) # 1 /\ Len(frames) - 1 \in Nat
      /\ Calling.op = "CALL" /\ Calling.arg = 0
      /\ Top.base = Caller.base + (CallDepth - 1) /\ Top.ret = CallSite + 1
      /\ Caller.base \in Nat /\ CallDepth \in Nat
      /\ Front(frames) = SubSeq(frames, 1, Len(frames) - 1)
      /\ Len(Front(frames)) = Len(frames) - 1
  BY <1>1, <1>3, <1>4, CallerIs
<1>7. Effect(Calling) = 0
  BY <1>6, EffectIs
<1>8. Len(st) = Caller.base + (CallDepth + Effect(Calling))
  <2>1. \A x, y \in Nat : (x + (y - 1)) + 1 = x + (y + 0)
    OBVIOUS
  <2>. QED
    BY <1>5, <1>6, <1>7, <2>1
<1>9. Running(Front(frames), gens)
  <2>1. \A i \in 1..Len(frames) - 1 : Front(frames)[i] = frames[i] /\ i \in 1..Len(frames)
    <3>1. Len(frames) - 1 \in 0..Len(frames) /\ \A i \in 1..Len(frames) - 1 : i \in 1..Len(frames)
      BY <1>2, <1>6, SeqBasics
    <3>. QED
      BY <1>2, <1>6, <3>1, SeqPrefix
  <2>2. ASSUME NEW g \in 1..Len(gens), gens[g].state = "running"
        PROVE  \E i \in 1..Len(frames) - 1 : Front(frames)[i].gen = g
    <3>1. PICK i \in 1..Len(frames) : frames[i].gen = g
      BY <1>2, <2>2 DEF Running
    <3>2. i # Len(frames)
      BY <1>1, <3>1 DEF Top, NoGen
    <3>3. i \in 1..Len(frames) - 1
      <4>1. \A l \in Nat : \A j \in 1..l : j # l => j \in 1..l - 1
        OBVIOUS
      <4>2. Len(frames) \in Nat
        BY <1>2, SeqBasics
      <4>. QED
        BY <3>2, <4>1, <4>2
    <3>. QED
      BY <2>1, <3>1, <3>3
  <2>. DEFINE fs == Front(frames)
  <2>3. Len(fs) = Len(frames) - 1
    BY <1>6
  <2>. HIDE DEF fs
  <2>4. \A i \in 1..Len(fs) : fs[i] = frames[i] /\ i \in 1..Len(frames)
    BY <2>1, <2>3 DEF fs
  <2>5. \A g \in 1..Len(gens) : gens[g].state = "running" => \E i \in 1..Len(fs) : fs[i].gen = g
    BY <2>2, <2>3 DEF fs
  <2>6. ASSUME NEW i \in 1..Len(fs), fs[i].gen # NoGen
        PROVE  /\ fs[i].gen \in 1..Len(gens) /\ gens[fs[i].gen].state = "running"
               /\ gens[fs[i].gen].fn = fs[i].fn
    BY <1>2, <2>4, <2>6 DEF Running
  <2>7. ASSUME NEW i \in 1..Len(fs), NEW j \in 1..Len(fs), fs[i].gen = fs[j].gen, fs[i].gen # NoGen
        PROVE  i = j
    BY <1>2, <2>4, <2>7 DEF Running
  <2>8. Running(fs, gens)
    BY <2>5, <2>6, <2>7 DEF Running
  <2>. QED
    BY <2>8 DEF fs
<1>. QED
  BY <1>1, <1>2, <1>3, <1>5, <1>6, <1>8, <1>9, ComesBack
(* A generator gives a value to its caller and keeps its own operands.     *)
LEMMA SuspendStep ==
  ASSUME IInv, StructuredCode, status = "run", Current.code[ip].op = "YIELD_VALUE",
         Top.gen # NoGen, Top.kind # "collect",
         NEW o, o = [gens[Top.gen] EXCEPT !.state = "suspended", !.ip = ip + 1,
                       !.saved = Operands(Top), !.locals = Top.locals,
                       !.tries = Rebase(Top.tries, -Top.base)],
         frames' = Front(frames), gens' = Replaced(gens, Top.gen, o),
         IF Top.kind = "for"
         THEN stack' = Append(SubSeq(stack, 1, Top.base), stack[N]) /\ ip' = Top.ret + 1
         ELSE stack' = Append(SubSeq(stack, 1, Top.base - 1), stack[N]) /\ ip' = Top.ret,
         pid' = pid, codes' = codes, exc' = exc, status' = status
  PROVE  IInv'
<1>. DEFINE h == Top.gen
            n == Len(gens)
            gs == Replaced(gens, h, o)
            c == codes[Top.fn]
            b == Top.base
<1>1. /\ Fixed /\ Shape(frames, ip, gens) /\ Running(frames, gens) /\ Generators(gens)
      /\ IsSeq(frames) /\ IsSeq(gens) /\ FrameOK(Top, ip, n) /\ Values(stack, n)
      /\ Top.fn \in DOMAIN codes /\ c.ok /\ Current = c
      /\ ip \in DOMAIN c.depth /\ N = b + c.depth[ip] /\ b \in Nat
      /\ N \in Nat /\ c.depth[ip] \in Nat /\ ip \in Nat /\ Len(frames) \in 1..Len(frames)
  BY Ready
<1>2. Needs(Current.code[ip]) = 1 /\ Effect(Current.code[ip]) = -1
  BY NeedsIs, EffectIs
<1>3. N - 1 \in Nat /\ Proper(stack[N], n) /\ c.depth[ip] >= 1
  <2>1. c.depth[ip] - Needs(Current.code[ip]) >= FloorOf(Opens(Top.fn)[ip])
        /\ FloorOf(Opens(Top.fn)[ip]) \in Nat
    BY <1>1, Standing
  <2>2. c.depth[ip] >= 1
    BY <1>1, <1>2, <2>1
  <2>3. 1 \in Nat /\ 1 <= Needs(Current.code[ip]) /\ 1 > 0
    BY <1>2
  <2>4. N - 1 \in Nat /\ Proper(stack[N], Len(gens))
    BY <2>3, CutOK
  <2>. QED
    BY <2>2, <2>4
<1>4. /\ ip + 1 \in DOMAIN c.depth /\ c.depth[ip + 1] = c.depth[ip] + (-1)
      /\ Opens(Top.fn)[ip + 1] = Nested(c, ip, Opens(Top.fn)[ip])
  BY <1>1, <1>2, FallThrough DEF Ends
<1>5. Opens(Top.fn)[ip + 1] = Opens(Top.fn)[ip]
  BY <1>1, <1>4 DEF Nested
<1>6. h \in 1..n /\ gens[h].fn = Top.fn
  BY <1>1 DEF Running, Top
<1>7. GenOK(gens[h], n)
  BY <1>1, <1>6 DEF Generators
<1>8. /\ DOMAIN o = GenFields /\ o.fn = Top.fn /\ o.state = "suspended" /\ o.ip = ip + 1
      /\ o.saved = Operands(Top) /\ o.locals = Top.locals /\ o.tries = Rebase(Top.tries, -b)
  BY <1>6, <1>7 DEF GenOK, GenFields
<1>9. o.tries = Opens(Top.fn)[ip]
  <2>. DEFINE bs == Opens(Top.fn)[ip]
              D == DOMAIN c.depth
  <2>1. bs \in Seq(Blocks(D)) /\ Top.tries = Rebase(bs, b)
    BY <1>1, BlocksOpen
  <2>. HIDE DEF bs, D
  <2>2. Rebase(Rebase(bs, b), -b) = bs
    BY <1>1, <2>1, RebaseBack
  <2>. QED
    BY <1>8, <2>1, <2>2 DEF bs
<1>10. Values(o.saved, n) /\ Len(o.saved) = c.depth[ip + 1]
  <2>1. b + 1 \in 1..N + 1 /\ N - 1 \in (b + 1) - 1..N
    <3>1. \A x, y \in Nat : y >= 1 => /\ x + 1 \in 1..(x + y) + 1
                                     /\ (x + y) - 1 \in (x + 1) - 1..x + y
      OBVIOUS
    <3>. QED
      BY <1>1, <1>3, <3>1
  <2>2. Values(SubSeq(stack, b + 1, N - 1), n)
        /\ Len(SubSeq(stack, b + 1, N - 1)) = (N - 1) - (b + 1) + 1
    BY <1>1, <2>1, ValuesPart DEF N
  <2>3. (N - 1) - (b + 1) + 1 = c.depth[ip + 1]
    <3>1. \A x, y \in Nat : ((x + y) - 1) - (x + 1) + 1 = y + (-1)
      OBVIOUS
    <3>. QED
      BY <1>1, <1>4, <3>1
  <2>4. o.saved = SubSeq(stack, b + 1, N - 1)
    BY <1>8 DEF Operands
  <2>. QED
    BY <2>2, <2>3, <2>4
<1>11. GenOK(o, n)
  <2>1. (ip + 1) - 1 = ip
    BY <1>1
  <2>2. Top.fn \in DOMAIN codes \ {"main"} /\ codes[Top.fn].ok /\ codes[Top.fn].gen
    BY <1>6, <1>7 DEF GenOK
  <2>3. LocalsOK(Top.locals, n)
    BY <1>1 DEF FrameOK
  <2>. HIDE DEF n
  <2>. QED
    BY <1>1, <1>4, <1>5, <1>8, <1>9, <1>10, <2>1, <2>2, <2>3 DEF GenOK
<1>12. Generators(gs) /\ Len(gs) = n
  BY <1>1, <1>11, GeneratorsReplaced
<1>13. Running(Front(frames), gs)
  <2>1. o.state # "running" /\ Len(frames) >= 1
    BY <1>1, <1>8
  <2>2. Running(SubSeq(frames, 1, Len(frames) - 1), gs)
    BY <1>1, <2>1, RunningStopped DEF Top
  <2>. QED
    BY <2>2 DEF Front
<1>. HIDE DEF gs
<1>14. CASE Top.kind = "for"
  <2>. DEFINE st == Append(SubSeq(stack, 1, b), stack[N])
  <2>1. /\ Calling.op = "RANGE_NEXT" /\ b = Caller.base + CallDepth /\ Top.ret = CallSite
        /\ Caller.base \in Nat /\ CallDepth \in Nat
    BY <1>14, CallerIs
  <2>2. Effect(Calling) = 1
    BY <2>1, EffectIs
  <2>3. b \in 0..N
    BY <1>1
  <2>4. Values(SubSeq(stack, 1, b), n) /\ Len(SubSeq(stack, 1, b)) = b
    BY <1>1, <2>3, ValuesPrefix DEF N
  <2>5. Values(st, n) /\ Len(st) = b + 1
    <3>. DEFINE ps == SubSeq(stack, 1, b)
                v == stack[N]
    <3>1. Values(ps, n) /\ Len(ps) = b /\ Proper(v, n)
      BY <1>3, <2>4
    <3>. HIDE DEF ps, v, n
    <3>2. Values(Append(ps, v), n) /\ Len(Append(ps, v)) = Len(ps) + 1
      BY <3>1, ValuesAppend
    <3>. QED
      BY <3>1, <3>2 DEF ps, v
  <2>6. b + 1 = Caller.base + (CallDepth + Effect(Calling))
    BY <2>1, <2>2
  <2>7. stack' = st /\ ip' = CallSite + 1
    BY <1>14, <2>1
  <2>. HIDE DEF st
  <2>. QED
    BY <1>12, <1>13, <2>5, <2>6, <2>7, ComesBack DEF gs
<1>15. CASE Top.kind # "for"
  <2>. DEFINE st == Append(SubSeq(stack, 1, b - 1), stack[N])
  <2>1. Top.kind \in {"next", "default"}
    <3>1. Top.kind \in Kinds /\ (Top.kind = "call" <=> Top.gen = NoGen)
      BY CallerIs
    <3>. QED
      BY <1>15, <3>1 DEF Kinds
  <2>2. /\ Calling.op = "CALL" /\ Calling.arg \in Nat /\ Needs(Calling) = Calling.arg + 1
        /\ b = Caller.base + (CallDepth - Calling.arg) /\ Top.ret = CallSite + 1
        /\ Caller.base \in Nat /\ CallDepth \in Nat
        /\ CallDepth - Needs(Calling) >= FloorOf(Opens(Caller.fn)[CallSite])
        /\ FloorOf(Opens(Caller.fn)[CallSite]) \in Nat
    BY <1>15, <2>1, CallerIs
  <2>3. Effect(Calling) = - Calling.arg
    BY <2>2, EffectIs
  <2>4. b - 1 \in 0..N
    <3>1. \A d, a, m, k \in Nat : d - (a + 1) >= k => (m + (d - a)) - 1 >= 0
      OBVIOUS
    <3>2. b - 1 >= 0
      BY <2>2, <3>1
    <3>3. \A x, y \in Nat : x - 1 >= 0 => x - 1 \in 0..x + y
      OBVIOUS
    <3>. QED
      BY <1>1, <3>2, <3>3
  <2>5. Values(SubSeq(stack, 1, b - 1), n) /\ Len(SubSeq(stack, 1, b - 1)) = b - 1
    BY <1>1, <2>4, ValuesPrefix DEF N
  <2>6. Values(st, n) /\ Len(st) = (b - 1) + 1
    <3>. DEFINE ps == SubSeq(stack, 1, b - 1)
                v == stack[N]
    <3>1. Values(ps, n) /\ Len(ps) = b - 1 /\ Proper(v, n)
      BY <1>3, <2>5
    <3>. HIDE DEF ps, v, n
    <3>2. Values(Append(ps, v), n) /\ Len(Append(ps, v)) = Len(ps) + 1
      BY <3>1, ValuesAppend
    <3>. QED
      BY <3>1, <3>2 DEF ps, v
  <2>7. (b - 1) + 1 = Caller.base + (CallDepth + Effect(Calling))
    BY <1>1, <2>2, <2>3
  <2>8. stack' = st /\ ip' = CallSite + 1
    BY <1>15, <2>2
  <2>. HIDE DEF st
  <2>. QED
    BY <1>12, <1>13, <2>6, <2>7, <2>8, ComesBack DEF gs
<1>. QED
  BY <1>14, <1>15

LEMMA YieldStep ==
  ASSUME IInv, StructuredCode, YieldValue
  PROVE  IInv'
<1>1. status = "run" /\ Current.code[ip].op = "YIELD_VALUE"
  BY DEF YieldValue, Fetch
<1>2. CASE Top.gen = NoGen
  <2>1. Abort("BytecodeError", frames, gens) /\ pid' = pid /\ codes' = codes /\ exc' = exc
    <3>1. Top.kind # "collect"
      BY <1>1, <1>2, Ready DEF FrameOK
    <3>. QED
      BY <1>2, <3>1 DEF YieldValue
  <2>. QED
    BY <1>1, <2>1, AbortOK, Ready
<1>3. CASE Top.gen # NoGen /\ Top.kind = "collect"
  <2>. DEFINE x == <<"list", Append(Cut(1)[Top.base][2], stack[N])>>
              st == Replaced(Cut(1), Top.base, x)
  <2>1. Go(st, ip + 1)
    BY <1>3 DEF YieldValue, Replaced
  <2>2. Stays(st, ip + 1)
    BY <2>1, GoStays
  <2>3. Needs(Current.code[ip]) = 1 /\ Effect(Current.code[ip]) = -1
    BY <1>1, NeedsIs, EffectIs
  <2>4. Values(Cut(1), Len(gens)) /\ Len(Cut(1)) = N - 1 /\ N \in Nat
    BY <1>1, <2>3, CutOK, Ready
  <2>5. Proper(x, Len(gens))
    BY Harmless
  <2>. HIDE DEF x
  <2>6. Values(st, Len(gens)) /\ Len(st) = N - 1
    BY <2>4, <2>5, ValuesReplaced
  <2>. HIDE DEF st
  <2>7. N - 1 = N + (-1)
    BY <2>4
  <2>. QED
    BY <1>1, <2>2, <2>3, <2>6, <2>7, Onward DEF Ends
<1>4. CASE Top.gen # NoGen /\ Top.kind # "collect"
  <2>. DEFINE o == [gens[Top.gen] EXCEPT !.state = "suspended", !.ip = ip + 1,
                      !.saved = Operands(Top), !.locals = Top.locals,
                      !.tries = Rebase(Top.tries, -Top.base)]
  <2>1. /\ frames' = Front(frames) /\ gens' = Replaced(gens, Top.gen, o)
        /\ IF Top.kind = "for"
           THEN stack' = Append(SubSeq(stack, 1, Top.base), stack[N]) /\ ip' = Top.ret + 1
           ELSE stack' = Append(SubSeq(stack, 1, Top.base - 1), stack[N]) /\ ip' = Top.ret
        /\ pid' = pid /\ codes' = codes /\ exc' = exc /\ status' = status
    <3>1. /\ frames' = Front(frames) /\ gens' = [gens EXCEPT ![Top.gen] = o]
          /\ IF Top.kind = "for"
             THEN stack' = Append(SubSeq(stack, 1, Top.base), stack[N]) /\ ip' = Top.ret + 1
             ELSE stack' = Append(SubSeq(stack, 1, Top.base - 1), stack[N]) /\ ip' = Top.ret
          /\ UNCHANGED <<pid, codes, exc, out, status>>
      BY <1>4, Zenon DEF YieldValue
    <3>. HIDE DEF o
    <3>. QED
      BY <3>1 DEF Replaced
  <2>2. o = [gens[Top.gen] EXCEPT !.state = "suspended", !.ip = ip + 1,
               !.saved = Operands(Top), !.locals = Top.locals,
               !.tries = Rebase(Top.tries, -Top.base)]
    OBVIOUS
  <2>. HIDE DEF o
  <2>. QED
    BY <1>1, <1>4, <2>1, <2>2, SuspendStep
<1>. QED
  BY <1>2, <1>3, <1>4

(* A generator is over.                                                    *)
LEMMA ReturnGeneratorStep ==
  ASSUME IInv, StructuredCode, ReturnGenerator
  PROVE  IInv'
<1>. DEFINE L == Len(frames)
            n == Len(gens)
            b == Top.base
            below == Front(frames)
            done == Finished(gens, frames, L - 1)
            vs == Replaced(stack, b - Calling.arg, stack[b])
<1>1. /\ status = "run" /\ Current.code[ip].op \in {"RETURN_VALUE", "RETURN_NONE"}
      /\ Top.gen # NoGen
  BY DEF ReturnGenerator, Fetch
<1>2. /\ Fixed /\ Shape(frames, ip, gens) /\ Running(frames, gens) /\ Generators(gens)
      /\ IsSeq(frames) /\ IsSeq(gens) /\ n \in Nat /\ Values(stack, n) /\ N \in Nat
      /\ b \in Nat /\ N = b + Current.depth[ip] /\ Current.depth[ip] \in Nat /\ L \in Nat
      /\ exc \notin {"start", "run"}
  BY <1>1, Ready
<1>3. /\ L - 1 \in 1..L /\ below = SubSeq(frames, 1, L - 1) /\ Len(below) = L - 1
      /\ L - 1 \in 1..L - 1 /\ IsSeq(below)
      /\ below[L - 1] = Caller /\ Shape(below, CallSite, gens)
      /\ Caller.base \in Nat /\ CallDepth \in Nat /\ CallSite \in Nat
      /\ CallDepth - Needs(Calling) >= FloorOf(Opens(Caller.fn)[CallSite])
      /\ FloorOf(Opens(Caller.fn)[CallSite]) \in Nat
      /\ Top.kind \in Kinds /\ Top.kind # "call"
  BY <1>1, CallerIs
<1>4. Running(below, done) /\ Generators(done) /\ Len(done) = n
  <2>1. L - 1 \in 0..L
    BY <1>2, <1>3
  <2>. QED
    BY <1>2, <1>3, <2>1, RunningCut
<1>5. Shape(below, CallSite, done)
  BY <1>2, <1>3, <1>4, ShapeMore
<1>6. b \in 0..N
  BY <1>2
<1>7. CASE Top.kind = "next"
  <2>1. /\ b = Caller.base + (CallDepth - Calling.arg) /\ Calling.arg \in Nat
        /\ Needs(Calling) = Calling.arg + 1
    BY <1>1, <1>7, CallerIs
  <2>. DEFINE st == SubSeq(stack, 1, b - 1)
  <2>2. b - 1 \in 0..N /\ b - 1 >= Caller.base + FloorOf(Opens(Caller.fn)[CallSite])
    <3>1. \A d, a, m, k \in Nat : d - (a + 1) >= k => (m + (d - a)) - 1 >= m + k
      OBVIOUS
    <3>2. b - 1 >= Caller.base + FloorOf(Opens(Caller.fn)[CallSite])
      BY <1>3, <2>1, <3>1
    <3>3. \A x, y, m, k \in Nat : x - 1 >= m + k => x - 1 \in 0..x + y
      OBVIOUS
    <3>. QED
      BY <1>2, <1>3, <3>2, <3>3
  <2>3. Values(st, n) /\ Len(st) = b - 1
    BY <1>2, <2>2, ValuesPrefix DEF N
  <2>4. Throw("StopIteration", exc, below, done, st)
    BY <1>3, <1>7 DEF ReturnGenerator
  <2>. HIDE DEF st, below, done
  <2>. QED
    BY <1>1, <1>2, <1>3, <1>4, <1>5, <2>2, <2>3, <2>4, ThrowOK
<1>8. CASE Top.kind # "next"
  <2>1. /\ frames' = below /\ gens' = done /\ ip' = Top.ret
        /\ stack' = IF Top.kind = "collect" THEN SubSeq(vs, 1, b - 1) ELSE SubSeq(stack, 1, b)
        /\ pid' = pid /\ codes' = codes /\ exc' = exc /\ status' = status
    <3>1. (Top.kind = "collect") => Top.ret = CallSite
      BY <1>1, CallerIs
    <3>2. (Top.kind = "collect") => codes[below[Len(below)].fn].code[Top.ret].arg = Calling.arg
      BY <1>3, <3>1 DEF Calling
    <3>. HIDE DEF below
    <3>3. /\ frames' = below /\ gens' = done /\ ip' = Top.ret
          /\ stack' = IF Top.kind = "collect"
                      THEN SubSeq(Replaced(stack, b - codes[below[Len(below)].fn].code[Top.ret].arg,
                                           stack[b]), 1, b - 1)
                      ELSE SubSeq(stack, 1, b)
          /\ pid' = pid /\ codes' = codes /\ exc' = exc /\ status' = status
      BY <1>3, <1>8 DEF ReturnGenerator, below
    <3>. QED
      BY <3>2, <3>3
  <2>. HIDE DEF below, done
  <2>2. CASE Top.kind = "collect"
    <3>. DEFINE st == SubSeq(vs, 1, b - 1)
    <3>1. b = Caller.base + (CallDepth + 1) /\ Top.ret = CallSite
      BY <1>1, <2>2, CallerIs
    <3>2. b \in 1..N /\ b - 1 \in 0..N /\ b - 1 = Caller.base + CallDepth
      <4>1. \A x, y, l \in Nat : x + (y + 1) \in 0..l =>
              /\ x + (y + 1) \in 1..l /\ (x + (y + 1)) - 1 \in 0..l
              /\ (x + (y + 1)) - 1 = x + y
        OBVIOUS
      <4>2. Caller.base \in Nat /\ CallDepth \in Nat /\ N \in Nat /\ b \in 0..N
        BY <1>2, <1>3, <1>6
      <4>. HIDE DEF b
      <4>. QED
        BY <3>1, <4>1, <4>2
    <3>3. Proper(stack[b], n)
      BY <1>2, <3>2 DEF Values, N
    <3>4. Values(vs, n) /\ Len(vs) = N
      BY <1>2, <3>3, ValuesReplaced DEF N
    <3>. HIDE DEF vs
    <3>5. Values(st, n) /\ Len(st) = Caller.base + CallDepth
      BY <3>2, <3>4, ValuesPrefix
    <3>6. stack' = st /\ ip' = CallSite
      BY <2>1, <2>2, <3>1
    <3>. HIDE DEF st
    <3>. QED
      BY <1>1, <1>4, <2>1, <3>5, <3>6, ComesBack DEF below
  <2>3. CASE Top.kind = "for"
    <3>. DEFINE st == SubSeq(stack, 1, b)
    <3>1. b = Caller.base + CallDepth /\ Top.ret = CallSite
      BY <1>1, <2>3, CallerIs
    <3>2. Values(st, n) /\ Len(st) = Caller.base + CallDepth
      BY <1>2, <1>6, <3>1, ValuesPrefix DEF N
    <3>3. stack' = st /\ ip' = CallSite
      BY <2>1, <2>3, <3>1
    <3>. HIDE DEF st
    <3>. QED
      BY <1>1, <1>4, <2>1, <3>2, <3>3, ComesBack DEF below
  <2>4. CASE Top.kind = "default"
    <3>. DEFINE st == SubSeq(stack, 1, b)
    <3>1. /\ b = Caller.base + (CallDepth - Calling.arg) /\ Top.ret = CallSite + 1
          /\ Calling.op = "CALL" /\ Calling.arg \in Nat
      BY <1>1, <2>4, CallerIs
    <3>2. Effect(Calling) = - Calling.arg
      BY <3>1, EffectIs
    <3>3. b = Caller.base + (CallDepth + Effect(Calling))
      BY <1>3, <3>1, <3>2
    <3>4. Values(st, n) /\ Len(st) = b
      BY <1>2, <1>6, ValuesPrefix DEF N
    <3>5. stack' = st /\ ip' = CallSite + 1
      BY <2>1, <2>4, <3>1
    <3>. HIDE DEF st
    <3>. QED
      BY <1>1, <1>4, <2>1, <3>3, <3>4, <3>5, ComesBack DEF below
  <2>. QED
    BY <1>3, <1>8, <2>2, <2>3, <2>4 DEF Kinds
<1>. QED
  BY <1>7, <1>8

LEMMA UnderflowStep ==
  ASSUME IInv, StructuredCode, Underflow
  PROVE  IInv'
<1>1. /\ status = "run" /\ Abort("BytecodeError", frames, gens)
      /\ pid' = pid /\ codes' = codes /\ exc' = exc
  BY DEF Underflow
<1>. QED
  BY <1>1, AbortOK, Ready
-----------------------------------------------------------------------------
(* The whole run.                                                          *)

LEMMA InitIInv ==
  ASSUME Init
  PROVE  IInv
<1>1. Fixed /\ exc \notin {"start", "run"} /\ status = "start"
  BY DEF Init, Fixed
<1>2. frames = <<>> /\ stack = <<>> /\ gens = <<>> /\ ip = 1
  BY DEF Init
<1>3. Len(<<>>) = 0 /\ IsSeq(<<>>)
  BY DEF IsSeq
<1>4. \A i \in 1..Len(<<>>) : FALSE
  BY <1>3
<1>5. Generators(<<>>) /\ Running(<<>>, <<>>)
  BY <1>3, <1>4 DEF Generators, Running
<1>. QED
  BY <1>1, <1>2, <1>5 DEF IInv

(* The module begins with the activation of its own code, if that verifies.*)
LEMMA ExecuteStep ==
  ASSUME IInv, StructuredCode, Execute
  PROVE  IInv'
<1>1. /\ status = "start" /\ Fixed /\ exc \notin {"start", "run"}
      /\ frames = <<>> /\ stack = <<>> /\ gens = <<>> /\ ip = 1
      /\ Generators(gens) /\ Running(frames, gens)
      /\ pid' = pid /\ codes' = codes /\ ip' = ip /\ stack' = stack /\ gens' = gens /\ exc' = exc
  BY DEF Execute, IInv
<1>2. "main" \in DOMAIN codes /\ ~ codes["main"].gen
  <2>1. "main" \in DOMAIN codes
    BY <1>1, CompiledAssumption DEF Fixed
  <2>. QED
    BY <1>1, <2>1, CodeIs
<1>3. CASE ~ codes["main"].ok
  <2>1. status' = "BytecodeError" /\ frames' = frames
    BY <1>3 DEF Execute
  <2>. QED
    BY <1>1, <2>1, Stops
<1>4. CASE codes["main"].ok
  <2>. DEFINE f == [fn |-> "main", ret |-> 0, gen |-> NoGen, base |-> 0, kind |-> "call",
                    tries |-> <<>>, locals |-> Locals]
              fs == <<f>>
  <2>1. status' = "run" /\ frames' = fs
    BY <1>4 DEF Execute
  <2>2. 1 \in DOMAIN codes["main"].depth /\ codes["main"].depth[1] = 0 /\ Opens("main")[1] = <<>>
    BY <1>1, <1>2, <1>4, Entry
  <2>3. DOMAIN f = FrameFields /\ f.fn = "main" /\ f.base = 0 /\ f.gen = NoGen /\ f.kind = "call"
        /\ f.tries = <<>> /\ f.locals = Locals
    BY DEF FrameFields
  <2>. HIDE DEF f
  <2>4. FrameOK(f, 1, Len(gens))
    <3>1. Rebase(Opens("main")[1], 0) = <<>>
      BY <2>2, RebaseEmpty
    <3>. QED
      BY <1>2, <1>4, <2>2, <2>3, <3>1, LocalsUnbound DEF FrameOK, Kinds
  <2>5. IsSeq(fs) /\ Len(fs) = 1 /\ fs[1] = f
    <3>1. fs \in Seq({f}) /\ Len(fs) = 1 /\ fs[1] = f
      OBVIOUS
    <3>. QED
      BY <3>1, SeqWithin
  <2>. HIDE DEF fs
  <2>6. Shape(fs, 1, gens)
    <3>1. fs[Len(fs)] = f /\ Len(fs) >= 1 /\ fs[1].fn = "main" /\ fs[1].base = 0
      BY <2>3, <2>5
    <3>2. \A i \in 1..Len(fs) - 1 : FALSE
      BY <2>5
    <3>3. \A i \in 1..Len(fs) : fs[i].base = 0
      BY <2>5, <3>1
    <3>4. \A i, j \in 1..Len(fs) : i <= j => fs[i].base <= fs[j].base
      BY <3>3
    <3>. QED
      BY <2>4, <2>5, <3>1, <3>2, <3>4, ShapeMade
  <2>7. Running(fs, gens)
    <3>1. \A i \in 1..Len(fs) : i = 1 /\ fs[i].gen = NoGen
      BY <2>3, <2>5
    <3>2. \A g \in 1..Len(gens) : FALSE
      BY <1>1
    <3>. QED
      BY <3>1, <3>2 DEF Running
  <2>8. Consistent(fs, 1, gens, stack)
    <3>1. fs[Len(fs)].fn = "main" /\ fs[Len(fs)].base = 0
      BY <2>3, <2>5
    <3>2. Values(stack, Len(gens)) /\ Len(stack) = 0
      BY <1>1, ValuesEmpty
    <3>. QED
      BY <1>1, <2>2, <2>6, <2>7, <3>1, <3>2 DEF Consistent
  <2>9. Consistent(frames', ip', gens', stack')
    BY <1>1, <2>1, <2>8
  <2>. QED
    BY <1>1, <2>1, <2>9, Stands
<1>. QED
  BY <1>3, <1>4

(* A run never changes its program.                                        *)
LEMMA CodeStays ==
  ASSUME Next
  PROVE  pid' = pid /\ codes' = codes
<1>1. ASSUME NEW k, NEW c, NEW fs, NEW gs, NEW st, Throw(k, c, fs, gs, st)
      PROVE  pid' = pid /\ codes' = codes
  BY <1>1 DEF Throw
<1>2. \A k, st : Error(k, st) => pid' = pid /\ codes' = codes
  BY <1>1 DEF Error
<1>3. \A st, next : Go(st, next) => pid' = pid /\ codes' = codes
  BY DEF Go
<1>4. \A g, k, r, st : Resume(g, k, r, st) => pid' = pid /\ codes' = codes
  BY <1>2 DEF Resume
<1>5. CASE Execute \/ Underflow \/ Halt \/ StoreName \/ PopTry \/ CallPrint
  BY <1>5 DEF Execute, Underflow, Halt, StoreName, PopTry, CallPrint
<1>6. CASE Load \/ LoadName \/ PopOp \/ Dup \/ RotTwo \/ EqualOp \/ Jump \/ JumpIfFalse
  BY <1>2, <1>3, <1>6 DEF Load, LoadName, PopOp, Dup, RotTwo, EqualOp, Jump, JumpIfFalse
<1>7. CASE LoadMethod \/ SetupTry \/ CheckExcept
  BY <1>2, <1>3, <1>7 DEF LoadMethod, SetupTry, CheckExcept
<1>8. CASE RaiseOp
  BY <1>1, <1>2, <1>8 DEF RaiseOp
<1>9. CASE CallMethod \/ CallFault \/ CallOther \/ ReturnOp
  BY <1>2, <1>9 DEF CallMethod, CallFault, CallOther, ReturnOp
<1>10. CASE CallNext
  BY <1>2, <1>3, <1>4, <1>10 DEF CallNext
<1>11. CASE CallList
  BY <1>2, <1>3, <1>4, <1>11 DEF CallList
<1>12. CASE CallFunction
  BY <1>2, <1>12 DEF CallFunction
<1>13. CASE RangeInit
  BY <1>2, <1>3, <1>13 DEF RangeInit
<1>14. CASE RangeNext
  BY <1>2, <1>3, <1>4, <1>14 DEF RangeNext
<1>15. CASE YieldValue
  BY <1>3, <1>15 DEF YieldValue
<1>16. CASE ReturnGenerator
  BY <1>1, <1>16 DEF ReturnGenerator
<1>. QED
  BY <1>5, <1>6, <1>7, <1>8, <1>9, <1>10, <1>11, <1>12, <1>13, <1>14, <1>15, <1>16 DEF Next

LEMMA StructureStays ==
  ASSUME StructuredCode, [Next]_vars
  PROVE  StructuredCode'
<1>1. codes' = codes
  BY CodeStays DEF vars
<1>. QED
  BY <1>1 DEF StructuredCode

LEMMA NextIInv ==
  ASSUME IInv, StructuredCode, [Next]_vars
  PROVE  IInv'
<1>1. CASE UNCHANGED vars
  <2>1. /\ pid' = pid /\ codes' = codes /\ ip' = ip /\ frames' = frames /\ stack' = stack
        /\ gens' = gens /\ exc' = exc /\ status' = status
    BY <1>1 DEF vars
  <2>2. Fixed /\ Fixed' /\ exc' \notin {"start", "run"}
    BY <2>1 DEF IInv, Fixed
  <2>3. CASE status = "run"
    <3>1. Consistent(frames', ip', gens', stack')
      BY <2>1, <2>3 DEF IInv
    <3>. QED
      BY <2>1, <2>2, <2>3, <3>1, Stands
  <2>4. CASE status # "run"
    <3>1. frames = <<>> /\ Generators(gens) /\ Running(frames, gens)
      BY <2>4 DEF IInv
    <3>2. Generators(gens)'
      BY <2>1, <3>1 DEF Generators, GenOK, Opens
    <3>3. Running(frames, gens)'
      BY <2>1, <3>1 DEF Running
    <3>. QED
      BY <2>1, <2>2, <2>4, <3>1, <3>2, <3>3 DEF IInv
  <2>. QED
    BY <2>3, <2>4
<1>2. CASE Execute \/ Underflow \/ Halt \/ Load \/ LoadName \/ StoreName \/ PopOp \/ Dup
  BY <1>2, ExecuteStep, UnderflowStep, HaltStep, LoadStep, LoadNameStep, StoreNameStep,
     PopStep, DupStep
<1>3. CASE RotTwo \/ EqualOp \/ Jump \/ JumpIfFalse \/ LoadMethod \/ SetupTry \/ PopTry
  BY <1>3, RotTwoStep, EqualStep, JumpStep, JumpIfFalseStep, LoadMethodStep, SetupTryStep,
     PopTryStep
<1>4. CASE RaiseOp \/ CheckExcept \/ CallPrint \/ CallMethod \/ CallFault \/ CallNext
  BY <1>4, RaiseStep, CheckExceptStep, CallPrintStep, CallMethodStep, CallFaultStep, CallNextStep
<1>5. CASE CallList \/ CallFunction \/ CallOther \/ ReturnOp \/ RangeInit \/ RangeNext
  BY <1>5, CallListStep, CallFunctionStep, CallOtherStep, ReturnStep, RangeInitStep, RangeNextStep
<1>6. CASE YieldValue \/ ReturnGenerator
  BY <1>6, YieldStep, ReturnGeneratorStep
<1>. QED
  BY <1>1, <1>2, <1>3, <1>4, <1>5, <1>6 DEF Next

(* The invariant that carries every property below: each activation stands *)
(* at an instruction of verified code, with the operands that the verifier *)
(* computed there and the try blocks that the code has open there; callers *)
(* wait at the instruction that called; a generator is running exactly if  *)
(* it has an activation, and otherwise keeps what its code needs.          *)
THEOREM Inductive == Spec /\ StructuredCode => [](IInv /\ StructuredCode)
<1>1. Init => IInv
  BY InitIInv
<1>2. IInv /\ StructuredCode /\ [Next]_vars => (IInv /\ StructuredCode)'
  BY NextIInv, StructureStays
<1>. QED
  BY <1>1, <1>2, PTL DEF Spec

(* py68_verify_code computes depths for one code object at a time; a run   *)
(* of any program of structured code keeps to them, in every activation,   *)
(* through jumps, calls, caught exceptions, yields and resumptions.        *)
THEOREM StackKept == Spec /\ StructuredCode => []StackAsVerified
<1>1. ASSUME IInv, StructuredCode  PROVE StackAsVerified
  <2>1. ASSUME status = "run"  PROVE ip \in DOMAIN Current.depth /\ N - Top.base = Current.depth[ip]
    <3>1. /\ ip \in DOMAIN Current.depth /\ N = Top.base + Current.depth[ip]
          /\ Top.base \in Nat /\ Current.depth[ip] \in Nat
      BY <1>1, <2>1, Ready
    <3>. QED
      BY <3>1
  <2>. QED
    BY <2>1 DEF StackAsVerified
<1>. QED
  BY <1>1, Inductive, PTL

(* No return address, handler or resumption point of structured code leads *)
(* to an instruction that py68_verify_code has not walked.                 *)
THEOREM VerifiedCodeRuns == Spec /\ StructuredCode => []RunsVerifiedCode
<1>1. ASSUME IInv, StructuredCode  PROVE RunsVerifiedCode
  BY <1>1, Ready DEF RunsVerifiedCode
<1>. QED
  BY <1>1, Inductive, PTL

LEMMA GeneratorsAre ==
  ASSUME IInv, NEW g \in DOMAIN gens
  PROVE  GenOK(gens[g], Len(gens)) /\ g \in 1..Len(gens) /\ Fixed
<1>1. Generators(gens) /\ Fixed
  BY DEF IInv, Consistent
<1>. QED
  BY <1>1, SeqBasics DEF Generators

(* A suspended generator has saved the operands that its code needs where  *)
(* it will go on.                                                          *)
THEOREM SavedKept == Spec /\ StructuredCode => []SavedAsVerified
<1>1. ASSUME IInv, StructuredCode  PROVE SavedAsVerified
  BY <1>1, GeneratorsAre DEF SavedAsVerified, GenOK
<1>. QED
  BY <1>1, Inductive, PTL

(* They fit the array that py68_generator_new made for them.               *)
THEOREM SavedAlwaysFits == Spec /\ StructuredCode => []SavedFits
<1>1. ASSUME IInv, StructuredCode  PROVE SavedFits
  <2>1. ASSUME NEW g \in DOMAIN gens, gens[g].state = "suspended"
        PROVE  Len(gens[g].saved) <= codes[gens[g].fn].max
    <3>. DEFINE o == gens[g]
                c == codes[o.fn]
                at == o.ip - 1
    <3>1. GenOK(o, Len(gens)) /\ Fixed
      BY <1>1, <2>1, GeneratorsAre
    <3>2. /\ o.fn \in DOMAIN codes /\ c.ok /\ o.ip \in DOMAIN c.depth
          /\ at \in DOMAIN c.depth /\ c.code[at].op = "YIELD_VALUE"
          /\ Len(o.saved) = c.depth[o.ip]
      BY <2>1, <3>1 DEF GenOK
    <3>. HIDE DEF o, at
    <3>3. at + 1 \in DOMAIN c.depth /\ c.depth[at + 1] = c.depth[at] + Effect(c.code[at])
      BY <1>1, <3>1, <3>2, FallThrough DEF Ends
    <3>4. at + 1 = o.ip
      <4>1. o.ip \in Nat
        BY <1>1, <3>1, <3>2, Standing
      <4>. QED
        BY <4>1 DEF at
    <3>5. c.depth[at] + Effect(c.code[at]) <= c.max
      BY <3>1, <3>2, CodeIs
    <3>. QED
      BY <3>2, <3>3, <3>4, <3>5 DEF o
  <2>. QED
    BY <2>1 DEF SavedFits
<1>. QED
  BY <1>1, Inductive, PTL

(* A generator says that it runs exactly while it has an activation, and   *)
(* it has one at most: the invariant of Activation, of the whole           *)
(* interpreter.                                                            *)
THEOREM RunningKept == Spec /\ StructuredCode => []RunningAsActivation
<1>1. ASSUME IInv  PROVE RunningAsActivation
  <2>1. /\ Running(frames, gens) /\ Generators(gens) /\ IsSeq(gens)
        /\ DOMAIN gens = 1..Len(gens) /\ Len(gens) \in Nat
    BY <1>1, SeqBasics DEF IInv, Consistent, Generators
  <2>2. DOMAIN frames = 1..Len(frames)
    <3>1. CASE status = "run"
      BY <1>1, <3>1, ShapeTop DEF IInv, Consistent
    <3>2. CASE status # "run"
      BY <1>1, <3>2 DEF IInv
    <3>. QED
      BY <3>1, <3>2
  <2>3. \A g \in Objects : g # NoGen
    BY LimitAssumption DEF Objects, NoGen
  <2>. DEFINE fs == Activations(frames)
              sts == States(gens)
  <2>4. DOMAIN fs = 1..Len(frames) /\ \A i \in 1..Len(frames) : fs[i].gen = frames[i].gen
    BY <2>2 DEF Activations
  <2>. HIDE DEF fs
  <2>5. ASSUME NEW g \in Objects
        PROVE  sts[g] = "running" <=> \E i \in DOMAIN fs : fs[i].gen = g
    <3>1. CASE g \in DOMAIN gens
      <4>1. sts[g] = gens[g].state /\ g \in 1..Len(gens)
        BY <2>1, <2>5, <3>1 DEF States
      <4>2. gens[g].state = "running" => \E i \in 1..Len(frames) : frames[i].gen = g
        BY <2>1, <4>1 DEF Running
      <4>3. ASSUME NEW i \in 1..Len(frames), frames[i].gen = g  PROVE gens[g].state = "running"
        BY <2>1, <2>3, <4>3 DEF Running
      <4>4. \A i : i \in DOMAIN fs <=> i \in 1..Len(frames)
        BY <2>4
      <4>. HIDE DEF sts
      <4>. QED
        BY <2>4, <4>1, <4>2, <4>3, <4>4
    <3>2. CASE g \notin DOMAIN gens
      <4>1. sts[g] = "absent" /\ g \notin 1..Len(gens)
        BY <2>1, <2>5, <3>2 DEF States
      <4>2. ASSUME NEW i \in 1..Len(frames), frames[i].gen = g  PROVE FALSE
        BY <2>1, <2>3, <4>1, <4>2 DEF Running
      <4>3. \A i \in DOMAIN fs : fs[i].gen # g
        BY <2>4, <4>2
      <4>. QED
        BY <4>1, <4>3
    <3>. QED
      BY <3>1, <3>2
  <2>6. \A i, j \in DOMAIN fs : fs[i].gen = fs[j].gen /\ fs[i].gen # NoGen => i = j
    BY <2>1, <2>4 DEF Running
  <2>. HIDE DEF sts
  <2>. QED
    BY <2>5, <2>6 DEF RunningAsActivation, A!RunningIffActive, A!Held, fs, sts
<1>. QED
  BY <1>1, Inductive, PTL

-----------------------------------------------------------------------------
(* The interpreter as steps of the activation stack.                       *)

(* What an activation is to Activation.                                    *)
Seen(f, i) ==
  [gen |-> f.gen, base |-> f.base, kind |-> f.kind, entry |-> i = 1, tries |-> Heights(f.tries)]

LEMMA ActivationsAre ==
  ASSUME NEW fs, IsSeq(fs)
  PROVE  /\ IsSeq(Activations(fs)) /\ Len(Activations(fs)) = Len(fs)
         /\ DOMAIN Activations(fs) = 1..Len(fs)
         /\ \A i \in 1..Len(fs) : Activations(fs)[i] = Seen(fs[i], i)
<1>1. Len(fs) \in Nat /\ DOMAIN fs = 1..Len(fs)
  BY SeqBasics
<1>2. Activations(fs) = [i \in 1..Len(fs) |-> Seen(fs[i], i)]
  BY <1>1 DEF Activations, Seen
<1>. DEFINE af == Activations(fs)
<1>3. \A i \in 1..Len(fs) : af[i] = Seen(fs[i], i)
  BY <1>2
<1>4. af = [i \in 1..Len(fs) |-> af[i]]
  BY <1>2
<1>. HIDE DEF af
<1>5. IsSeq(af) /\ Len(af) = Len(fs) /\ DOMAIN af = 1..Len(fs)
  BY <1>1, <1>4, SeqMade
<1>. QED
  BY <1>3, <1>5 DEF af

LEMMA HeightsAre ==
  ASSUME NEW ts, IsSeq(ts)
  PROVE  /\ IsSeq(Heights(ts)) /\ Len(Heights(ts)) = Len(ts)
         /\ \A b \in 1..Len(ts) : Heights(ts)[b] = ts[b].depth
<1>1. Len(ts) \in Nat /\ DOMAIN ts = 1..Len(ts)
  BY SeqBasics
<1>. DEFINE hs == Heights(ts)
<1>2. hs = [b \in 1..Len(ts) |-> ts[b].depth]
  BY <1>1 DEF Heights
<1>3. \A b \in 1..Len(ts) : hs[b] = ts[b].depth
  BY <1>2
<1>4. hs = [b \in 1..Len(ts) |-> hs[b]]
  BY <1>2
<1>. HIDE DEF hs
<1>5. IsSeq(hs) /\ Len(hs) = Len(ts)
  BY <1>1, <1>4, SeqMade
<1>. QED
  BY <1>3, <1>5 DEF hs

(* The try blocks of an activation are blocks with depths.                 *)
Tried(f) == IsSeq(f.tries) /\ \A b \in 1..Len(f.tries) : f.tries[b].depth \in Nat

LEMMA FrameTried ==
  ASSUME Fixed, StructuredCode, NEW f, NEW at, NEW n, FrameOK(f, at, n)
  PROVE  Tried(f)
<1>. DEFINE D == DOMAIN codes[f.fn].depth
            bs == Opens(f.fn)[at]
<1>1. bs \in Seq(Blocks(D)) /\ f.tries = Rebase(bs, f.base) /\ f.base \in Int /\ f.base \in Nat
  BY BlocksOpen
<1>2. \A b \in 1..Len(bs) : bs[b].depth \in Nat
  <2>1. \A b \in 1..Len(bs) : bs[b] \in Blocks(D)
    BY <1>1
  <2>. QED
    BY <2>1, BlocksAre
<1>. HIDE DEF bs, D
<1>3. /\ IsSeq(f.tries) /\ Len(f.tries) = Len(bs)
      /\ \A b \in 1..Len(bs) : f.tries[b] = [handler |-> bs[b].handler, depth |-> bs[b].depth + f.base]
  BY <1>1, RebaseIs
<1>4. ASSUME NEW b \in 1..Len(f.tries)  PROVE f.tries[b].depth \in Nat
  <2>1. f.tries[b].depth = bs[b].depth + f.base /\ bs[b].depth \in Nat
    <3>1. f.tries[b] = [handler |-> bs[b].handler, depth |-> bs[b].depth + f.base]
          /\ b \in 1..Len(bs)
      BY <1>3
    <3>2. \A h, d : [handler |-> h, depth |-> d].depth = d
      OBVIOUS
    <3>. QED
      BY <1>2, <3>1, <3>2
  <2>2. \A x, y \in Nat : x + y \in Nat
    OBVIOUS
  <2>. QED
    BY <1>1, <2>1, <2>2
<1>. QED
  BY <1>3, <1>4 DEF Tried

(* Generators whose activations are gone, in both views.                   *)
LEMMA EndedFields ==
  ASSUME NEW o, NEW n, GenOK(o, n)
  PROVE  /\ Ended(o).state = "done" /\ Ended(o).saved = <<>> /\ Ended(o).tries = <<>>
         /\ Ended(Ended(o)) = Ended(o)
BY DEF GenOK, Ended, GenFields

LEMMA FinishMaps ==
  ASSUME Generators(gens), NEW lost, IsSeq(gens'), Len(gens') = Len(gens),
         \A g \in 1..Len(gens) : gens'[g] = IF g \in lost THEN Ended(gens[g]) ELSE gens[g]
  PROVE  A!Finish(lost)
<1>1. DOMAIN gens = 1..Len(gens) /\ DOMAIN gens' = DOMAIN gens
  BY SeqBasics DEF Generators
<1>2. ASSUME NEW g \in DOMAIN gens, g \in lost
      PROVE  gens'[g].state = "done" /\ gens'[g].saved = <<>> /\ gens'[g].tries = <<>>
  BY <1>1, <1>2, EndedFields DEF Generators
<1>3. \A g \in DOMAIN gens : g \notin lost => gens'[g] = gens[g]
  BY <1>1
<1>4. Len(<<>>) = 0 /\ Heights(<<>>) = <<>>
  BY DEF Heights
<1>5. States(gens)' = [g \in Objects |-> IF g \notin lost THEN States(gens)[g]
                                         ELSE IF Counts(gens)[g] = 0 THEN "absent" ELSE "done"]
  BY <1>1, <1>2, <1>3 DEF States, Counts
<1>6. Sizes(gens)' = [g \in Objects |-> IF g \in lost THEN 0 ELSE Sizes(gens)[g]]
  BY <1>1, <1>2, <1>3, <1>4 DEF Sizes
<1>7. Keeps(gens)' = [g \in Objects |-> IF g \in lost THEN <<>> ELSE Keeps(gens)[g]]
  BY <1>1, <1>2, <1>3, <1>4 DEF Keeps
<1>8. Counts(gens)' = Counts(gens)
  BY <1>1 DEF Counts
<1>. QED
  BY <1>5, <1>6, <1>7, <1>8 DEF A!Finish

(* Which generators the activations above the k-th one are of.             *)
LEMMA GensOfIs ==
  ASSUME NEW fs, IsSeq(fs), NEW k \in Nat, NEW g, g # NoGen
  PROVE  g \in A!GensOf(Activations(fs), k) <=> \E i \in DOMAIN fs : i > k /\ fs[i].gen = g
<1>1. Len(fs) \in Nat /\ DOMAIN fs = 1..Len(fs)
  BY SeqBasics
<1>2. /\ DOMAIN Activations(fs) = 1..Len(fs)
      /\ \A i \in 1..Len(fs) : Activations(fs)[i].gen = fs[i].gen
  <2>1. \A i : Seen(fs[i], i).gen = fs[i].gen
    BY DEF Seen
  <2>. QED
    BY <2>1, ActivationsAre
<1>. QED
  BY <1>1, <1>2 DEF A!GensOf

(* What Finished leaves when the generators of lost had ended before.      *)
LEMMA FinishedMaps ==
  ASSUME Generators(gens), NEW fs, IsSeq(fs), NEW k \in Nat, NEW lost,
         NEW gs, IsSeq(gs), Len(gs) = Len(gens),
         \A g \in 1..Len(gens) : gs[g] = IF g \in lost THEN Ended(gens[g]) ELSE gens[g],
         gens' = Finished(gs, fs, k)
  PROVE  A!Finish(lost \cup A!GensOf(Activations(fs), k))
<1>. DEFINE all == lost \cup A!GensOf(Activations(fs), k)
<1>1. /\ IsSeq(gens') /\ Len(gens') = Len(gens)
      /\ \A g \in 1..Len(gens) : gens'[g] = IF \E i \in DOMAIN fs : i > k /\ fs[i].gen = g
                                            THEN Ended(gs[g]) ELSE gs[g]
  BY FinishedIs
<1>2. ASSUME NEW g \in 1..Len(gens)
      PROVE  gens'[g] = IF g \in all THEN Ended(gens[g]) ELSE gens[g]
  <2>1. g # NoGen
    BY SeqBasics DEF NoGen, Generators
  <2>2. g \in A!GensOf(Activations(fs), k) <=> \E i \in DOMAIN fs : i > k /\ fs[i].gen = g
    BY <2>1, GensOfIs
  <2>3. Ended(Ended(gens[g])) = Ended(gens[g])
    BY EndedFields DEF Generators
  <2>. QED
    BY <1>1, <2>2, <2>3
<1>. HIDE DEF all
<1>3. A!Finish(all)
  BY <1>1, <1>2, FinishMaps
<1>. QED
  BY <1>3 DEF all

LEMMA AbortMaps ==
  ASSUME Generators(gens), NEW fs, IsSeq(fs), NEW lost,
         NEW gs, IsSeq(gs), Len(gs) = Len(gens),
         \A g \in 1..Len(gens) : gs[g] = IF g \in lost THEN Ended(gens[g]) ELSE gens[g],
         NEW kind, Abort(kind, fs, gs)
  PROVE  A!AbortFrom(Activations(fs), lost)
<1>1. frames' = <<>> /\ stack' = <<>> /\ gens' = Finished(gs, fs, 0)
  BY DEF Abort
<1>2. Activations(frames)' = <<>> /\ Len(stack') = 0
  BY <1>1 DEF Activations
<1>3. A!Finish(lost \cup A!GensOf(Activations(fs), 0))
  BY <1>1, FinishedMaps
<1>. QED
  BY <1>2, <1>3 DEF A!AbortFrom

(* What is done to sequences of activations and of blocks, in both views.  *)
LEMMA ActivationsCut ==
  ASSUME NEW fs, IsSeq(fs), NEW k \in 0..Len(fs)
  PROVE  Activations(SubSeq(fs, 1, k)) = SubSeq(Activations(fs), 1, k)
<1>. DEFINE cut == SubSeq(fs, 1, k)
            af == Activations(fs)
<1>1. IsSeq(cut) /\ Len(cut) = k /\ \A i \in 1..k : cut[i] = fs[i]
  BY SeqPrefix
<1>2. IsSeq(af) /\ Len(af) = Len(fs) /\ \A i \in 1..Len(fs) : af[i] = Seen(fs[i], i)
  BY ActivationsAre
<1>. HIDE DEF cut, af
<1>3. IsSeq(SubSeq(af, 1, k)) /\ Len(SubSeq(af, 1, k)) = k /\ \A i \in 1..k : SubSeq(af, 1, k)[i] = af[i]
  BY <1>2, SeqPrefix
<1>4. /\ IsSeq(Activations(cut)) /\ Len(Activations(cut)) = k
      /\ \A i \in 1..k : Activations(cut)[i] = Seen(cut[i], i)
  BY <1>1, ActivationsAre
<1>5. \A i \in 1..k : i \in 1..Len(fs)
  BY SeqBasics
<1>6. \A i \in 1..k : Activations(cut)[i] = SubSeq(af, 1, k)[i]
  BY <1>1, <1>2, <1>3, <1>4, <1>5
<1>7. Activations(cut) = SubSeq(af, 1, k)
  BY <1>3, <1>4, <1>6, SeqEqual
<1>. QED
  BY <1>7 DEF cut, af

LEMMA ActivationsAppend ==
  ASSUME NEW fs, IsSeq(fs), NEW f
  PROVE  Activations(Append(fs, f)) = Append(Activations(fs), Seen(f, Len(fs) + 1))
<1>. DEFINE gs == Append(fs, f)
            af == Activations(fs)
            L == Len(fs)
            x == Seen(f, L + 1)
<1>1. L \in Nat /\ IsSeq(gs) /\ Len(gs) = L + 1 /\ (\A i \in 1..L : gs[i] = fs[i]) /\ gs[L + 1] = f
  BY SeqAppend, SeqBasics
<1>2. IsSeq(af) /\ Len(af) = L /\ \A i \in 1..L : af[i] = Seen(fs[i], i)
  BY ActivationsAre
<1>. HIDE DEF gs, af, x
<1>3. /\ IsSeq(Append(af, x)) /\ Len(Append(af, x)) = L + 1
      /\ (\A i \in 1..L : Append(af, x)[i] = af[i]) /\ Append(af, x)[L + 1] = x
  BY <1>2, SeqAppend
<1>4. /\ IsSeq(Activations(gs)) /\ Len(Activations(gs)) = L + 1
      /\ \A i \in 1..L + 1 : Activations(gs)[i] = Seen(gs[i], i)
  BY <1>1, ActivationsAre
<1>. HIDE DEF L
<1>5. \A i \in 1..L + 1 : i \in 1..L \/ i = L + 1
  BY <1>1
<1>6. L + 1 \in 1..L + 1 /\ \A i \in 1..L : i \in 1..L + 1
  BY <1>1
<1>7. Activations(gs)[L + 1] = x
  BY <1>1, <1>4, <1>6 DEF x
<1>8. \A i \in 1..L : Activations(gs)[i] = Append(af, x)[i]
  BY <1>1, <1>2, <1>3, <1>4, <1>6
<1>9. \A i \in 1..L + 1 : Activations(gs)[i] = Append(af, x)[i]
  BY <1>3, <1>5, <1>7, <1>8
<1>10. Activations(gs) = Append(af, x)
  BY <1>3, <1>4, <1>9, SeqEqual
<1>. QED
  BY <1>10 DEF gs, af, x, L

LEMMA ActivationsRetried ==
  ASSUME NEW fs, IsSeq(fs), NEW k \in 1..Len(fs), DOMAIN fs[k] = FrameFields, NEW ts
  PROVE  Activations([fs EXCEPT ![k].tries = ts]) = [Activations(fs) EXCEPT ![k].tries = Heights(ts)]
<1>. DEFINE h == [fs[k] EXCEPT !.tries = ts]
            gs == Replaced(fs, k, h)
            af == Activations(fs)
            y == [af[k] EXCEPT !.tries = Heights(ts)]
<1>1. h.gen = fs[k].gen /\ h.base = fs[k].base /\ h.kind = fs[k].kind /\ h.tries = ts
  BY DEF FrameFields
<1>2. gs = [fs EXCEPT ![k].tries = ts]
  BY DEF Replaced
<1>. HIDE DEF h
<1>3. IsSeq(gs) /\ Len(gs) = Len(fs) /\ \A i \in 1..Len(fs) : gs[i] = IF i = k THEN h ELSE fs[i]
  BY SeqReplaced
<1>. HIDE DEF gs
<1>4. IsSeq(af) /\ Len(af) = Len(fs) /\ \A i \in 1..Len(fs) : af[i] = Seen(fs[i], i)
  BY ActivationsAre
<1>5. y = Seen(h, k)
  <2>1. af[k] = Seen(fs[k], k)
    BY <1>4
  <2>2. \A g, b, c, t, u : \A e \in BOOLEAN :
          [[gen |-> g, base |-> b, kind |-> c, entry |-> e, tries |-> t] EXCEPT !.tries = u]
            = [gen |-> g, base |-> b, kind |-> c, entry |-> e, tries |-> u]
    OBVIOUS
  <2>3. y = [Seen(fs[k], k) EXCEPT !.tries = Heights(ts)]
    BY <2>1
  <2>. HIDE DEF y
  <2>4. y = [gen |-> fs[k].gen, base |-> fs[k].base, kind |-> fs[k].kind, entry |-> k = 1,
             tries |-> Heights(ts)]
    BY <2>2, <2>3 DEF Seen
  <2>. QED
    BY <1>1, <2>4 DEF Seen
<1>6. [af EXCEPT ![k].tries = Heights(ts)] = Replaced(af, k, y)
  BY DEF Replaced, y
<1>. HIDE DEF af, y
<1>7. /\ IsSeq(Replaced(af, k, y)) /\ Len(Replaced(af, k, y)) = Len(af)
      /\ \A i \in 1..Len(af) : Replaced(af, k, y)[i] = IF i = k THEN y ELSE af[i]
  BY <1>4, SeqReplaced
<1>8. /\ IsSeq(Activations(gs)) /\ Len(Activations(gs)) = Len(fs)
      /\ \A i \in 1..Len(fs) : Activations(gs)[i] = Seen(gs[i], i)
  BY <1>3, ActivationsAre
<1>9. \A i \in 1..Len(fs) : Activations(gs)[i] = Replaced(af, k, y)[i]
  BY <1>3, <1>4, <1>5, <1>7, <1>8
<1>10. Activations(gs) = Replaced(af, k, y)
  BY <1>4, <1>7, <1>8, <1>9, SeqEqual
<1>. QED
  BY <1>2, <1>6, <1>10 DEF af

LEMMA HeightsFront ==
  ASSUME NEW ts, IsSeq(ts), ts # <<>>
  PROVE  /\ Heights(Front(ts)) = SubSeq(Heights(ts), 1, Len(ts) - 1)
         /\ Heights(ts) # <<>> /\ Len(ts) \in 1..Len(ts)
<1>. DEFINE L == Len(ts)
            hs == Heights(ts)
            us == Front(ts)
<1>1. L \in Nat /\ L # 0 /\ L \in 1..L /\ L - 1 \in 0..L /\ \A i \in 1..L - 1 : i \in 1..L
  BY SeqBasics
<1>2. IsSeq(us) /\ Len(us) = L - 1 /\ \A i \in 1..L - 1 : us[i] = ts[i]
  BY <1>1, SeqPrefix DEF Front
<1>3. IsSeq(hs) /\ Len(hs) = L /\ \A i \in 1..L : hs[i] = ts[i].depth
  BY HeightsAre
<1>. HIDE DEF us, hs, L
<1>4. IsSeq(SubSeq(hs, 1, L - 1)) /\ Len(SubSeq(hs, 1, L - 1)) = L - 1
      /\ \A i \in 1..L - 1 : SubSeq(hs, 1, L - 1)[i] = hs[i]
  BY <1>1, <1>3, SeqPrefix
<1>5. IsSeq(Heights(us)) /\ Len(Heights(us)) = L - 1 /\ \A i \in 1..L - 1 : Heights(us)[i] = us[i].depth
  BY <1>2, HeightsAre
<1>6. \A i \in 1..L - 1 : Heights(us)[i] = SubSeq(hs, 1, L - 1)[i]
  BY <1>1, <1>2, <1>3, <1>4, <1>5
<1>7. Heights(us) = SubSeq(hs, 1, L - 1)
  BY <1>4, <1>5, <1>6, SeqEqual
<1>8. hs # <<>>
  BY <1>1, <1>3, SeqBasics
<1>. QED
  BY <1>1, <1>7, <1>8 DEF us, hs, L

LEMMA HeightsEmpty ==
  ASSUME NEW ts, IsSeq(ts)
  PROVE  Heights(ts) = <<>> <=> ts = <<>>
<1>1. IsSeq(Heights(ts)) /\ Len(Heights(ts)) = Len(ts)
  BY HeightsAre
<1>. QED
  BY <1>1, SeqBasics

LEMMA HeightsAppend ==
  ASSUME NEW ts, IsSeq(ts), NEW h, NEW d
  PROVE  Heights(Append(ts, [handler |-> h, depth |-> d])) = Append(Heights(ts), d)
<1>. DEFINE L == Len(ts)
            x == [handler |-> h, depth |-> d]
            us == Append(ts, x)
            hs == Heights(ts)
<1>1. x.depth = d
  OBVIOUS
<1>. HIDE DEF x
<1>2. L \in Nat /\ IsSeq(us) /\ Len(us) = L + 1 /\ (\A i \in 1..L : us[i] = ts[i]) /\ us[L + 1] = x
  BY SeqAppend, SeqBasics
<1>3. IsSeq(hs) /\ Len(hs) = L /\ \A i \in 1..L : hs[i] = ts[i].depth
  BY HeightsAre
<1>. HIDE DEF us, hs
<1>4. /\ IsSeq(Append(hs, d)) /\ Len(Append(hs, d)) = L + 1
      /\ (\A i \in 1..L : Append(hs, d)[i] = hs[i]) /\ Append(hs, d)[L + 1] = d
  BY <1>3, SeqAppend
<1>5. IsSeq(Heights(us)) /\ Len(Heights(us)) = L + 1 /\ \A i \in 1..L + 1 : Heights(us)[i] = us[i].depth
  BY <1>2, HeightsAre
<1>. HIDE DEF L
<1>6. L + 1 \in 1..L + 1 /\ \A i \in 1..L + 1 : i \in 1..L \/ i = L + 1
  BY <1>2
<1>7. ASSUME NEW i \in 1..L + 1  PROVE Heights(us)[i] = Append(hs, d)[i]
  <2>1. CASE i \in 1..L
    BY <1>2, <1>3, <1>4, <1>5, <2>1
  <2>2. CASE i = L + 1
    BY <1>1, <1>2, <1>4, <1>5, <2>2
  <2>. QED
    BY <1>6, <2>1, <2>2
<1>8. Heights(us) = Append(hs, d)
  BY <1>4, <1>5, <1>7, SeqEqual
<1>. QED
  BY <1>8 DEF us, hs, x

-----------------------------------------------------------------------------
(* Errors.                                                                 *)

(* py68_vm_catch is what Activation says of an exception that arises with  *)
(* the activations fs and the operands st.                                 *)
LEMMA ThrowMaps ==
  ASSUME Generators(gens), NEW fs, IsSeq(fs),
         \A i \in 1..Len(fs) : DOMAIN fs[i] = FrameFields /\ Tried(fs[i]),
         NEW lost, NEW gs, IsSeq(gs), Len(gs) = Len(gens),
         \A g \in 1..Len(gens) : gs[g] = IF g \in lost THEN Ended(gens[g]) ELSE gens[g],
         NEW st, IsSeq(st), Len(stack') < DepthMax,
         NEW kind, NEW current, Throw(kind, current, fs, gs, st)
  PROVE  A!RaiseFrom(Activations(fs), Len(st), lost)
<1>. DEFINE e == IF current # "none" /\ Kind(current) = kind THEN current ELSE kind
            catching == {k \in DOMAIN fs : fs[k].tries # <<>>}
            k == Max(catching)
            block == fs[k].tries[Len(fs[k].tries)]
            depth == IF Len(st) > block.depth THEN block.depth ELSE Len(st)
            af == Activations(fs)
<1>1. /\ catching = {} => Abort(kind, fs, gs)
      /\ catching # {} => /\ frames' = Unwound(fs, k)
                          /\ stack' = Append(SubSeq(st, 1, depth), <<"exc", e>>)
                          /\ gens' = Finished(gs, fs, k)
  BY DEF Throw
<1>2. Len(fs) \in Nat /\ DOMAIN fs = 1..Len(fs)
  BY SeqBasics
<1>3. /\ IsSeq(af) /\ Len(af) = Len(fs) /\ DOMAIN af = 1..Len(fs)
      /\ \A i \in 1..Len(fs) : af[i] = Seen(fs[i], i)
  BY ActivationsAre
<1>4. \A i \in 1..Len(fs) : af[i].tries = Heights(fs[i].tries)
  BY <1>3 DEF Seen
<1>5. \A i \in 1..Len(fs) : af[i].tries = <<>> <=> fs[i].tries = <<>>
  BY <1>4, HeightsEmpty DEF Tried
<1>. HIDE DEF e, k, af
<1>6. CASE catching = {}
  <2>1. A!AbortFrom(Activations(fs), lost)
    BY <1>1, <1>6, AbortMaps
  <2>2. \A i \in DOMAIN af : af[i].tries = <<>>
    BY <1>2, <1>3, <1>5, <1>6
  <2>. QED
    BY <2>1, <2>2 DEF A!RaiseFrom, af
<1>7. CASE catching # {}
  <2>1. k \in 1..Len(fs) /\ fs[k].tries # <<>> /\ \A i \in 1..Len(fs) : i > k => fs[i].tries = <<>>
    <3>1. catching \in SUBSET (1..Len(fs)) /\ IsFiniteSet(1..Len(fs)) /\ 1..Len(fs) \in SUBSET Int
      <4>1. 1 \in Int /\ Len(fs) \in Int
        BY <1>2
      <4>2. IsFiniteSet(1..Len(fs))
        BY <4>1, FS_Interval
      <4>. QED
        BY <1>2, <4>2
    <3>2. IsFiniteSet(catching) /\ catching \in SUBSET Int
      BY <3>1, FS_Subset
    <3>3. \E x \in catching : \A y \in catching : x >= y
      BY <1>7, <3>2, MaximumExists
    <3>4. k \in catching /\ \A y \in catching : k >= y
      BY <3>3 DEF Max, k
    <3>5. \A i \in 1..Len(fs) : i > k => i \notin catching
      BY <1>2, <3>4
    <3>. QED
      BY <1>2, <3>4, <3>5
  <2>2. frames' = Unwound(fs, k) /\ gens' = Finished(gs, fs, k)
        /\ stack' = Append(SubSeq(st, 1, depth), <<"exc", e>>)
    BY <1>1, <1>7
  <2>. DEFINE ts == fs[k].tries
              b == Len(ts)
  <2>3. IsSeq(ts) /\ b \in 1..b /\ b \in Nat /\ block.depth \in Nat /\ Len(Heights(ts)) = b
        /\ Heights(ts)[b] = block.depth /\ Heights(Front(ts)) = SubSeq(Heights(ts), 1, b - 1)
    BY <2>1, HeightsFront, HeightsAre, SeqBasics DEF Tried
  <2>4. af[k].tries = Heights(ts) /\ Len(af[k].tries) = b /\ af[k].tries[b] = block.depth
    BY <1>4, <2>1, <2>3
  <2>5. Len(st) \in Nat /\ depth \in 0..Len(st)
        /\ depth = IF Len(st) > block.depth THEN block.depth ELSE Len(st)
    BY <2>3, SeqBasics
  <2>. HIDE DEF catching, block, depth, b, ts
  <2>6. Len(stack') = depth + 1
    <3>1. IsSeq(SubSeq(st, 1, depth)) /\ Len(SubSeq(st, 1, depth)) = depth
      BY <2>5, SeqPrefix
    <3>. QED
      BY <2>2, <3>1, SeqAppend
  <2>7. Activations(frames)' = [SubSeq(af, 1, k) EXCEPT ![k].tries = SubSeq(af[k].tries, 1, b - 1)]
    <3>. DEFINE cut == SubSeq(fs, 1, k)
    <3>1. k \in 0..Len(fs) /\ k \in 1..k
      BY <1>2, <2>1
    <3>2. IsSeq(cut) /\ Len(cut) = k /\ cut[k] = fs[k]
      BY <3>1, SeqPrefix
    <3>3. DOMAIN cut[k] = FrameFields
      BY <2>1, <3>2
    <3>4. frames' = [cut EXCEPT ![k].tries = Front(ts)]
      BY <2>2, <3>2 DEF Unwound, ts
    <3>. HIDE DEF cut
    <3>5. \A us : Activations([cut EXCEPT ![k].tries = us])
                  = [Activations(cut) EXCEPT ![k].tries = Heights(us)]
      <4>1. k \in 1..Len(cut)
        BY <3>1, <3>2
      <4>. QED
        BY <3>2, <3>3, <4>1, ActivationsRetried
    <3>6. Activations(cut) = SubSeq(af, 1, k)
      BY <3>1, ActivationsCut DEF cut, af
    <3>. QED
      BY <2>3, <2>4, <3>4, <3>5, <3>6
  <2>8. A!Finish(lost \cup A!GensOf(af, k))
    <3>1. k \in Nat
      BY <1>2, <2>1
    <3>. QED
      BY <2>2, <3>1, FinishedMaps DEF af
  <2>9. A!CatchAt(k, af, Len(st), lost)
    <3>1. depth < DepthMax
      BY <2>5, <2>6, LimitAssumption
    <3>. QED
      BY <2>4, <2>5, <2>6, <2>7, <2>8, <3>1 DEF A!CatchAt
  <2>10. A!Catches(k, af) /\ k \in DOMAIN af
    BY <1>3, <1>5, <2>1 DEF A!Catches
  <2>. QED
    BY <2>9, <2>10 DEF A!RaiseFrom, af
<1>. QED
  BY <1>6, <1>7

-----------------------------------------------------------------------------
(* What Activation says of the innermost activation.                       *)

(* What one step of the interpreter is to Activation.                      *)
Simulated == A!Next \/ UNCHANGED A!vars

LEMMA FloorIs ==
  ASSUME Fixed, StructuredCode, NEW f, NEW at, NEW n, FrameOK(f, at, n), NEW i
  PROVE  A!Floor(Seen(f, i)) = f.base + FloorOf(Opens(f.fn)[at])
<1>. DEFINE D == DOMAIN codes[f.fn].depth
            bs == Opens(f.fn)[at]
            ts == f.tries
<1>1. /\ bs \in Seq(Blocks(D)) /\ ts = Rebase(bs, f.base) /\ f.base \in Int /\ f.base \in Nat
      /\ ts = <<>> <=> bs = <<>>
      /\ bs # <<>> => bs[Len(bs)].depth = FloorOf(bs)
  BY BlocksOpen
<1>. HIDE DEF bs, D, ts
<1>2. /\ IsSeq(ts) /\ Len(ts) = Len(bs) /\ Len(bs) \in Nat
      /\ \A b \in 1..Len(bs) : ts[b] = [handler |-> bs[b].handler, depth |-> bs[b].depth + f.base]
  BY <1>1, RebaseIs
<1>3. Seen(f, i).tries = Heights(ts) /\ Seen(f, i).base = f.base
  BY DEF Seen, ts
<1>4. Heights(ts) = <<>> <=> ts = <<>>
  BY <1>2, HeightsEmpty
<1>5. CASE ts = <<>>
  <2>1. FloorOf(bs) = 0
    BY <1>1, <1>5 DEF FloorOf
  <2>. QED
    BY <1>1, <1>3, <1>4, <1>5, <2>1 DEF A!Floor, bs
<1>6. CASE ts # <<>>
  <2>. DEFINE L == Len(bs)
  <2>1. L \in 1..L /\ Len(Heights(ts)) = L /\ Heights(ts)[L] = ts[L].depth
    <3>1. L \in 1..L
      BY <1>2, <1>6, SeqBasics
    <3>. QED
      BY <1>2, <3>1, HeightsAre
  <2>2. ts[L].depth = bs[L].depth + f.base
    <3>1. ts[L] = [handler |-> bs[L].handler, depth |-> bs[L].depth + f.base]
      BY <1>2, <2>1
    <3>2. \A h, d : [handler |-> h, depth |-> d].depth = d
      OBVIOUS
    <3>. QED
      BY <3>1, <3>2
  <2>3. bs[L].depth \in Nat /\ bs[L].depth = FloorOf(bs)
    <3>1. bs[L] \in Blocks(D)
      BY <1>1, <2>1
    <3>. QED
      BY <1>1, <1>6, <3>1, BlocksAre
  <2>4. A!Floor(Seen(f, i)) = Heights(ts)[L]
    BY <1>3, <1>4, <1>6, <2>1 DEF A!Floor
  <2>5. A!Floor(Seen(f, i)) = FloorOf(bs) + f.base /\ FloorOf(bs) \in Nat
    BY <2>1, <2>2, <2>3, <2>4
  <2>. QED
    BY <1>1, <2>5 DEF bs
<1>. QED
  BY <1>5, <1>6

LEMMA TopSeen ==
  ASSUME IInv, StructuredCode, status = "run"
  PROVE  /\ A!Live /\ A!Depth = Len(frames) /\ A!Top = Seen(Top, Len(frames))
         /\ Len(Activations(frames)) = Len(frames) /\ DOMAIN Activations(frames) = 1..Len(frames)
         /\ Top.base \in Nat
<1>1. IsSeq(frames) /\ Len(frames) \in Nat /\ Len(frames) \in 1..Len(frames) /\ Top.base \in Nat
  BY Ready
<1>2. /\ Len(Activations(frames)) = Len(frames) /\ DOMAIN Activations(frames) = 1..Len(frames)
      /\ \A i \in 1..Len(frames) : Activations(frames)[i] = Seen(frames[i], i)
  BY <1>1, ActivationsAre
<1>3. A!Depth = Len(frames)
  BY <1>2 DEF A!Depth
<1>4. A!Top = Seen(Top, Len(frames))
  BY <1>1, <1>2, <1>3 DEF A!Top, Top
<1>. QED
  BY <1>1, <1>2, <1>3, <1>4 DEF A!Live

(* Verified code has the operands its instruction takes.                   *)
LEMMA Poppable ==
  ASSUME IInv, StructuredCode, status = "run"
  PROVE  /\ Needs(Current.code[ip]) \in 0..ArgMax + 1 /\ N \in Nat
         /\ \A n \in 0..Needs(Current.code[ip]) : A!CanPop(n)
         /\ N < DepthMax => \A n \in 0..Needs(Current.code[ip]) : N - n < DepthMax /\ N - n \in Nat
<1>1. /\ Fixed /\ FrameOK(Top, ip, Len(gens)) /\ Top.base \in Nat /\ N \in Nat
      /\ WellFormed(Current.code[ip]) /\ Needs(Current.code[ip]) \in Nat
      /\ FloorOf(Opens(Top.fn)[ip]) \in Nat
      /\ N - Needs(Current.code[ip]) >= Top.base + FloorOf(Opens(Top.fn)[ip])
  BY Ready
<1>. DEFINE i == Current.code[ip]
            floor == Top.base + FloorOf(Opens(Top.fn)[ip])
<1>2. A!Floor(A!Top) = floor
  BY <1>1, TopSeen, FloorIs
<1>3. Needs(i) <= ArgMax + 1
  <2>. HIDE DEF i
  <2>0. ArgMax \in Nat /\ ArgMax >= 1
    BY LimitAssumption
  <2>1. CASE i.op = "CALL"
    BY <1>1, <2>0, <2>1, NeedsIs DEF WellFormed, i
  <2>2. CASE i.op # "CALL"
    <3>1. Needs(i) \in {0, 1, 2}
      BY <1>1, <2>2, NeedsIs DEF WellFormed, Opcodes, i
    <3>. QED
      BY <2>0, <3>1
  <2>. QED
    BY <2>1, <2>2
<1>. HIDE DEF i
<1>4. floor \in Nat /\ N - Needs(i) >= floor /\ Needs(i) \in Nat
  BY <1>1 DEF i
<1>. HIDE DEF floor
<1>5. ASSUME NEW n \in 0..Needs(i)  PROVE A!CanPop(n) /\ N - n \in Nat /\ (N < DepthMax => N - n < DepthMax)
  <2>1. n \in Nat /\ n <= Needs(i) /\ DepthMax \in Nat
    BY <1>4, LimitAssumption
  <2>2. N - n >= floor /\ N - n \in Nat /\ (N < DepthMax => N - n < DepthMax)
    BY <1>1, <1>4, <2>1
  <2>3. A!Floor(A!Top) = floor /\ A!Live
    BY <1>2, TopSeen
  <2>. QED
    BY <2>2, <2>3 DEF A!CanPop, N
<1>6. Needs(i) \in 0..ArgMax + 1
  BY <1>3, <1>4, LimitAssumption
<1>. QED
  BY <1>1, <1>5, <1>6 DEF i

LEMMA AllTried ==
  ASSUME IInv, StructuredCode, status = "run"
  PROVE  \A i \in 1..Len(frames) : DOMAIN frames[i] = FrameFields /\ Tried(frames[i])
<1>1. Fixed /\ \A i \in 1..Len(frames) : FrameOK(frames[i], Point(frames, ip, i), Len(gens))
  BY Ready, ShapeTop
<1>2. ASSUME NEW i \in 1..Len(frames)  PROVE DOMAIN frames[i] = FrameFields /\ Tried(frames[i])
  <2>1. FrameOK(frames[i], Point(frames, ip, i), Len(gens))
    BY <1>1
  <2>. QED
    BY <1>1, <2>1, FrameTried DEF FrameOK
<1>. QED
  BY <1>2

(* A plain instruction takes n operands and leaves m.                      *)
LEMMA OperateMaps ==
  ASSUME IInv, StructuredCode, status = "run", Room', NEW n \in 0..Needs(Current.code[ip]),
         NEW m \in 0..1, Len(stack') = N - n + m,
         Activations(frames)' = Activations(frames), gens' = gens
  PROVE  Simulated
<1>1. n \in 0..ArgMax + 1 /\ A!CanPop(n)
  BY Poppable, LimitAssumption
<1>2. N - n + m <= DepthMax
  <2>1. N \in Nat /\ n \in Nat /\ m \in Nat /\ DepthMax \in Nat /\ Len(stack') < DepthMax
    BY <1>1, Poppable, LimitAssumption DEF Room, N
  <2>. QED
    BY <2>1
<1>3. UNCHANGED A!gvars
  BY DEF A!gvars
<1>4. A!Operate
  BY <1>1, <1>2, <1>3 DEF A!Operate, N
<1>. QED
  BY <1>4 DEF A!Next, Simulated

LEMMA StutterMaps ==
  ASSUME Len(stack') = N, Activations(frames)' = Activations(frames), gens' = gens
  PROVE  Simulated
BY DEF Simulated, A!vars, A!gvars, N

(* A catchable error with the operands st.                                 *)
LEMMA RaiseFromMaps ==
  ASSUME IInv, StructuredCode, status = "run", Room', NEW kind, NEW current, NEW st, IsSeq(st),
         Throw(kind, current, frames, gens, st)
  PROVE  A!RaiseFrom(Activations(frames), Len(st), {})
<1>1. Generators(gens) /\ IsSeq(frames) /\ IsSeq(gens)
  BY Ready
<1>2. \A g \in 1..Len(gens) : gens[g] = IF g \in {} THEN Ended(gens[g]) ELSE gens[g]
  OBVIOUS
<1>3. Len(stack') < DepthMax
  BY DEF Room, N
<1>. QED
  BY <1>1, <1>2, <1>3, AllTried, ThrowMaps

LEMMA FailMaps ==
  ASSUME IInv, StructuredCode, status = "run", NEW kind, Abort(kind, frames, gens)
  PROVE  Simulated
<1>1. Generators(gens) /\ IsSeq(frames) /\ IsSeq(gens)
  BY Ready
<1>2. \A g \in 1..Len(gens) : gens[g] = IF g \in {} THEN Ended(gens[g]) ELSE gens[g]
  OBVIOUS
<1>3. A!AbortFrom(Activations(frames), {})
  BY <1>1, <1>2, AbortMaps
<1>4. A!Fail
  BY <1>3, TopSeen DEF A!Fail
<1>. QED
  BY <1>4 DEF A!Next, Simulated

LEMMA ErrorMaps ==
  ASSUME IInv, StructuredCode, status = "run", Room',
         NEW n \in 0..Needs(Current.code[ip]), n \in {0, 1},
         NEW st, IsSeq(st), Len(st) = N - n,
         NEW kind, NEW current, Throw(kind, current, frames, gens, st)
  PROVE  Simulated
<1>1. A!RaiseFrom(Activations(frames), N - n, {})
  BY RaiseFromMaps
<1>2. n \in 0..ArgMax /\ A!CanPop(n)
  BY Poppable, LimitAssumption
<1>3. A!Raise
  BY <1>1, <1>2, TopSeen DEF A!Raise, N
<1>. QED
  BY <1>3 DEF A!Next, Simulated

LEMMA WholeMaps ==
  ASSUME IInv, StructuredCode, status = "run", Room', NEW kind, Error(kind, stack)
  PROVE  Simulated
<1>1. IsSeq(stack) /\ N \in Nat /\ Needs(Current.code[ip]) \in Nat
  BY Ready
<1>2. Len(stack) = N - 0 /\ 0 \in 0..Needs(Current.code[ip])
  BY <1>1 DEF N
<1>. QED
  BY <1>1, <1>2, ErrorMaps DEF Error

LEMMA CutMaps ==
  ASSUME IInv, StructuredCode, status = "run", Room', Needs(Current.code[ip]) \in {1, 2},
         NEW kind, NEW current, Throw(kind, current, frames, gens, Cut(1))
  PROVE  Simulated
<1>1. IsSeq(Cut(1)) /\ Len(Cut(1)) = N - 1
  BY CutOne DEF Values
<1>2. 1 \in 0..Needs(Current.code[ip])
  OBVIOUS
<1>. QED
  BY <1>1, <1>2, ErrorMaps

(* One generator in both views, and what a step does to it alone.          *)
LEMMA OneGenerator ==
  ASSUME Generators(gens), Len(gens) <= GenMax, NEW g \in 1..Len(gens)
  PROVE  /\ g \in Objects /\ g \in DOMAIN gens
         /\ States(gens)[g] = gens[g].state /\ Sizes(gens)[g] = Len(gens[g].saved)
         /\ Keeps(gens)[g] = Heights(gens[g].tries) /\ Counts(gens)[g] = 1
         /\ gens[g].state # "absent" /\ A!Exists(g)
<1>1. g \in DOMAIN gens /\ g \in Objects
  <2>1. DOMAIN gens = 1..Len(gens) /\ Len(gens) \in Nat
    BY SeqBasics DEF Generators
  <2>. QED
    BY <2>1, LimitAssumption DEF Objects
<1>2. /\ States(gens)[g] = gens[g].state /\ Sizes(gens)[g] = Len(gens[g].saved)
      /\ Keeps(gens)[g] = Heights(gens[g].tries) /\ Counts(gens)[g] = 1
  BY <1>1 DEF States, Sizes, Keeps, Counts
<1>3. gens[g].state # "absent"
  BY DEF Generators, GenOK
<1>4. A!Exists(g)
  BY <1>2, <1>3 DEF A!Exists
<1>. QED
  BY <1>1, <1>2, <1>3, <1>4

LEMMA GeneratorMaps ==
  ASSUME Generators(gens), Len(gens) <= GenMax, NEW g \in 1..Len(gens), NEW o,
         gens' = Replaced(gens, g, o)
  PROVE  /\ States(gens)' = [States(gens) EXCEPT ![g] = o.state]
         /\ Sizes(gens)' = [Sizes(gens) EXCEPT ![g] = Len(o.saved)]
         /\ Keeps(gens)' = [Keeps(gens) EXCEPT ![g] = Heights(o.tries)]
         /\ Counts(gens)' = Counts(gens)
<1>1. g \in Objects /\ g \in DOMAIN gens
  BY OneGenerator
<1>2. DOMAIN gens' = DOMAIN gens /\ \A h \in DOMAIN gens : gens'[h] = IF h = g THEN o ELSE gens[h]
  BY DEF Replaced
<1>3. States(gens)' = [States(gens) EXCEPT ![g] = o.state]
  BY <1>1, <1>2 DEF States
<1>4. Sizes(gens)' = [Sizes(gens) EXCEPT ![g] = Len(o.saved)]
  BY <1>1, <1>2 DEF Sizes
<1>5. Keeps(gens)' = [Keeps(gens) EXCEPT ![g] = Heights(o.tries)]
  BY <1>1, <1>2 DEF Keeps
<1>6. Counts(gens)' = Counts(gens)
  BY <1>1, <1>2 DEF Counts
<1>. QED
  BY <1>3, <1>4, <1>5, <1>6

LEMMA HeightsRebased ==
  ASSUME NEW D, NEW ts \in Seq(Blocks(D)), NEW by \in Int
  PROVE  Heights(Rebase(ts, by)) = [i \in 1..Len(Heights(ts)) |-> Heights(ts)[i] + by]
<1>. DEFINE rs == Rebase(ts, by)
            hs == Heights(ts)
            rebased == [i \in 1..Len(hs) |-> hs[i] + by]
<1>1. /\ IsSeq(rs) /\ Len(rs) = Len(ts) /\ Len(ts) \in Nat
      /\ \A i \in 1..Len(ts) : rs[i] = [handler |-> ts[i].handler, depth |-> ts[i].depth + by]
  BY RebaseIs
<1>2. \A i \in 1..Len(ts) : rs[i].depth = ts[i].depth + by
  <2>1. \A h, d : [handler |-> h, depth |-> d].depth = d
    OBVIOUS
  <2>. HIDE DEF rs
  <2>. QED
    BY <1>1, <2>1
<1>3. IsSeq(ts)
  BY SeqWithin
<1>4. Len(hs) = Len(ts) /\ \A i \in 1..Len(ts) : hs[i] = ts[i].depth
  BY <1>3, HeightsAre
<1>. HIDE DEF rs, hs
<1>5. /\ IsSeq(Heights(rs)) /\ Len(Heights(rs)) = Len(ts)
      /\ \A i \in 1..Len(ts) : Heights(rs)[i] = rs[i].depth
  BY <1>1, HeightsAre
<1>6. \A i \in 1..Len(ts) : rebased[i] = hs[i] + by
  BY <1>4
<1>7. IsSeq(rebased) /\ Len(rebased) = Len(ts)
  <2>1. rebased = [i \in 1..Len(ts) |-> rebased[i]]
    BY <1>4
  <2>. HIDE DEF rebased
  <2>. QED
    BY <1>1, <2>1, SeqMade
<1>. HIDE DEF rebased
<1>8. \A i \in 1..Len(ts) : Heights(rs)[i] = rebased[i]
  BY <1>2, <1>4, <1>5, <1>6
<1>9. Heights(rs) = rebased
  BY <1>5, <1>7, <1>8, SeqEqual
<1>. QED
  BY <1>9 DEF rs, hs, rebased

(* py68_vm_resume_generator, with the operands st.                         *)
LEMMA ResumeMaps ==
  ASSUME IInv, StructuredCode, status = "run", Room, Room',
         NEW g \in 1..Len(gens), gens[g].state # "done",
         NEW kind, NEW ret, NEW st, IsSeq(st), Len(st) + Len(gens[g].saved) <= DepthMax,
         Resume(g, kind, ret, st)
  PROVE  A!Resume(g, kind, Len(st))
<1>. DEFINE o == gens[g]
            b == Len(st)
            f == Activate(o.fn, ret, g, b, kind, Rebase(o.tries, b), o.locals)
            r == [o EXCEPT !.state = "running", !.saved = <<>>]
<1>1. /\ Fixed /\ Generators(gens) /\ IsSeq(frames) /\ Len(frames) \in Nat /\ Len(frames) \in 1..Len(frames)
      /\ GenOK(o, Len(gens)) /\ Len(gens) <= GenMax
  BY Ready DEF Generators, Room
<1>2. /\ States(gens)[g] = o.state /\ Sizes(gens)[g] = Len(o.saved)
      /\ Keeps(gens)[g] = Heights(o.tries)
  BY <1>1, OneGenerator
<1>3. A!Reserve <=> Len(frames) < RecursionLimit
  BY TopSeen DEF A!Reserve
<1>4. Len(frames) \in Nat /\ RecursionLimit \in Nat /\ b \in Nat
  BY <1>1, SeqBasics, LimitAssumption
<1>5. CASE o.state = "running"
  <2>1. Error("ValueError", st)
    BY <1>5 DEF Resume
  <2>2. A!RaiseFrom(Activations(frames), b, {})
    BY <2>1, RaiseFromMaps DEF Error
  <2>. QED
    BY <1>2, <1>5, <2>2 DEF A!Resume
<1>6. CASE o.state # "running" /\ Len(frames) >= RecursionLimit
  <2>1. Error("RecursionError", st)
    BY <1>6 DEF Resume
  <2>2. A!RaiseFrom(Activations(frames), b, {})
    BY <2>1, RaiseFromMaps DEF Error
  <2>3. ~ A!Reserve
    BY <1>3, <1>4, <1>6
  <2>. QED
    BY <1>2, <1>6, <2>2, <2>3 DEF A!Resume
<1>7. CASE o.state # "running" /\ ~ (Len(frames) >= RecursionLimit)
  <2>1. /\ frames' = Append(frames, f) /\ stack' = st \o o.saved
        /\ gens' = [gens EXCEPT ![g].state = "running", ![g].saved = <<>>]
    BY <1>7 DEF Resume
  <2>2. /\ DOMAIN o = GenFields /\ o.tries \in Seq(Blocks(DOMAIN codes[o.fn].depth))
        /\ Values(o.saved, Len(gens))
    <3>1. /\ o.fn \in DOMAIN codes /\ codes[o.fn].ok /\ o.ip \in DOMAIN codes[o.fn].depth
          /\ o.tries = Opens(o.fn)[o.ip] /\ DOMAIN o = GenFields /\ Values(o.saved, Len(gens))
      BY <1>1, <1>7 DEF GenOK
    <3>2. Opens(o.fn)[o.ip] \in Seq([handler : DOMAIN codes[o.fn].depth, depth : Nat])
      BY <1>1, <3>1, Standing
    <3>. QED
      BY <3>1, <3>2 DEF Blocks
  <2>3. gens' = Replaced(gens, g, r)
    BY <1>1, <2>1, SeqBasics DEF Replaced
  <2>4. r.state = "running" /\ r.saved = <<>> /\ r.tries = o.tries
    BY <2>2 DEF GenFields
  <2>5. f.gen = g /\ f.base = b /\ f.kind = kind /\ f.tries = Rebase(o.tries, b)
    BY DEF Activate
  <2>6. Len(stack') = b + Len(o.saved)
    BY <2>1, <2>2, SeqConcat DEF Values
  <2>. HIDE DEF f, r
  <2>7. /\ States(gens)' = [States(gens) EXCEPT ![g] = "running"]
        /\ Sizes(gens)' = [Sizes(gens) EXCEPT ![g] = 0]
        /\ Counts(gens)' = Counts(gens)
    <3>1. Len(<<>>) = 0
      OBVIOUS
    <3>. QED
      BY <1>1, <2>3, <2>4, <3>1, GeneratorMaps
  <2>8. Keeps(gens)' = Keeps(gens)
    <3>1. Keeps(gens)' = [Keeps(gens) EXCEPT ![g] = Keeps(gens)[g]]
      BY <1>1, <1>2, <2>3, <2>4, GeneratorMaps
    <3>. QED
      BY <3>1 DEF Keeps
  <2>9. Activations(frames)' = Append(Activations(frames), Seen(f, Len(frames) + 1))
    BY <1>1, <2>1, ActivationsAppend
  <2>10. Seen(f, Len(frames) + 1)
           = A!Activate(g, b, kind, FALSE,
                        [i \in 1..Len(Keeps(gens)[g]) |-> Keeps(gens)[g][i] + b])
    <3>1. Heights(f.tries) = [i \in 1..Len(Heights(o.tries)) |-> Heights(o.tries)[i] + b]
      BY <1>4, <2>2, <2>5, HeightsRebased
    <3>2. (Len(frames) + 1 = 1) = FALSE
      BY <1>1
    <3>. QED
      BY <1>2, <2>5, <3>1, <3>2 DEF Seen, A!Activate
  <2>11. A!Reserve
    BY <1>3, <1>4, <1>7
  <2>. QED
    BY <1>2, <1>7, <2>6, <2>7, <2>8, <2>9, <2>10, <2>11 DEF A!Resume
<1>. QED
  BY <1>5, <1>6, <1>7

-----------------------------------------------------------------------------
(* Every action of the interpreter, as a step of Activation.               *)

LEMMA PlainMaps ==
  ASSUME IInv, StructuredCode, status = "run", Room', NEW n \in 0..Needs(Current.code[ip]),
         NEW m \in 0..1, NEW st, Len(st) = N - n + m, NEW next, Stays(st, next)
  PROVE  Simulated
<1>1. stack' = st /\ frames' = frames /\ gens' = gens
  BY DEF Stays
<1>2. Activations(frames)' = Activations(frames) /\ Len(stack') = N - n + m
  BY <1>1
<1>. QED
  BY <1>1, <1>2, OperateMaps

LEMMA IdleMaps ==
  ASSUME NEW st, Len(st) = N, NEW next, Stays(st, next)
  PROVE  Simulated
<1>1. stack' = st /\ frames' = frames /\ gens' = gens
  BY DEF Stays
<1>. QED
  BY <1>1, StutterMaps

LEMMA PushMaps ==
  ASSUME IInv, StructuredCode, status = "run", Room', NEW v, NEW next, Go(Append(stack, v), next)
  PROVE  Simulated
<1>. DEFINE st == Append(stack, v)
<1>1. IsSeq(stack) /\ N \in Nat /\ Needs(Current.code[ip]) \in Nat
  BY Ready
<1>2. Len(st) = N - 0 + 1
  <2>1. Len(st) = N + 1
    BY <1>1, SeqAppend DEF N
  <2>. HIDE DEF st
  <2>. QED
    BY <1>1, <2>1
<1>3. Stays(st, next)
  BY GoStays
<1>. HIDE DEF st
<1>4. 0 \in 0..Needs(Current.code[ip]) /\ 1 \in 0..1
  BY <1>1
<1>. QED
  BY <1>2, <1>3, <1>4, PlainMaps

LEMMA DropMaps ==
  ASSUME IInv, StructuredCode, status = "run", Room', Needs(Current.code[ip]) \in {1, 2},
         NEW next, Go(Cut(1), next)
  PROVE  Simulated
<1>1. Len(Cut(1)) = N - 1 /\ N \in Nat
  BY CutOne
<1>2. Len(Cut(1)) = N - 1 + 0 /\ 1 \in 0..Needs(Current.code[ip]) /\ 0 \in 0..1
  BY <1>1
<1>3. Stays(Cut(1), next)
  BY GoStays
<1>. QED
  BY <1>2, <1>3, PlainMaps

(* The operand on top gives way to another.                                *)
LEMMA ExchangeMaps ==
  ASSUME IInv, StructuredCode, status = "run", Needs(Current.code[ip]) \in {1, 2},
         NEW v, NEW next, Go(Append(Cut(1), v), next)
  PROVE  Simulated
<1>. DEFINE st == Append(Cut(1), v)
<1>1. Len(Cut(1)) = N - 1 /\ N \in Nat /\ IsSeq(Cut(1))
  BY CutOne DEF Values
<1>2. Len(st) = N
  <2>1. Len(st) = (N - 1) + 1
    BY <1>1, SeqAppend
  <2>. HIDE DEF st
  <2>. QED
    BY <1>1, <2>1
<1>3. Stays(st, next)
  BY GoStays
<1>. HIDE DEF st
<1>. QED
  BY <1>2, <1>3, IdleMaps

LEMMA LoadingMaps ==
  ASSUME IInv, StructuredCode, Room', Load \/ LoadName \/ Dup \/ LoadMethod
  PROVE  Simulated
<1>1. CASE Load
  BY <1>1, PushMaps DEF Load, Fetch
<1>2. CASE LoadName
  BY <1>2, PushMaps, WholeMaps DEF LoadName, Fetch
<1>3. CASE Dup
  BY <1>3, PushMaps DEF Dup, Fetch
<1>4. CASE LoadMethod
  <2>1. /\ status = "run" /\ Current.code[ip].op \in {"LOAD_ENTER", "LOAD_EXIT"}
        /\ \/ \E v : Go(Append(Cut(1), v), ip + 1)
           \/ Error("TypeError", Cut(1))
    BY <1>4 DEF LoadMethod, Fetch
  <2>2. Needs(Current.code[ip]) = 1
    BY <2>1, NeedsIs
  <2>. QED
    BY <2>1, <2>2, ExchangeMaps, CutMaps DEF Error
<1>. QED
  BY <1>1, <1>2, <1>3, <1>4

LEMMA MovingMaps ==
  ASSUME IInv, StructuredCode, Room', PopOp \/ RotTwo \/ EqualOp \/ Jump \/ JumpIfFalse \/ CheckExcept
  PROVE  Simulated
<1>1. CASE PopOp
  <2>1. status = "run" /\ Current.code[ip].op = "POP" /\ Go(Cut(1), ip + 1)
    BY <1>1 DEF PopOp, Fetch
  <2>. QED
    BY <2>1, NeedsIs, DropMaps
<1>2. CASE RotTwo \/ EqualOp
  <2>1. status = "run" /\ Current.code[ip].op \in {"ROT_TWO", "EQUAL"}
    BY <1>2 DEF RotTwo, EqualOp, Fetch
  <2>2. Needs(Current.code[ip]) = 2
    BY <2>1, NeedsIs
  <2>3. IsSeq(Cut(2)) /\ Len(Cut(2)) = N - 2 /\ N \in Nat
    BY <2>1, <2>2, CutTwo DEF Values
  <2>4. CASE RotTwo
    <3>. DEFINE two == <<stack[N], stack[N - 1]>>
                st == Cut(2) \o two
    <3>1. IsSeq(two) /\ Len(two) = 2
      <4>1. two \in Seq({stack[N], stack[N - 1]}) /\ Len(two) = 2
        OBVIOUS
      <4>. QED
        BY <4>1, SeqWithin
    <3>. HIDE DEF two
    <3>2. Len(st) = (N - 2) + 2
      <4>. DEFINE rest == Cut(2)
      <4>1. IsSeq(rest) /\ Len(rest) = N - 2
        BY <2>3
      <4>. HIDE DEF rest
      <4>2. Len(rest \o two) = Len(rest) + Len(two)
        BY <3>1, <4>1, SeqConcat
      <4>. QED
        BY <3>1, <4>1, <4>2 DEF rest
    <3>3. Stays(st, ip + 1)
      BY <2>4, GoStays DEF RotTwo, two
    <3>. HIDE DEF st
    <3>4. Len(st) = N
      BY <2>3, <3>2
    <3>. QED
      BY <3>3, <3>4, IdleMaps
  <2>5. CASE EqualOp
    <3>. DEFINE v == <<"bool", stack[N - 1] = stack[N]>>
                st == Append(Cut(2), v)
    <3>1. Stays(st, ip + 1)
      BY <2>5, GoStays DEF EqualOp
    <3>. HIDE DEF v
    <3>2. Len(st) = (N - 2) + 1
      BY <2>3, SeqAppend
    <3>. HIDE DEF st
    <3>3. Len(st) = N - 2 + 1 /\ 2 \in 0..Needs(Current.code[ip]) /\ 1 \in 0..1
      BY <2>2, <2>3, <3>2
    <3>. QED
      BY <2>1, <3>1, <3>3, PlainMaps
  <2>. QED
    BY <1>2, <2>4, <2>5
<1>3. CASE Jump
  <2>1. Stays(stack, Arg)
    BY <1>3, GoStays DEF Jump
  <2>. QED
    BY <2>1, IdleMaps DEF N
<1>4. CASE JumpIfFalse \/ CheckExcept
  <2>1. /\ status = "run" /\ Current.code[ip].op \in {"JUMP_IF_FALSE", "CHECK_EXCEPT"}
        /\ \E next : Go(Cut(1), next)
    BY <1>4 DEF JumpIfFalse, CheckExcept, Fetch
  <2>2. Needs(Current.code[ip]) \in {1, 2}
    BY <2>1, NeedsIs
  <2>. QED
    BY <2>1, <2>2, DropMaps
<1>. QED
  BY <1>1, <1>2, <1>3, <1>4

(* Only the innermost activation changes, and only in what Activation does *)
(* not have.                                                               *)
LEMMA StoreNameMaps ==
  ASSUME IInv, StructuredCode, Room', StoreName
  PROVE  Simulated
<1>. DEFINE L == Len(frames)
            f == [Top EXCEPT !.locals[Arg] = stack[N]]
            fs == Replaced(frames, L, f)
<1>1. /\ status = "run" /\ Current.code[ip].op = "STORE_NAME"
      /\ frames' = [frames EXCEPT ![L].locals[Arg] = stack[N]]
      /\ stack' = Cut(1) /\ gens' = gens
  BY DEF StoreName, Fetch
<1>2. Needs(Current.code[ip]) = 1
  BY <1>1, NeedsIs
<1>3. Len(Cut(1)) = N - 1 /\ N \in Nat
  BY <1>1, <1>2, CutOne
<1>4. IsSeq(frames) /\ L \in 1..L /\ FrameOK(Top, ip, Len(gens))
  BY <1>1, Ready
<1>5. frames' = fs
  BY <1>1, <1>4, SeqBasics DEF Replaced, Top
<1>6. f.base = Top.base /\ f.kind = Top.kind /\ f.gen = Top.gen /\ f.tries = Top.tries
  BY <1>4 DEF FrameOK, FrameFields
<1>. HIDE DEF f
<1>7. IsSeq(fs) /\ Len(fs) = L /\ \A i \in 1..L : fs[i] = IF i = L THEN f ELSE frames[i]
  BY <1>4, SeqReplaced
<1>. HIDE DEF fs
<1>8. Seen(f, L) = Seen(frames[L], L)
  BY <1>6 DEF Seen, Top
<1>9. Activations(fs) = Activations(frames)
  <2>1. /\ IsSeq(Activations(fs)) /\ Len(Activations(fs)) = L
        /\ \A i \in 1..L : Activations(fs)[i] = Seen(fs[i], i)
    BY <1>7, ActivationsAre
  <2>2. /\ IsSeq(Activations(frames)) /\ Len(Activations(frames)) = L
        /\ \A i \in 1..L : Activations(frames)[i] = Seen(frames[i], i)
    BY <1>4, ActivationsAre
  <2>3. \A i \in 1..L : Activations(fs)[i] = Activations(frames)[i]
    BY <1>7, <1>8, <2>1, <2>2
  <2>. QED
    BY <2>1, <2>2, <2>3, SeqEqual
<1>10. Activations(frames)' = Activations(frames)
  BY <1>5, <1>9
<1>11. Len(stack') = N - 1 + 0 /\ 1 \in 0..Needs(Current.code[ip]) /\ 0 \in 0..1
  BY <1>1, <1>2, <1>3
<1>. QED
  BY <1>1, <1>10, <1>11, OperateMaps

LEMMA RaisingMaps ==
  ASSUME IInv, StructuredCode, Room', RaiseOp
  PROVE  Simulated
<1>1. /\ status = "run" /\ Current.code[ip].op = "RAISE"
      /\ \E kind, current : Throw(kind, current, frames, gens, Cut(1))
  BY DEF RaiseOp, Fetch, Error
<1>. QED
  BY <1>1, NeedsIs, CutMaps

(* A try block is opened at the height of the stack, and closed again.     *)
LEMMA RetriedMaps ==
  ASSUME IInv, StructuredCode, status = "run", NEW ts,
         frames' = [frames EXCEPT ![Len(frames)].tries = ts]
  PROVE  Activations(frames)' = [Activations(frames) EXCEPT ![A!Depth].tries = Heights(ts)]
<1>1. IsSeq(frames) /\ Len(frames) \in 1..Len(frames)
  BY Ready
<1>2. DOMAIN frames[Len(frames)] = FrameFields
  BY <1>1, AllTried
<1>3. \A us : Activations([frames EXCEPT ![Len(frames)].tries = us])
              = [Activations(frames) EXCEPT ![Len(frames)].tries = Heights(us)]
  BY <1>1, <1>2, ActivationsRetried
<1>4. A!Depth = Len(frames)
  BY TopSeen
<1>. QED
  BY <1>3, <1>4

LEMMA SetupTryMaps ==
  ASSUME IInv, StructuredCode, Room', SetupTry
  PROVE  Simulated
<1>1. status = "run"
  BY DEF SetupTry, Fetch
<1>2. /\ A!Live /\ A!Top = Seen(Top, Len(frames)) /\ A!Top.tries = Heights(Top.tries)
      /\ A!Depth = Len(frames)
  <2>1. A!Top = Seen(Top, Len(frames))
    BY <1>1, TopSeen
  <2>2. A!Top.tries = Heights(Top.tries)
    BY <2>1 DEF Seen
  <2>. QED
    BY <1>1, <2>1, <2>2, TopSeen
<1>3. IsSeq(Top.tries) /\ Len(Heights(Top.tries)) = Len(Top.tries) /\ Len(Top.tries) \in Nat
  <2>1. Len(frames) \in 1..Len(frames)
    BY <1>1, Ready
  <2>2. Tried(Top)
    BY <1>1, <2>1, AllTried DEF Top
  <2>. QED
    BY <2>2, HeightsAre, SeqBasics DEF Tried
<1>4. CASE Len(Top.tries) >= TryMax
  <2>1. Error("ValueError", stack)
    BY <1>4 DEF SetupTry
  <2>. QED
    BY <1>1, <2>1, WholeMaps
<1>5. CASE ~ (Len(Top.tries) >= TryMax)
  <2>. DEFINE ts == Append(Top.tries, [handler |-> Arg, depth |-> N])
  <2>1. /\ frames' = [frames EXCEPT ![Len(frames)].tries = ts]
        /\ stack' = stack /\ gens' = gens
    BY <1>5 DEF SetupTry, Top
  <2>2. Heights(ts) = Append(Heights(Top.tries), N)
    BY <1>3, HeightsAppend
  <2>. HIDE DEF ts
  <2>3. Activations(frames)' = [Activations(frames) EXCEPT ![A!Depth].tries = Heights(ts)]
    BY <1>1, <2>1, RetriedMaps
  <2>4. Activations(frames)[A!Depth].tries = Heights(Top.tries)
    BY <1>2 DEF A!Top
  <2>5. Activations(frames)' = [Activations(frames) EXCEPT ![A!Depth].tries = Append(@, N)]
    BY <2>2, <2>3, <2>4
  <2>6. Len(A!Top.tries) < TryMax
    BY <1>2, <1>3, <1>5, LimitAssumption
  <2>7. UNCHANGED A!gvars /\ Len(stack') = Len(stack)
    BY <2>1 DEF A!gvars
  <2>8. A!SetupTry
    BY <1>2, <2>5, <2>6, <2>7 DEF A!SetupTry, N
  <2>. QED
    BY <2>8 DEF A!Next, Simulated
<1>. QED
  BY <1>4, <1>5

LEMMA PopTryMaps ==
  ASSUME IInv, StructuredCode, PopTry
  PROVE  Simulated
<1>. DEFINE ts == Top.tries
<1>1. /\ status = "run" /\ ts # <<>>
      /\ frames' = [frames EXCEPT ![Len(frames)].tries = Front(ts)]
      /\ stack' = stack /\ gens' = gens
  BY DEF PopTry, Fetch, Top
<1>2. A!Live /\ A!Top.tries = Heights(ts)
  <2>1. A!Top = Seen(Top, Len(frames))
    BY <1>1, TopSeen
  <2>2. A!Top.tries = Heights(Top.tries)
    BY <2>1 DEF Seen
  <2>. QED
    BY <1>1, <2>2, TopSeen
<1>3. IsSeq(ts)
  <2>1. Len(frames) \in 1..Len(frames)
    BY <1>1, Ready
  <2>. QED
    BY <1>1, <2>1, AllTried DEF Top, Tried
<1>. HIDE DEF ts
<1>4. Heights(ts) # <<>> /\ Heights(Front(ts)) = SubSeq(Heights(ts), 1, Len(ts) - 1)
      /\ Len(Heights(ts)) = Len(ts)
  BY <1>1, <1>3, HeightsFront, HeightsAre
<1>5. \A us : frames' = [frames EXCEPT ![Len(frames)].tries = us] =>
        Activations(frames)' = [Activations(frames) EXCEPT ![A!Depth].tries = Heights(us)]
  BY <1>1, RetriedMaps
<1>6. Activations(frames)' = [Activations(frames) EXCEPT
                                ![A!Depth].tries = SubSeq(A!Top.tries, 1, Len(A!Top.tries) - 1)]
  BY <1>1, <1>2, <1>4, <1>5
<1>7. UNCHANGED A!gvars /\ Len(stack') = Len(stack)
  BY <1>1 DEF A!gvars
<1>8. A!PopTry
  BY <1>2, <1>4, <1>6, <1>7 DEF A!PopTry
<1>. QED
  BY <1>8 DEF A!Next, Simulated

(* Calls of native functions.                                              *)
LEMMA AnswerMaps ==
  ASSUME IInv, StructuredCode, status = "run", Room', Current.code[ip].op = "CALL",
         NEW v, stack' = Append(Cut(Arg + 1), v), frames' = frames, gens' = gens
  PROVE  Simulated
<1>1. /\ Arg \in Nat /\ Needs(Current.code[ip]) = Arg + 1 /\ N \in Nat
      /\ IsSeq(Cut(Arg + 1)) /\ Len(Cut(Arg + 1)) = N - (Arg + 1)
  BY CallFacts DEF Values
<1>2. Len(stack') = N - (Arg + 1) + 1
  BY <1>1, SeqAppend
<1>3. Arg + 1 \in 0..Needs(Current.code[ip]) /\ 1 \in 0..1
  BY <1>1
<1>4. Activations(frames)' = Activations(frames)
  OBVIOUS
<1>. QED
  BY <1>2, <1>3, <1>4, OperateMaps

LEMMA NativeMaps ==
  ASSUME IInv, StructuredCode, Room', CallPrint \/ CallMethod \/ CallFault \/ CallOther
  PROVE  Simulated
<1>1. CASE CallPrint
  BY <1>1, AnswerMaps DEF CallPrint, CallOp, Fetch
<1>2. CASE CallMethod
  <2>1. /\ status = "run" /\ Current.code[ip].op = "CALL" /\ frames' = frames /\ gens' = gens
        /\ \E v : stack' = Append(Cut(Arg + 1), v)
    BY <1>2 DEF CallMethod, CallOp, Fetch
  <2>. QED
    BY <2>1, AnswerMaps
<1>3. CASE CallFault \/ CallOther
  <2>1. status = "run" /\ \E kind : Error(kind, stack)
    BY <1>3 DEF CallFault, CallOther, CallOp, Fetch
  <2>. QED
    BY <2>1, WholeMaps
<1>. QED
  BY <1>1, <1>2, <1>3

(* The room there is for what a generator puts back.                       *)
LEMMA RoomFor ==
  ASSUME IInv, StructuredCode, status = "run", Room, NEW g \in 1..Len(gens),
         gens[g].state # "done", NEW l \in Nat, l <= N + 1
  PROVE  l + Len(gens[g].saved) <= DepthMax
<1>1. IsSeq(gens) /\ N \in Nat
  BY Ready
<1>2. g \in DOMAIN gens
  BY <1>1, SeqBasics
<1>3. N + Len(gens[g].saved) < DepthMax /\ DepthMax \in Nat
  BY <1>2, LimitAssumption DEF Room
<1>. QED
  BY <1>1, <1>3

LEMMA CallNextMaps ==
  ASSUME IInv, StructuredCode, Room, Room', CallNext
  PROVE  Simulated
<1>. DEFINE g == Argument[2]
            rest == Cut(Arg + 1)
            placeholder == IF Arg = 2 THEN stack[N] ELSE None
            st == Append(rest, placeholder)
            kind == IF Arg = 2 THEN "default" ELSE "next"
<1>1. status = "run" /\ Current.code[ip].op = "CALL"
  BY DEF CallNext, CallOp, Fetch
<1>2. \/ Error("TypeError", stack)
      \/ OnGenerator /\ Arg = 2 /\ Go(st, ip + 1)
      \/ OnGenerator /\ Arg = 1 /\ gens[g].state = "done" /\ Error("StopIteration", rest)
      \/ OnGenerator /\ Arg = 1 /\ gens[g].state # "done" /\ Resume(g, kind, ip + 1, st)
      \/ OnGenerator /\ Arg = 2 /\ gens[g].state # "done" /\ Resume(g, kind, ip + 1, st)
  <2>1. Arg \in Nat
    BY <1>1, CallFacts
  <2>2. OnGenerator => Arg > 0
    BY DEF OnGenerator
  <2>3. OnGenerator /\ ~ (Arg > 2) => Arg \in {1, 2}
    BY <2>1, <2>2
  <2>4. CASE ~ OnGenerator \/ Arg > 2
    BY <2>4 DEF CallNext
  <2>5. CASE ~ (~ OnGenerator \/ Arg > 2) /\ gens[g].state = "done" /\ Arg = 2
    BY <2>5, <2>1 DEF CallNext
  <2>6. CASE ~ (~ OnGenerator \/ Arg > 2) /\ gens[g].state = "done" /\ Arg = 1
    BY <2>6, <2>1 DEF CallNext
  <2>7. CASE ~ (~ OnGenerator \/ Arg > 2) /\ gens[g].state # "done"
    <3>1. Resume(g, kind, ip + 1, st)
      BY <2>7 DEF CallNext
    <3>. QED
      BY <2>3, <2>7, <3>1
  <2>. QED
    BY <2>3, <2>4, <2>5, <2>6, <2>7
<1>3. /\ Arg \in Nat /\ Needs(Current.code[ip]) = Arg + 1 /\ N \in Nat /\ N >= Arg + 1
      /\ IsSeq(rest) /\ Len(rest) = N - (Arg + 1)
  BY <1>1, CallFacts DEF Values
<1>4. IsSeq(st) /\ Len(st) = N - Arg /\ Len(st) \in Nat /\ Len(st) <= N + 1
  <2>. HIDE DEF rest, placeholder
  <2>1. IsSeq(st) /\ Len(st) = (N - (Arg + 1)) + 1
    BY <1>3, SeqAppend
  <2>. HIDE DEF st
  <2>. QED
    BY <1>3, <2>1
<1>5. OnGenerator => /\ g \in 1..Len(gens) /\ g \in Objects
                     /\ States(gens)[g] = gens[g].state /\ A!Exists(g)
  BY <1>1, OnGeneratorOK, OneGenerator, Ready DEF Room
<1>6. \A n \in 0..Arg + 1 : A!CanPop(n)
  BY <1>1, <1>3, Poppable
<1>7. CASE Error("TypeError", stack)
  BY <1>1, <1>7, WholeMaps
<1>8. CASE OnGenerator /\ Arg = 2 /\ Go(st, ip + 1)
  BY <1>1, <1>8, AnswerMaps DEF Go
<1>9. CASE OnGenerator /\ Arg = 1 /\ gens[g].state = "done" /\ Error("StopIteration", rest)
  <2>1. A!RaiseFrom(Activations(frames), Len(rest), {})
    BY <1>1, <1>3, <1>9, RaiseFromMaps DEF Error
  <2>2. Len(rest) = Len(stack) - 2 /\ 2 \in 0..Arg + 1
    BY <1>3, <1>9 DEF N
  <2>3. A!Next1(g)
    BY <1>5, <1>6, <1>9, <2>1, <2>2 DEF A!Next1
  <2>. QED
    BY <1>5, <1>9, <2>3 DEF A!Next, Simulated
<1>10. CASE OnGenerator /\ Arg = 1 /\ gens[g].state # "done" /\ Resume(g, kind, ip + 1, st)
  <2>. HIDE DEF g, st, rest, placeholder
  <2>1. kind = "next" /\ 2 \in 0..Arg + 1 /\ Len(st) = Len(stack) - 1
    BY <1>3, <1>4, <1>10 DEF N
  <2>2. Len(st) + Len(gens[g].saved) <= DepthMax
    BY <1>1, <1>4, <1>5, <1>10, RoomFor
  <2>. HIDE DEF kind
  <2>3. A!Resume(g, kind, Len(st))
    BY <1>1, <1>4, <1>5, <1>10, <2>2, ResumeMaps
  <2>4. A!Next1(g)
    BY <1>5, <1>6, <1>10, <2>1, <2>3 DEF A!Next1
  <2>. QED
    BY <1>5, <1>10, <2>4 DEF A!Next, Simulated
<1>11. CASE OnGenerator /\ Arg = 2 /\ gens[g].state # "done" /\ Resume(g, kind, ip + 1, st)
  <2>. HIDE DEF g, st, rest, placeholder
  <2>1. kind = "default" /\ 3 \in 0..Arg + 1 /\ Len(st) = Len(stack) - 2
    BY <1>3, <1>4, <1>11 DEF N
  <2>2. Len(st) + Len(gens[g].saved) <= DepthMax
    BY <1>1, <1>4, <1>5, <1>11, RoomFor
  <2>. HIDE DEF kind
  <2>3. A!Resume(g, kind, Len(st))
    BY <1>1, <1>4, <1>5, <1>11, <2>2, ResumeMaps
  <2>4. A!Next2(g)
    BY <1>5, <1>6, <1>11, <2>1, <2>3 DEF A!Next2
  <2>. QED
    BY <1>5, <1>11, <2>4 DEF A!Next, Simulated
<1>. QED
  BY <1>2, <1>7, <1>8, <1>9, <1>10, <1>11

LEMMA CallListMaps ==
  ASSUME IInv, StructuredCode, Room, Room', CallList
  PROVE  Simulated
<1>. DEFINE g == Argument[2]
            empty == <<"list", <<>>>>
            again == Replaced(stack, N - Arg + 1, empty)
            st == Append(stack, empty)
<1>1. status = "run" /\ Current.code[ip].op = "CALL"
  BY DEF CallList, CallOp, Fetch
<1>2. /\ Arg \in Nat /\ Needs(Current.code[ip]) = Arg + 1 /\ N \in Nat /\ IsSeq(stack)
      /\ Arg \in 0..ArgMax
  <2>1. WellFormed(Current.code[ip])
    BY <1>1, Ready
  <2>. QED
    BY <1>1, <2>1, CallFacts DEF WellFormed, Arg, Values
<1>3. \/ Go(again, ip)
      \/ OnGenerator /\ gens[g].state # "done" /\ Resume(g, "collect", ip, st)
      \/ \E v : Go(Append(Cut(Arg + 1), v), ip + 1)
      \/ Error("TypeError", stack)
  <2>1. CASE OnGenerator
    <3>1. Arg # 0 /\ ~ (Arg = 1 /\ Argument[1] = "list")
      BY <1>2, <2>1 DEF OnGenerator
    <3>2. CallList => IF gens[g].state = "done" THEN Go(again, ip) ELSE Resume(g, "collect", ip, st)
      BY <2>1, <3>1 DEF CallList
    <3>. QED
      BY <2>1, <3>2
  <2>2. CASE ~ OnGenerator /\ Arg = 0
    <3>1. CallList => Go(Append(Cut(1), empty), ip + 1)
      BY <2>2 DEF CallList
    <3>2. Cut(Arg + 1) = Cut(1)
      BY <2>2
    <3>. QED
      BY <3>1, <3>2
  <2>3. CASE ~ OnGenerator /\ Arg # 0 /\ Arg = 1 /\ Argument[1] = "list"
    <3>1. CallList => Go(Append(Cut(Arg + 1), Argument), ip + 1)
      BY <2>3 DEF CallList
    <3>. QED
      BY <3>1
  <2>4. CASE ~ OnGenerator /\ Arg # 0 /\ ~ (Arg = 1 /\ Argument[1] = "list")
    <3>1. CallList => Error("TypeError", stack)
      BY <2>4 DEF CallList
    <3>. QED
      BY <3>1
  <2>. QED
    BY <2>1, <2>2, <2>3, <2>4
<1>. HIDE DEF empty
<1>4. CASE Go(again, ip)
  <2>1. Len(again) = N
    BY <1>2, SeqReplaced DEF N
  <2>2. Stays(again, ip)
    BY <1>4, GoStays
  <2>. HIDE DEF again
  <2>. QED
    BY <2>1, <2>2, IdleMaps
<1>5. CASE OnGenerator /\ gens[g].state # "done" /\ Resume(g, "collect", ip, st)
  <2>1. /\ g \in 1..Len(gens) /\ g \in Objects /\ Arg >= 1
        /\ States(gens)[g] = gens[g].state /\ A!Exists(g)
    BY <1>1, <1>2, <1>5, OnGeneratorOK, OneGenerator, Ready DEF Room
  <2>. HIDE DEF g
  <2>2. IsSeq(st) /\ Len(st) = Len(stack) + 1 /\ Len(st) \in Nat /\ Len(st) <= N + 1
    <3>1. IsSeq(st) /\ Len(st) = Len(stack) + 1
      BY <1>2, SeqAppend
    <3>. HIDE DEF st
    <3>. QED
      BY <1>2, <3>1 DEF N
  <2>. HIDE DEF st
  <2>3. Len(st) + Len(gens[g].saved) <= DepthMax
    BY <1>1, <1>5, <2>1, <2>2, RoomFor
  <2>4. A!Resume(g, "collect", Len(stack) + 1)
    <3>1. A!Resume(g, "collect", Len(st))
      BY <1>1, <1>5, <2>1, <2>2, <2>3, ResumeMaps
    <3>. QED
      BY <2>2, <3>1
  <2>5. Len(stack) < DepthMax
    BY DEF Room, N
  <2>6. \E argc \in 1..ArgMax : A!CanPop(argc + 1)
    <3>1. Arg \in 1..ArgMax /\ Arg + 1 \in 0..Arg + 1
      BY <1>2, <2>1
    <3>2. A!CanPop(Arg + 1)
      BY <1>1, <1>2, <3>1, Poppable
    <3>. QED
      BY <3>1, <3>2
  <2>7. A!Collect(g)
    BY <1>5, <2>1, <2>4, <2>5, <2>6 DEF A!Collect
  <2>. QED
    BY <2>1, <2>7 DEF A!Next, Simulated
<1>6. CASE \E v : Go(Append(Cut(Arg + 1), v), ip + 1)
  BY <1>1, <1>6, AnswerMaps DEF Go
<1>7. CASE Error("TypeError", stack)
  BY <1>1, <1>7, WholeMaps
<1>. QED
  BY <1>3, <1>4, <1>5, <1>6, <1>7

LEMMA RangeMaps ==
  ASSUME IInv, StructuredCode, Room, Room', RangeInit \/ RangeNext
  PROVE  Simulated
<1>1. CASE RangeInit
  <2>1. /\ status = "run" /\ Current.code[ip].op = "RANGE_INIT"
        /\ \/ Go(stack, ip + 1)
           \/ \E v : Go(Append(Cut(1), v), ip + 1)
           \/ Error("TypeError", Cut(1))
    BY <1>1 DEF RangeInit, Fetch
  <2>2. Needs(Current.code[ip]) = 1
    BY <2>1, NeedsIs
  <2>3. CASE Go(stack, ip + 1)
    BY <2>3, GoStays, IdleMaps DEF N
  <2>. QED
    BY <2>1, <2>2, <2>3, ExchangeMaps, CutMaps DEF Error
<1>2. CASE RangeNext
  <2>. DEFINE v == stack[N]
              pair == <<NextRange(v), Num(v[2])>>
              st == Cut(1) \o pair
  <2>1. status = "run" /\ Current.code[ip].op = "RANGE_NEXT"
    BY <1>2 DEF RangeNext, Fetch
  <2>2. \/ Go(Cut(1), Arg)
        \/ v[1] = "gen" /\ gens[v[2]].state # "done" /\ Resume(v[2], "for", ip, stack)
        \/ Go(st, ip + 1)
        \/ Error("TypeError", stack)
    BY <1>2 DEF RangeNext
  <2>3. Needs(Current.code[ip]) = 1
    BY <2>1, NeedsIs
  <2>4. /\ Values(Cut(1), Len(gens)) /\ Len(Cut(1)) = N - 1 /\ Proper(v, Len(gens))
        /\ N \in Nat /\ IsSeq(stack) /\ IsSeq(Cut(1))
    BY <2>1, <2>3, CutOne, Ready DEF Values
  <2>5. CASE Go(Cut(1), Arg)
    BY <2>1, <2>3, <2>5, DropMaps
  <2>6. CASE v[1] = "gen" /\ gens[v[2]].state # "done" /\ Resume(v[2], "for", ip, stack)
    <3>. DEFINE g == v[2]
    <3>1. /\ g \in 1..Len(gens) /\ g \in Objects
          /\ States(gens)[g] = gens[g].state /\ A!Exists(g)
      <4>1. g \in 1..Len(gens)
        BY <2>4, <2>6 DEF Proper
      <4>. QED
        BY <2>1, <4>1, OneGenerator, Ready DEF Room
    <3>. HIDE DEF v
    <3>2. Len(stack) \in Nat /\ Len(stack) <= N + 1
      BY <2>4 DEF N
    <3>3. Len(stack) + Len(gens[g].saved) <= DepthMax
      BY <2>1, <2>6, <3>1, <3>2, RoomFor
    <3>4. A!Resume(g, "for", Len(stack))
      BY <2>1, <2>4, <2>6, <3>1, <3>3, ResumeMaps
    <3>5. A!CanPop(1)
      BY <2>1, <2>3, Poppable
    <3>6. A!ForNext(g)
      BY <2>6, <3>1, <3>4, <3>5 DEF A!ForNext
    <3>. QED
      BY <3>1, <3>6 DEF A!Next, Simulated
  <2>7. CASE Go(st, ip + 1)
    <3>1. IsSeq(pair) /\ Len(pair) = 2
      <4>1. pair \in Seq({NextRange(v), Num(v[2])}) /\ Len(pair) = 2
        OBVIOUS
      <4>. QED
        BY <4>1, SeqWithin
    <3>. HIDE DEF pair
    <3>2. Len(st) = N - 1 + 2
      <4>. DEFINE rest == Cut(1)
      <4>1. IsSeq(rest) /\ Len(rest) = N - 1
        BY <2>4
      <4>. HIDE DEF rest
      <4>2. Len(rest \o pair) = Len(rest) + Len(pair)
        BY <3>1, <4>1, SeqConcat
      <4>. QED
        BY <3>1, <4>1, <4>2 DEF rest
    <3>3. Stays(st, ip + 1)
      BY <2>7, GoStays
    <3>. HIDE DEF st
    <3>4. Len(st) = N - 0 + 1 /\ 0 \in 0..Needs(Current.code[ip]) /\ 1 \in 0..1
      BY <2>3, <2>4, <3>2
    <3>. QED
      BY <2>1, <3>3, <3>4, PlainMaps
  <2>8. CASE Error("TypeError", stack)
    BY <2>1, <2>8, WholeMaps
  <2>. QED
    BY <2>2, <2>5, <2>6, <2>7, <2>8
<1>. QED
  BY <1>1, <1>2

(* Calls of functions of the program.                                      *)
LEMMA MadeMaps ==
  ASSUME IInv, StructuredCode, status = "run", Room', Current.code[ip].op = "CALL", Arg = 0,
         NEW o, o.state = "created", o.saved = <<>>, o.tries = <<>>,
         gens' = Append(gens, o), frames' = frames, NEW v, stack' = Append(Cut(1), v)
  PROVE  Simulated
<1>. DEFINE n == Len(gens)
            g == n + 1
<1>1. IsSeq(gens) /\ n \in Nat /\ DOMAIN gens = 1..n /\ N \in Nat
  BY Ready, SeqBasics
<1>2. /\ IsSeq(gens') /\ Len(gens') = n + 1 /\ (\A h \in 1..n : gens'[h] = gens[h])
      /\ gens'[n + 1] = o
  BY <1>1, SeqAppend
<1>3. DOMAIN gens' = 1..n + 1
  BY <1>2, SeqBasics
<1>4. g \in Objects
  <2>1. n + 1 <= GenMax
    BY <1>2 DEF Room
  <2>. QED
    BY <1>1, <2>1, LimitAssumption DEF Objects
<1>5. g \notin DOMAIN gens /\ g \in DOMAIN gens'
      /\ \A h : h # g => (h \in DOMAIN gens' <=> h \in DOMAIN gens)
  BY <1>1, <1>3
<1>6. \A h \in DOMAIN gens : gens'[h] = gens[h]
  BY <1>1, <1>2
<1>7. gens'[g] = o
  BY <1>2
<1>8. Len(<<>>) = 0 /\ Heights(<<>>) = <<>>
  BY DEF Heights
<1>. HIDE DEF g
<1>9. States(gens)[g] = "absent" /\ States(gens)' = [States(gens) EXCEPT ![g] = "created"]
  BY <1>4, <1>5, <1>6, <1>7 DEF States
<1>10. Sizes(gens)' = Sizes(gens)
  BY <1>4, <1>5, <1>6, <1>7, <1>8 DEF Sizes
<1>11. Keeps(gens)' = Keeps(gens)
  BY <1>4, <1>5, <1>6, <1>7, <1>8 DEF Keeps
<1>12. Counts(gens)' = [Counts(gens) EXCEPT ![g] = 1]
  BY <1>4, <1>5 DEF Counts
<1>13. Len(stack') = Len(stack) - 0
  <2>1. Needs(Current.code[ip]) = 1
    BY CallFacts
  <2>2. IsSeq(Cut(1)) /\ Len(Cut(1)) = N - 1
    BY <2>1, CutOne DEF Values
  <2>3. Len(stack') = (N - 1) + 1
    BY <2>2, SeqAppend
  <2>. QED
    BY <1>1, <2>3 DEF N
<1>14. A!CanPop(0 + 1)
  <2>1. Needs(Current.code[ip]) = 1
    BY CallFacts
  <2>. QED
    BY <2>1, Poppable
<1>15. Activations(frames)' = Activations(frames)
  OBVIOUS
<1>16. A!MakeGenerator(g)
  <2>1. 0 \in 0..ArgMax
    BY LimitAssumption
  <2>. QED
    BY <1>9, <1>10, <1>11, <1>12, <1>13, <1>14, <1>15, <2>1 DEF A!MakeGenerator
<1>. QED
  BY <1>4, <1>16 DEF A!Next, Simulated

LEMMA CalledMaps ==
  ASSUME IInv, StructuredCode, status = "run", Current.code[ip].op = "CALL", Arg = 0,
         Len(frames) < RecursionLimit, gens' = gens, stack' = Cut(1),
         NEW f, f.gen = NoGen, f.base = N - 1, f.kind = "call", f.tries = <<>>,
         frames' = Append(frames, f)
  PROVE  Simulated
<1>1. IsSeq(frames) /\ Len(frames) \in Nat /\ Len(frames) \in 1..Len(frames) /\ N \in Nat
  BY Ready
<1>2. Needs(Current.code[ip]) = 1
  BY CallFacts
<1>3. Len(stack') = Len(stack) - 0 - 1
  <2>1. Len(Cut(1)) = N - 1
    BY <1>2, CutOne
  <2>. QED
    BY <1>1, <2>1 DEF N
<1>4. A!CanPop(0 + 1)
  BY <1>2, Poppable
<1>5. A!Reserve
  BY TopSeen DEF A!Reserve
<1>6. Activations(frames)' = Append(Activations(frames), Seen(f, Len(frames) + 1))
  BY <1>1, ActivationsAppend
<1>7. Seen(f, Len(frames) + 1) = A!Activate(NoGen, Len(stack) - 0 - 1, "call", FALSE, <<>>)
  <2>1. (Len(frames) + 1 = 1) = FALSE
    BY <1>1
  <2>2. Heights(<<>>) = <<>>
    BY DEF Heights
  <2>3. Len(stack) - 0 - 1 = N - 1
    BY <1>1 DEF N
  <2>. QED
    BY <2>1, <2>2, <2>3 DEF Seen, A!Activate
<1>8. UNCHANGED A!gvars
  BY DEF A!gvars
<1>9. A!Call
  <2>1. 0 \in 0..ArgMax
    BY LimitAssumption
  <2>. QED
    BY <1>3, <1>4, <1>5, <1>6, <1>7, <1>8, <2>1 DEF A!Call
<1>. QED
  BY <1>9 DEF A!Next, Simulated

LEMMA CallFunctionMaps ==
  ASSUME IInv, StructuredCode, Room', CallFunction
  PROVE  Simulated
<1>1. PICK fn \in DOMAIN codes \ {"main"} :
        /\ CallOp(Fun(fn))
        /\ CASE Arg # 0 -> Error("TypeError", stack)
             [] Arg = 0 /\ ~codes[fn].ok ->
                  Abort("BytecodeError", frames, gens) /\ UNCHANGED <<pid, codes, ip, exc, out>>
             [] Arg = 0 /\ codes[fn].ok /\ codes[fn].gen ->
                  /\ gens' = Append(gens, [fn |-> fn, state |-> "created", ip |-> 1,
                                           saved |-> <<>>, tries |-> <<>>,
                                           locals |-> Locals])
                  /\ stack' = Append(Cut(1), <<"gen", Len(gens) + 1>>)
                  /\ ip' = ip + 1
                  /\ UNCHANGED <<pid, codes, frames, exc, out, status>>
             [] OTHER ->
                  IF Len(frames) >= RecursionLimit THEN Error("RecursionError", stack)
                  ELSE /\ frames' = Append(frames, Activate(fn, ip + 1, NoGen, N - 1,
                                                            "call", <<>>, Locals))
                       /\ stack' = Cut(1) /\ ip' = 1
                       /\ UNCHANGED <<pid, codes, gens, exc, out, status>>
  BY DEF CallFunction
<1>2. status = "run" /\ Current.code[ip].op = "CALL"
  BY <1>1 DEF CallOp, Fetch
<1>3. CASE Arg # 0
  BY <1>1, <1>2, <1>3, WholeMaps
<1>4. CASE Arg = 0 /\ ~ codes[fn].ok
  BY <1>1, <1>2, <1>4, FailMaps
<1>5. CASE Arg = 0 /\ codes[fn].ok /\ codes[fn].gen
  <2>. DEFINE o == [fn |-> fn, state |-> "created", ip |-> 1, saved |-> <<>>,
                    tries |-> <<>>, locals |-> Locals]
              v == <<"gen", Len(gens) + 1>>
  <2>1. gens' = Append(gens, o) /\ stack' = Append(Cut(1), v) /\ frames' = frames
    BY <1>1, <1>5
  <2>2. o.state = "created" /\ o.saved = <<>> /\ o.tries = <<>>
    OBVIOUS
  <2>. HIDE DEF o, v
  <2>. QED
    BY <1>2, <1>5, <2>1, <2>2, MadeMaps
<1>6. CASE Arg = 0 /\ codes[fn].ok /\ ~ codes[fn].gen
  <2>. DEFINE f == Activate(fn, ip + 1, NoGen, N - 1, "call", <<>>, Locals)
  <2>1. CASE Len(frames) >= RecursionLimit
    <3>1. Error("RecursionError", stack)
      BY <1>1, <1>6, <2>1
    <3>. QED
      BY <1>2, <3>1, WholeMaps
  <2>2. CASE ~ (Len(frames) >= RecursionLimit)
    <3>1. frames' = Append(frames, f) /\ stack' = Cut(1) /\ gens' = gens
      BY <1>1, <1>6, <2>2
    <3>2. f.gen = NoGen /\ f.base = N - 1 /\ f.kind = "call" /\ f.tries = <<>>
      BY DEF Activate
    <3>3. Len(frames) < RecursionLimit
      BY <1>2, <2>2, Ready, LimitAssumption
    <3>. HIDE DEF f
    <3>. QED
      BY <1>2, <1>6, <3>1, <3>2, <3>3, CalledMaps
  <2>. QED
    BY <2>1, <2>2
<1>. QED
  BY <1>3, <1>4, <1>5, <1>6

(* The activations without the innermost one.                              *)
LEMMA BelowMaps ==
  ASSUME IInv, StructuredCode, status = "run"
  PROVE  /\ Activations(Front(frames)) = SubSeq(Activations(frames), 1, A!Depth - 1)
         /\ IsSeq(Front(frames)) /\ Len(Front(frames)) = Len(frames) - 1
         /\ \A i \in 1..Len(frames) - 1 : Front(frames)[i] = frames[i]
         /\ A!Top.gen = Top.gen /\ A!Top.base = Top.base /\ A!Top.kind = Top.kind
         /\ A!Top.entry <=> Len(frames) = 1
<1>1. IsSeq(frames) /\ Len(frames) \in Nat /\ Len(frames) \in 1..Len(frames)
  BY Ready
<1>2. Len(frames) - 1 \in 0..Len(frames)
  BY <1>1
<1>3. A!Depth = Len(frames) /\ A!Top = Seen(Top, Len(frames))
  BY TopSeen
<1>4. Activations(Front(frames)) = SubSeq(Activations(frames), 1, A!Depth - 1)
  BY <1>1, <1>2, <1>3, ActivationsCut DEF Front
<1>5. /\ IsSeq(Front(frames)) /\ Len(Front(frames)) = Len(frames) - 1
      /\ \A i \in 1..Len(frames) - 1 : Front(frames)[i] = frames[i]
  BY <1>1, <1>2, SeqPrefix DEF Front
<1>. QED
  BY <1>3, <1>4, <1>5 DEF Seen

LEMMA ReturnMaps ==
  ASSUME IInv, StructuredCode, Room, ReturnOp
  PROVE  Simulated
<1>1. /\ status = "run" /\ Current.code[ip].op \in {"RETURN_VALUE", "RETURN_NONE"} /\ Top.gen = NoGen
      /\ Len(frames) = 1 => Abort("BytecodeError", frames, gens)
      /\ Len(frames) # 1 => /\ frames' = Front(frames) /\ gens' = gens
                            /\ stack' = IF Fetch("RETURN_NONE") THEN Append(stack, None) ELSE stack
  BY DEF ReturnOp, Fetch
<1>2. CASE Len(frames) = 1
  BY <1>1, <1>2, FailMaps
<1>3. CASE Len(frames) # 1
  <2>1. /\ A!Top.gen = NoGen /\ ~ A!Top.entry
        /\ Activations(frames)' = SubSeq(Activations(frames), 1, A!Depth - 1)
    BY <1>1, <1>3, BelowMaps
  <2>2. IsSeq(stack) /\ N \in Nat /\ Len(stack) < DepthMax
    BY <1>1, Ready DEF Room, N
  <2>3. \/ A!CanPop(1) /\ Len(stack') = Len(stack)
        \/ Len(stack) < DepthMax /\ Len(stack') = Len(stack) + 1
    <3>1. CASE Current.code[ip].op = "RETURN_NONE"
      <4>1. stack' = Append(stack, None)
        BY <1>1, <1>3, <3>1 DEF Fetch
      <4>. QED
        BY <2>2, <4>1, SeqAppend
    <3>2. CASE Current.code[ip].op = "RETURN_VALUE"
      <4>1. stack' = stack
        BY <1>1, <1>3, <3>2 DEF Fetch
      <4>2. Needs(Current.code[ip]) = 1
        BY <3>2, NeedsIs
      <4>. QED
        BY <1>1, <4>1, <4>2, Poppable
    <3>. QED
      BY <1>1, <3>1, <3>2
  <2>4. UNCHANGED A!gvars
    BY <1>1, <1>3 DEF A!gvars
  <2>5. A!Return
    BY <1>1, <2>1, <2>3, <2>4, TopSeen DEF A!Return
  <2>. QED
    BY <2>5 DEF A!Next, Simulated
<1>. QED
  BY <1>2, <1>3

(* An activation of a generator lies above what it answers to.             *)
LEMMA AboveCaller ==
  ASSUME IInv, StructuredCode, status = "run", Top.gen # NoGen
  PROVE  /\ Top.kind \in {"for", "next", "default", "collect"} /\ Top.gen \in 1..Len(gens)
         /\ Top.base \in 0..N /\ N \in Nat /\ Top.base \in Nat
         /\ Top.kind # "for" => Top.base - 1 \in 0..N
<1>. DEFINE b == Top.base
<1>1. /\ Caller.base \in Nat /\ CallDepth \in Nat
      /\ CallDepth - Needs(Calling) >= FloorOf(Opens(Caller.fn)[CallSite])
      /\ FloorOf(Opens(Caller.fn)[CallSite]) \in Nat
      /\ Top.kind \in Kinds /\ (Top.kind = "call" <=> Top.gen = NoGen)
      /\ Top.kind # "for" => Calling.arg \in Nat /\ Needs(Calling) = Calling.arg + 1
      /\ Top.kind \in {"next", "default"} => b = Caller.base + (CallDepth - Calling.arg)
      /\ Top.kind = "collect" => b = Caller.base + (CallDepth + 1)
  BY CallerIs
<1>2. /\ N \in Nat /\ b \in Nat /\ N = b + Current.depth[ip] /\ Current.depth[ip] \in Nat
      /\ Running(frames, gens) /\ Len(frames) \in 1..Len(frames)
  BY Ready
<1>3. Top.gen \in 1..Len(gens)
  BY <1>2 DEF Running, Top
<1>4. Top.kind \in {"for", "next", "default", "collect"}
  BY <1>1 DEF Kinds
<1>5. b \in 0..N
  BY <1>2
<1>. HIDE DEF b
<1>6. CASE Top.kind \in {"next", "default"}
  <2>1. \A d, a, m, k \in Nat : d - (a + 1) >= k => (m + (d - a)) - 1 >= 0
    OBVIOUS
  <2>2. b - 1 >= 0
    BY <1>1, <1>6, <2>1
  <2>3. b - 1 \in 0..N
    BY <1>2, <1>5, <2>2
  <2>. QED
    BY <1>2, <1>3, <1>4, <1>5, <2>3 DEF b
<1>7. CASE Top.kind = "collect"
  <2>1. b - 1 >= 0
    BY <1>1, <1>7
  <2>2. b - 1 \in 0..N
    BY <1>2, <1>5, <2>1
  <2>. QED
    BY <1>2, <1>3, <1>4, <1>5, <2>2 DEF b
<1>8. CASE Top.kind = "for"
  BY <1>2, <1>3, <1>4, <1>5, <1>8 DEF b
<1>. QED
  BY <1>4, <1>6, <1>7, <1>8

(* A generator that yields and leaves, with what it saves.                 *)
LEMMA SuspendMaps ==
  ASSUME IInv, StructuredCode, Room, status = "run", Current.code[ip].op = "YIELD_VALUE",
         Top.gen # NoGen, Top.kind # "collect",
         NEW o, o = [gens[Top.gen] EXCEPT !.state = "suspended", !.ip = ip + 1,
                       !.saved = Operands(Top), !.locals = Top.locals,
                       !.tries = Rebase(Top.tries, -Top.base)],
         frames' = Front(frames), gens' = Replaced(gens, Top.gen, o),
         IF Top.kind = "for"
         THEN stack' = Append(SubSeq(stack, 1, Top.base), stack[N])
         ELSE stack' = Append(SubSeq(stack, 1, Top.base - 1), stack[N])
  PROVE  Simulated
<1>. DEFINE h == Top.gen
            b == Top.base
            n == N - 1 - b
<1>1. /\ Fixed /\ Generators(gens) /\ FrameOK(Top, ip, Len(gens)) /\ IsSeq(stack) /\ N \in Nat /\ b \in Nat
      /\ Top.kind # "for" => b - 1 \in 0..N
      /\ b \in 0..N /\ h \in 1..Len(gens)
  BY Ready, AboveCaller
<1>2. A!CanPop(1) /\ N - 1 >= b
  <2>1. Needs(Current.code[ip]) = 1
    BY NeedsIs
  <2>2. N - 1 >= b + FloorOf(Opens(Top.fn)[ip]) /\ FloorOf(Opens(Top.fn)[ip]) \in Nat
    BY <2>1, Ready
  <2>. QED
    BY <1>1, <2>1, <2>2, Poppable
<1>3. n \in Nat /\ n <= DepthMax
  BY <1>1, <1>2, LimitAssumption DEF Room
<1>4. o.state = "suspended" /\ o.saved = Operands(Top) /\ o.tries = Rebase(Top.tries, -b)
  BY <1>1 DEF Generators, GenOK, GenFields
<1>5. Len(o.saved) = n
  <2>1. \A x, y \in Nat : y - 1 >= x => /\ x + 1 \in 1..y + 1 /\ y - 1 \in (x + 1) - 1..y
                                       /\ (y - 1) - (x + 1) + 1 = y - 1 - x
    OBVIOUS
  <2>2. b + 1 \in 1..N + 1 /\ N - 1 \in (b + 1) - 1..N /\ (N - 1) - (b + 1) + 1 = n
    BY <1>1, <1>2, <2>1
  <2>3. Len(SubSeq(stack, b + 1, N - 1)) = (N - 1) - (b + 1) + 1
    BY <1>1, <2>2, SeqPart DEF N
  <2>. QED
    BY <1>4, <2>2, <2>3 DEF Operands
<1>6. Heights(o.tries) = [i \in 1..Len(A!Top.tries) |-> A!Top.tries[i] - A!Top.base]
  <2>. DEFINE D == DOMAIN codes[Top.fn].depth
              bs == Opens(Top.fn)[ip]
              hs == Heights(bs)
  <2>1. bs \in Seq(Blocks(D)) /\ Top.tries = Rebase(bs, b)
    BY <1>1, BlocksOpen
  <2>2. A!Top.tries = Heights(Top.tries) /\ A!Top.base = b
    BY TopSeen DEF Seen
  <2>3. \A i \in 1..Len(bs) : bs[i].depth \in Nat
    <3>1. \A i \in 1..Len(bs) : bs[i] \in Blocks(D)
      BY <2>1
    <3>. QED
      BY <3>1, BlocksAre
  <2>. HIDE DEF bs, D
  <2>4. Rebase(Rebase(bs, b), -b) = bs
    BY <1>1, <2>1, RebaseBack
  <2>5. o.tries = bs
    BY <1>4, <2>1, <2>4
  <2>6. Len(bs) \in Nat /\ IsSeq(hs) /\ Len(hs) = Len(bs) /\ \A i \in 1..Len(bs) : hs[i] \in Nat
    BY <2>1, <2>3, HeightsAre, SeqWithin, SeqBasics
  <2>7. Heights(Rebase(bs, b)) = [i \in 1..Len(hs) |-> hs[i] + b]
    <3>1. b \in Int
      BY <1>1
    <3>. QED
      BY <2>1, <3>1, HeightsRebased
  <2>. DEFINE us == [i \in 1..Len(hs) |-> hs[i] + b]
  <2>8. Len(us) = Len(hs) /\ DOMAIN us = 1..Len(hs) /\ \A i \in 1..Len(hs) : us[i] = hs[i] + b
    <3>1. us = [i \in 1..Len(hs) |-> us[i]] /\ Len(hs) \in Nat
      BY <2>6
    <3>2. \A i \in 1..Len(hs) : us[i] = hs[i] + b
      OBVIOUS
    <3>. HIDE DEF us
    <3>. QED
      BY <3>1, <3>2, SeqMade, SeqBasics
  <2>9. hs = [i \in 1..Len(hs) |-> hs[i]]
    BY <2>6, SeqBasics DEF IsSeq
  <2>. HIDE DEF us, hs
  <2>10. \A i \in 1..Len(hs) : us[i] - b = hs[i]
    BY <1>1, <2>6, <2>8
  <2>11. [i \in 1..Len(us) |-> us[i] - b] = hs
    BY <2>8, <2>9, <2>10
  <2>12. A!Top.tries = us /\ Heights(o.tries) = hs
    BY <2>1, <2>2, <2>5, <2>7 DEF us, hs
  <2>. QED
    BY <2>2, <2>11, <2>12
<1>7. /\ Counts(gens)[h] = 1
      /\ States(gens)' = [States(gens) EXCEPT ![h] = "suspended"]
      /\ Sizes(gens)' = [Sizes(gens) EXCEPT ![h] = n]
      /\ Keeps(gens)' = [Keeps(gens) EXCEPT ![h] = Heights(o.tries)]
      /\ Counts(gens)' = Counts(gens)
  <2>1. Len(gens) <= GenMax
    BY DEF Room
  <2>2. gens' = Replaced(gens, h, o)
    OBVIOUS
  <2>. HIDE DEF h, b, n
  <2>3. Counts(gens)[h] = 1
    BY <1>1, <2>1, OneGenerator
  <2>4. /\ States(gens)' = [States(gens) EXCEPT ![h] = o.state]
        /\ Sizes(gens)' = [Sizes(gens) EXCEPT ![h] = Len(o.saved)]
        /\ Keeps(gens)' = [Keeps(gens) EXCEPT ![h] = Heights(o.tries)]
        /\ Counts(gens)' = Counts(gens)
    BY <1>1, <2>1, <2>2, GeneratorMaps
  <2>. QED
    BY <1>4, <1>5, <2>3, <2>4
<1>8. /\ Activations(frames)' = SubSeq(Activations(frames), 1, A!Depth - 1)
      /\ A!Top.gen = h /\ A!Top.base = b /\ A!Top.kind = Top.kind
  BY BelowMaps
<1>. HIDE DEF n
<1>9. Len(stack') = IF Top.kind = "for" THEN b + 1 ELSE b
  <2>. DEFINE k == IF Top.kind = "for" THEN b ELSE b - 1
              cut == SubSeq(stack, 1, k)
  <2>1. k \in 0..N /\ k + 1 = IF Top.kind = "for" THEN b + 1 ELSE b
    BY <1>1
  <2>2. stack' = Append(cut, stack[N])
    OBVIOUS
  <2>. HIDE DEF k
  <2>3. IsSeq(cut) /\ Len(cut) = k
    BY <1>1, <2>1, SeqPrefix DEF N
  <2>. HIDE DEF cut
  <2>4. Len(stack') = k + 1
    BY <2>2, <2>3, SeqAppend
  <2>. QED
    BY <2>1, <2>4
<1>. HIDE DEF h, b
<1>10. A!Suspend(A!Top.gen, n, [i \in 1..Len(A!Top.tries) |-> A!Top.tries[i] - A!Top.base])
  <2>. DEFINE ts == [i \in 1..Len(A!Top.tries) |-> A!Top.tries[i] - A!Top.base]
  <2>1. Heights(o.tries) = ts
    BY <1>6
  <2>. HIDE DEF ts
  <2>2. /\ "suspended" = IF Counts(gens)[h] = 0 THEN "absent" ELSE "suspended"
        /\ n = IF Counts(gens)[h] = 0 THEN 0 ELSE n
        /\ ts = IF Counts(gens)[h] = 0 THEN <<>> ELSE ts
    BY <1>7
  <2>3. A!Suspend(h, n, ts)
    BY <1>7, <1>8, <2>1, <2>2, Zenon DEF A!Suspend
  <2>. QED
    BY <1>8, <2>3 DEF ts
<1>11. n = Len(stack) - 1 - A!Top.base
  BY <1>8 DEF N, n
<1>12. A!Yield
  BY <1>2, <1>3, <1>8, <1>9, <1>10, <1>11 DEF A!Yield, h
<1>. QED
  BY <1>12 DEF A!Next, Simulated

LEMMA YieldMaps ==
  ASSUME IInv, StructuredCode, Room, Room', YieldValue
  PROVE  Simulated
<1>1. status = "run" /\ Current.code[ip].op = "YIELD_VALUE"
  BY DEF YieldValue, Fetch
<1>2. CASE Top.gen = NoGen
  <2>1. Abort("BytecodeError", frames, gens)
    <3>1. Top.kind # "collect"
      BY <1>1, <1>2, Ready DEF FrameOK
    <3>. QED
      BY <1>2, <3>1 DEF YieldValue
  <2>. QED
    BY <1>1, <2>1, FailMaps
<1>3. CASE Top.gen # NoGen /\ Top.kind = "collect"
  <2>. DEFINE x == <<"list", Append(Cut(1)[Top.base][2], stack[N])>>
              st == Replaced(Cut(1), Top.base, x)
  <2>1. Go(st, ip + 1)
    BY <1>3 DEF YieldValue, Replaced
  <2>2. Stays(st, ip + 1)
    BY <2>1, GoStays
  <2>3. Needs(Current.code[ip]) = 1
    BY <1>1, NeedsIs
  <2>4. IsSeq(Cut(1)) /\ Len(Cut(1)) = N - 1 /\ N \in Nat
    BY <1>1, <2>3, CutOne DEF Values
  <2>. HIDE DEF x
  <2>5. Len(st) = N - 1 + 0
    BY <2>4, SeqReplaced
  <2>. HIDE DEF st
  <2>6. 1 \in 0..Needs(Current.code[ip]) /\ 0 \in 0..1
    BY <2>3
  <2>. QED
    BY <1>1, <2>2, <2>5, <2>6, PlainMaps
<1>4. CASE Top.gen # NoGen /\ Top.kind # "collect"
  <2>. DEFINE o == [gens[Top.gen] EXCEPT !.state = "suspended", !.ip = ip + 1,
                      !.saved = Operands(Top), !.locals = Top.locals,
                      !.tries = Rebase(Top.tries, -Top.base)]
  <2>1. /\ frames' = Front(frames) /\ gens' = Replaced(gens, Top.gen, o)
        /\ IF Top.kind = "for"
           THEN stack' = Append(SubSeq(stack, 1, Top.base), stack[N])
           ELSE stack' = Append(SubSeq(stack, 1, Top.base - 1), stack[N])
    <3>1. /\ frames' = Front(frames) /\ gens' = [gens EXCEPT ![Top.gen] = o]
          /\ IF Top.kind = "for"
             THEN stack' = Append(SubSeq(stack, 1, Top.base), stack[N]) /\ ip' = Top.ret + 1
             ELSE stack' = Append(SubSeq(stack, 1, Top.base - 1), stack[N]) /\ ip' = Top.ret
      BY <1>4, Zenon DEF YieldValue
    <3>. HIDE DEF o
    <3>. QED
      BY <3>1 DEF Replaced
  <2>2. o = [gens[Top.gen] EXCEPT !.state = "suspended", !.ip = ip + 1,
               !.saved = Operands(Top), !.locals = Top.locals,
               !.tries = Rebase(Top.tries, -Top.base)]
    OBVIOUS
  <2>. HIDE DEF o
  <2>. QED
    BY <1>1, <1>4, <2>1, <2>2, SuspendMaps
<1>. QED
  BY <1>2, <1>3, <1>4

(* A generator that returns: its activation is gone and it is done.        *)
LEMMA ReturnGeneratorMaps ==
  ASSUME IInv, StructuredCode, Room', ReturnGenerator
  PROVE  Simulated
<1>. DEFINE L == Len(frames)
            h == Top.gen
            b == Top.base
            below == Front(frames)
            done == Finished(gens, frames, L - 1)
<1>1. /\ status = "run" /\ Current.code[ip].op \in {"RETURN_VALUE", "RETURN_NONE"} /\ h # NoGen
  BY DEF ReturnGenerator, Fetch
<1>2. /\ Generators(gens) /\ IsSeq(gens) /\ IsSeq(stack) /\ N \in Nat /\ IsSeq(frames)
      /\ L \in Nat /\ L \in 1..L /\ DOMAIN frames = 1..L
  BY <1>1, Ready, SeqBasics
<1>3. b \in 0..N /\ b \in Nat /\ (Top.kind # "for" => b - 1 \in 0..N) /\ h \in 1..Len(gens)
  BY <1>1, AboveCaller
<1>4. /\ Activations(below) = SubSeq(Activations(frames), 1, A!Depth - 1)
      /\ IsSeq(below) /\ Len(below) = L - 1 /\ \A i \in 1..L - 1 : below[i] = frames[i]
      /\ A!Top.gen = h /\ A!Top.base = b /\ A!Top.kind = Top.kind
  BY <1>1, BelowMaps
<1>5. /\ IsSeq(done) /\ Len(done) = Len(gens)
      /\ \A g \in 1..Len(gens) : done[g] = IF g \in {h} THEN Ended(gens[g]) ELSE gens[g]
  <2>1. /\ IsSeq(done) /\ Len(done) = Len(gens)
        /\ \A g \in 1..Len(gens) : done[g] = IF \E i \in DOMAIN frames : i > L - 1 /\ frames[i].gen = g
                                             THEN Ended(gens[g]) ELSE gens[g]
    BY <1>2, FinishedIs
  <2>2. \A i \in DOMAIN frames : i > L - 1 <=> i = L
    BY <1>2
  <2>3. \A g : (\E i \in DOMAIN frames : i > L - 1 /\ frames[i].gen = g) <=> g \in {h}
    BY <1>2, <2>2 DEF Top
  <2>. HIDE DEF h, done, L
  <2>. QED
    BY <2>1, <2>3
<1>6. CASE Top.kind = "next"
  <2>. DEFINE st == SubSeq(stack, 1, b - 1)
  <2>1. IsSeq(st) /\ Len(st) = b - 1
    BY <1>2, <1>3, <1>6, SeqPrefix DEF N
  <2>2. Throw("StopIteration", exc, below, done, st)
    BY <1>4, <1>6 DEF ReturnGenerator
  <2>3. \A i \in 1..Len(below) : DOMAIN below[i] = FrameFields /\ Tried(below[i])
    <3>1. \A i \in 1..L - 1 : i \in 1..L
      BY <1>2
    <3>2. \A i \in 1..L : DOMAIN frames[i] = FrameFields /\ Tried(frames[i])
      BY <1>1, AllTried
    <3>. QED
      BY <1>4, <3>1, <3>2
  <2>4. Len(stack') < DepthMax
    BY DEF Room, N
  <2>. HIDE DEF st, below, done, h
  <2>5. A!RaiseFrom(Activations(below), Len(st), {h})
    BY <1>2, <1>4, <1>5, <2>1, <2>2, <2>3, <2>4, ThrowMaps
  <2>6. A!ReturnGenerator
    BY <1>1, <1>4, <1>6, <2>1, <2>5, TopSeen DEF A!ReturnGenerator
  <2>. QED
    BY <2>6 DEF A!Next, Simulated
<1>7. CASE Top.kind # "next"
  <2>. DEFINE i == b - codes[below[Len(below)].fn].code[Top.ret].arg
              vs == Replaced(stack, i, stack[b])
              k == IF Top.kind = "collect" THEN b - 1 ELSE b
              st == IF Top.kind = "collect" THEN vs ELSE stack
  <2>1. /\ frames' = below /\ gens' = done
        /\ stack' = IF Top.kind = "collect" THEN SubSeq(vs, 1, b - 1) ELSE SubSeq(stack, 1, b)
    BY <1>4, <1>7 DEF ReturnGenerator
  <2>. HIDE DEF i, below, done
  <2>2. IsSeq(vs) /\ Len(vs) = N
    BY <1>2, SeqReplaced DEF N
  <2>. HIDE DEF vs
  <2>3. stack' = SubSeq(st, 1, k) /\ IsSeq(st) /\ Len(st) = N /\ k \in 0..N
    BY <1>2, <1>3, <2>1, <2>2 DEF N
  <2>. HIDE DEF st
  <2>4. Len(stack') = k
    BY <2>3, SeqPrefix
  <2>5. A!Finish({h})
    BY <1>2, <1>5, <2>1, FinishMaps
  <2>6. Activations(frames)' = Activations(below)
    <3>1. frames' = Front(frames)
      BY <2>1 DEF below
    <3>. QED
      BY <3>1 DEF below
  <2>7. A!ReturnGenerator
    BY <1>1, <1>4, <1>7, <2>4, <2>5, <2>6, TopSeen DEF A!ReturnGenerator
  <2>. QED
    BY <2>7 DEF A!Next, Simulated
<1>. QED
  BY <1>6, <1>7

LEMMA HaltMaps ==
  ASSUME IInv, StructuredCode, Halt
  PROVE  Simulated
<1>1. status = "run" /\ Current.code[ip].op = "HALT"
  BY DEF Halt, Fetch
<1>2. /\ Fixed /\ Shape(frames, ip, gens) /\ IsSeq(frames) /\ Len(frames) \in 1..Len(frames)
      /\ Len(frames) \in Nat
      /\ Top.fn \in DOMAIN codes /\ codes[Top.fn].ok /\ Current = codes[Top.fn]
      /\ ip \in DOMAIN Current.depth
  BY <1>1, Ready
<1>3. Top.fn = "main"
  BY <1>1, <1>2 DEF StructuredCode, Structured, StructuredAt
<1>4. Len(frames) = 1
  <2>. SUFFICES ASSUME Len(frames) # 1  PROVE FALSE
    OBVIOUS
  <2>1. Len(frames) - 1 \in 1..Len(frames) - 1 /\ (Len(frames) - 1) + 1 = Len(frames)
    <3>1. Len(frames) >= 1
      BY <1>2
    <3>. QED
      BY <1>2, <3>1, Below
  <2>2. CallOK(frames[Len(frames) - 1], Top, Site(Top))
    BY <1>2, <2>1, ShapeTop DEF Top
  <2>. QED
    BY <1>3, <2>2 DEF CallOK
<1>5. frames' = <<>> /\ stack' = <<>> /\ gens' = gens
  BY <1>4 DEF Halt
<1>6. Top.base = 0
  BY <1>2, <1>4 DEF Shape, Top
<1>7. A!Depth = 1 /\ A!Top.base = 0 /\ A!Top.entry /\ A!Live
  BY <1>1, <1>4, <1>6, BelowMaps, TopSeen
<1>8. Activations(frames)' = SubSeq(Activations(frames), 1, A!Depth - 1)
  <2>1. Activations(frames)' = <<>>
    BY <1>5 DEF Activations
  <2>2. 0 \in 0..Len(Activations(frames)) /\ IsSeq(Activations(frames)) /\ 1 - 1 = 0
    BY <1>2, ActivationsAre
  <2>3. IsSeq(SubSeq(Activations(frames), 1, 0)) /\ Len(SubSeq(Activations(frames), 1, 0)) = 0
    BY <2>2, SeqPrefix
  <2>4. SubSeq(Activations(frames), 1, 0) = <<>>
    BY <2>3, SeqBasics
  <2>. QED
    BY <1>7, <2>1, <2>2, <2>4
<1>9. Len(stack') = A!Top.base
  BY <1>5, <1>7
<1>10. UNCHANGED A!gvars
  BY <1>5 DEF A!gvars
<1>11. A!Halt
  BY <1>7, <1>8, <1>9, <1>10 DEF A!Halt
<1>. QED
  BY <1>11 DEF A!Next, Simulated

LEMMA UnderflowMaps ==
  ASSUME IInv, StructuredCode, Underflow
  PROVE  Simulated
<1>1. status = "run" /\ Abort("BytecodeError", frames, gens)
  BY DEF Underflow
<1>. QED
  BY <1>1, FailMaps

LEMMA ExecuteMaps ==
  ASSUME IInv, Execute
  PROVE  Simulated
<1>1. status = "start" /\ frames = <<>> /\ stack' = stack /\ gens' = gens
  BY DEF Execute, IInv
<1>2. CASE ~ codes["main"].ok
  <2>1. frames' = frames
    BY <1>2 DEF Execute
  <2>. QED
    BY <1>1, <2>1, StutterMaps DEF N
<1>3. CASE codes["main"].ok
  <2>. DEFINE f == [fn |-> "main", ret |-> 0, gen |-> NoGen, base |-> 0, kind |-> "call",
                    tries |-> <<>>, locals |-> Locals]
  <2>1. frames' = <<f>>
    BY <1>3 DEF Execute
  <2>2. Seen(f, 1) = A!Activate(NoGen, 0, "call", TRUE, <<>>)
    <3>1. Heights(<<>>) = <<>> /\ (1 = 1) = TRUE
      BY DEF Heights
    <3>. QED
      BY <3>1 DEF Seen, A!Activate
  <2>. HIDE DEF f
  <2>3. Activations(frames)' = <<Seen(f, 1)>>
    <3>1. IsSeq(<<f>>) /\ Len(<<f>>) = 1 /\ <<f>>[1] = f
      <4>1. <<f>> \in Seq({f}) /\ Len(<<f>>) = 1 /\ <<f>>[1] = f
        OBVIOUS
      <4>. QED
        BY <4>1, SeqWithin
    <3>2. /\ IsSeq(Activations(<<f>>)) /\ Len(Activations(<<f>>)) = 1
          /\ Activations(<<f>>)[1] = Seen(f, 1)
      BY <3>1, ActivationsAre
    <3>. DEFINE x == Seen(f, 1)
    <3>3. IsSeq(<<x>>) /\ Len(<<x>>) = 1 /\ <<x>>[1] = x
      <4>1. <<x>> \in Seq({x}) /\ Len(<<x>>) = 1 /\ <<x>>[1] = x
        OBVIOUS
      <4>. QED
        BY <4>1, SeqWithin
    <3>. HIDE DEF x
    <3>4. \A i \in 1..1 : i = 1
      OBVIOUS
    <3>5. Activations(<<f>>) = <<x>>
      BY <3>2, <3>3, <3>4, SeqEqual DEF x
    <3>. QED
      BY <2>1, <3>5 DEF x
  <2>4. A!Depth = 0
    <3>1. Activations(frames) = <<>>
      BY <1>1 DEF Activations
    <3>. QED
      BY <3>1 DEF A!Depth
  <2>5. UNCHANGED <<Len(stack), A!gvars>>
    BY <1>1 DEF A!gvars
  <2>6. A!Execute
    BY <2>2, <2>3, <2>4, <2>5 DEF A!Execute
  <2>. QED
    BY <2>6 DEF A!Next, Simulated
<1>. QED
  BY <1>2, <1>3

LEMMA InitMaps ==
  ASSUME Init
  PROVE  A!Init
<1>1. frames = <<>> /\ stack = <<>> /\ gens = <<>>
  BY DEF Init
<1>2. Activations(frames) = <<>> /\ Len(stack) = 0 /\ DOMAIN gens = {}
  BY <1>1 DEF Activations
<1>3. /\ States(gens) = [g \in Objects |-> "absent"] /\ Sizes(gens) = [g \in Objects |-> 0]
      /\ Keeps(gens) = [g \in Objects |-> <<>>] /\ Counts(gens) = [g \in Objects |-> 0]
  BY <1>2 DEF States, Sizes, Keeps, Counts
<1>. QED
  BY <1>2, <1>3 DEF A!Init

LEMMA NextMaps ==
  ASSUME IInv, StructuredCode, Room, Room', [Next]_vars
  PROVE  [A!Next]_(A!vars)
<1>1. CASE UNCHANGED vars
  <2>1. stack' = stack /\ frames' = frames /\ gens' = gens
    BY <1>1 DEF vars
  <2>2. Simulated
    BY <2>1, StutterMaps DEF N
  <2>. QED
    BY <2>2 DEF Simulated
<1>2. CASE Execute \/ Underflow \/ Halt \/ ReturnOp \/ YieldValue \/ ReturnGenerator
  BY <1>2, ExecuteMaps, UnderflowMaps, HaltMaps, ReturnMaps, YieldMaps, ReturnGeneratorMaps
     DEF Simulated
<1>3. CASE Load \/ LoadName \/ Dup \/ LoadMethod
  BY <1>3, LoadingMaps DEF Simulated
<1>4. CASE PopOp \/ RotTwo \/ EqualOp \/ Jump \/ JumpIfFalse \/ CheckExcept
  BY <1>4, MovingMaps DEF Simulated
<1>5. CASE StoreName \/ SetupTry \/ PopTry \/ RaiseOp
  BY <1>5, StoreNameMaps, SetupTryMaps, PopTryMaps, RaisingMaps DEF Simulated
<1>6. CASE CallPrint \/ CallMethod \/ CallFault \/ CallOther
  BY <1>6, NativeMaps DEF Simulated
<1>7. CASE CallNext \/ CallList \/ CallFunction \/ RangeInit \/ RangeNext
  BY <1>7, CallNextMaps, CallListMaps, CallFunctionMaps, RangeMaps DEF Simulated
<1>. QED
  BY <1>1, <1>2, <1>3, <1>4, <1>5, <1>6, <1>7 DEF Next

(* The interpreter refines the activation stack, step by step: whatever    *)
(* structured code runs, for all limits, each instruction is a step that   *)
(* Activation allows or leaves its state alone, as long as the run stays   *)
(* within the number of generators and the height that Activation is given.*)
(* So what is proved of Activation holds of compiled programs.             *)
THEOREM RunsAsActivation == Spec /\ StructuredCode /\ []Room => ImplementsActivation
<1>1. Init => A!Init
  BY InitMaps
<1>2. IInv /\ StructuredCode /\ Room /\ Room' /\ [Next]_vars => [A!Next]_(A!vars)
  BY NextMaps
<1>3. Spec /\ StructuredCode => [](IInv /\ StructuredCode)
  BY Inductive
<1>. QED
  BY <1>1, <1>2, <1>3, PTL DEF Spec, ImplementsActivation, A!Spec

-----------------------------------------------------------------------------
(* What is proved of Activation, of the interpreter.                       *)

T == INSTANCE Activation_proofs WITH
       Gens <- Objects, StackMax <- DepthMax, Capacity <- DepthMax, RefMax <- 1,
       frames <- Activations(frames), count <- Len(stack), state <- States(gens),
       saved <- Sizes(gens), kept <- Keeps(gens), refs <- Counts(gens)

(* The assumptions of Activation hold of its instance.                     *)
LEMMA ActivationAssumed == T!ActivationAssumption
<1>1. NoGen \notin Objects
  BY DEF NoGen, Objects
<1>. QED
  BY <1>1, LimitAssumption DEF T!ActivationAssumption

(* The two instances are of the same specification.                        *)
LEMMA SameActivation == A!Spec <=> T!Spec
BY DEF A!gvars, T!gvars, A!vars, T!vars, A!Activate, T!Activate, A!Depth, T!Depth,
         A!Top, T!Top, A!Live, T!Live, A!Floor, T!Floor, A!CanPop, T!CanPop, A!Finish,
         T!Finish, A!GensOf, T!GensOf, A!AbortFrom, T!AbortFrom, A!CatchAt, T!CatchAt,
         A!Catches, T!Catches, A!RaiseFrom, T!RaiseFrom, A!Reserve, T!Reserve, A!Init,
         T!Init, A!Execute, T!Execute, A!Import, T!Import, A!Halt, T!Halt, A!Operate,
         T!Operate, A!Call, T!Call, A!Return, T!Return, A!SetupTry, T!SetupTry,
         A!PopTry, T!PopTry, A!Raise, T!Raise, A!Fail, T!Fail, A!MakeGenerator,
         T!MakeGenerator, A!Share, T!Share, A!Held, T!Held, A!Drop, T!Drop, A!Resume,
         T!Resume, A!Exists, T!Exists, A!ForNext, T!ForNext, A!Next1, T!Next1, A!Next2,
         T!Next2, A!Collect, T!Collect, A!Suspend, T!Suspend, A!Yield, T!Yield,
         A!ReturnGenerator, T!ReturnGenerator, A!Next, T!Next, A!Spec, T!Spec

LEMMA SameProperties ==
  /\ A!RunningIffActive <=> T!RunningIffActive
  /\ A!SlicesNested <=> T!SlicesNested
  /\ A!KeptWithinSaved <=> T!KeptWithinSaved
  /\ A!DoneForever <=> T!DoneForever
BY DEF A!RunningIffActive, T!RunningIffActive, A!SlicesNested, T!SlicesNested,
         A!KeptWithinSaved, T!KeptWithinSaved, A!DoneForever, T!DoneForever, A!Held,
         T!Held, A!Ascending, T!Ascending, A!Floor, T!Floor, A!vars, T!vars, A!gvars,
         T!gvars

(* The theorems of Activation hold of every program of structured code: a  *)
(* generator says that it runs exactly while it has one activation, no     *)
(* instruction, exception, yield or return takes operands of another       *)
(* activation, what a suspended generator keeps fits where it is resumed,  *)
(* and a finished generator is never restarted.                            *)
THEOREM ActivationKept ==
  Spec /\ StructuredCode /\ []Room =>
    /\ []A!RunningIffActive /\ []A!SlicesNested /\ []A!KeptWithinSaved
    /\ A!DoneForever
<1>1. T!ActivationAssumption => (T!Spec => []T!RunningIffActive)
  BY T!RunningExactlyWhileActive
<1>2. T!ActivationAssumption => (T!Spec => []T!SlicesNested)
  BY T!OperandsNested
<1>3. T!ActivationAssumption => (T!Spec => []T!KeptWithinSaved)
  BY T!TriesKeptWithinSaved
<1>4. T!ActivationAssumption => (T!Spec => T!DoneForever)
  BY T!NeverRestarted
<1>5. /\ A!RunningIffActive <=> T!RunningIffActive
      /\ A!SlicesNested <=> T!SlicesNested
      /\ A!KeptWithinSaved <=> T!KeptWithinSaved
  BY SameProperties
<1>. QED
  BY <1>1, <1>2, <1>3, <1>4, <1>5, ActivationAssumed, SameActivation, SameProperties,
     RunsAsActivation, PTL DEF ImplementsActivation
=============================================================================
