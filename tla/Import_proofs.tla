---------------------------- MODULE Import_proofs ----------------------------
(***************************************************************************)
(* Proofs of the properties of Import, for every number of modules, names, *)
(* activations and functions, and of its refinement of Loader.             *)
(*                                                                         *)
(* They are proved for behaviours in which exit() is called only when no   *)
(* import is under way (ExitDepth = 0): an exit under an import leaves the *)
(* activations of the nested run behind, and nothing below holds then.     *)
(***************************************************************************)
EXTENDS Import, SequenceTheorems, TLAPS

(* What holds of one activation: a def runs in its own module's globals.   *)
FrameOK(f) ==
  /\ f \in Frame
  /\ f.kind = "def" => f.owner = f.home
  /\ f.kind = "module" => f.owner = Program

(* The only activations of module level code are the program's and those   *)
(* that runs begin with.                                                   *)
Begun(k, fs, rs) ==
  \/ k = 1 /\ fs[k].home = Program
  \/ \E i \in 1..Len(rs) : k = rs[i].base + 1

(* A run r begins with the activation of its module, and whatever lies     *)
(* under it is older than that module.                                     *)
RunOK(fs, r) ==
  /\ r.base >= 1 /\ r.base < Len(fs)
  /\ fs[r.base + 1].kind = "module" /\ fs[r.base + 1].home = r.module
  /\ \A k \in 1..r.base : fs[k].owner < r.module /\ fs[k].home < r.module

Older(q, r) == q.base < r.base /\ q.module < r.module

(* The frame stack fs and the runs rs that lie in it.                      *)
Layout(fs, rs) ==
  /\ fs \in Seq(Frame) /\ Len(fs) <= FrameMax /\ rs \in Seq(Run)
  /\ fs # <<>> => fs[1].kind = "module"
  /\ \A k \in 1..Len(fs) : FrameOK(fs[k])
  /\ \A k \in 1..Len(fs) : fs[k].kind = "module" => Begun(k, fs, rs)
  /\ \A i \in 1..Len(rs) : RunOK(fs, rs[i])
  /\ \A i, j \in 1..Len(rs) : i < j => Older(rs[i], rs[j])

(* What the runs saved leads back from the module that is executing.       *)
Innermost(rs) == IF rs = <<>> THEN Program ELSE rs[Len(rs)].module
Chain(ex, rs) ==
  /\ ex = Innermost(rs)
  /\ \A i \in 1..Len(rs) : rs[i].executing = IF i = 1 THEN Program ELSE rs[i - 1].module

(* Objects are made in order, and those that are loading are those of runs.*)
Modules(m, st, nm, ca, rs) ==
  /\ \A o \in Objs : st[o] = "absent" <=> o > m
  /\ \A o \in Objs : st[o] = "loading" <=> \E i \in 1..Len(rs) : rs[i].module = o
  /\ ca = {o \in Objs : st[o] \in {"loading", "loaded"}}
  /\ \A o, p \in ca : nm[o] = nm[p] => o = p

(* Every table of names is where it belongs.                               *)
Kept(g, ex, rs, tb, bd, st) ==
  /\ g = bd[ex]
  /\ \A i \in 1..Len(rs) : rs[i].saved = bd[rs[i].executing]
  /\ \A o \in Objs : st[o] = "loaded" => tb[o] = bd[o]
  /\ \A o \in Objs : st[o] = "absent" => tb[o] = {} /\ bd[o] = {}

(* Nothing refers to a module that was not made, and no activation to one  *)
(* that was destroyed.                                                     *)
Known(fs, fn, m, st) ==
  /\ \A k \in 1..Len(fs) :
       /\ fs[k].owner <= m /\ fs[k].home <= m
       /\ fs[k].owner # Program => st[fs[k].owner] # "destroyed"
       /\ fs[k].home # Program => st[fs[k].home] # "destroyed"
  /\ \A f \in fn : /\ f.owner <= m /\ f.home <= m
                   /\ f.kind = "def" => f.owner = f.home

Over == {"halted", "failed", "exited"}
IInv ==
  /\ TypeOK
  /\ Layout(frames, runs)
  /\ Chain(executing, runs)
  /\ Modules(made, stage, name, cache, runs)
  /\ Kept(globals, executing, runs, table, bound, stage)
  /\ Known(frames, functions, made, stage)
  /\ status \notin Over => frames # <<>>

-----------------------------------------------------------------------------
(* Lemmas about sequences.                                                 *)

(* All but the last element of a sequence.                                 *)
LEMMA FrontOf ==
  ASSUME NEW S, NEW s \in Seq(S), s # <<>>
  PROVE  /\ Front(s) \in Seq(S) /\ Len(Front(s)) = Len(s) - 1
         /\ \A i \in 1..(Len(s) - 1) : Front(s)[i] = s[i]
         /\ Len(s) \in Nat \ {0} /\ Last(s) \in S /\ Last(s) = s[Len(s)]
<1>1. Len(s) \in Nat \ {0}
  BY EmptySeq, LenProperties
<1>2. Last(s) \in S /\ Last(s) = s[Len(s)]
  BY <1>1, ElementOfSeq DEF Last
<1>3. \A i \in 1..(Len(s) - 1) : s[i] \in S
  BY <1>1, ElementOfSeq
<1>4. /\ SubSeq(s, 1, Len(s) - 1) \in Seq(S)
      /\ Len(SubSeq(s, 1, Len(s) - 1)) = Len(s) - 1
      /\ \A i \in 1..(Len(s) - 1) : SubSeq(s, 1, Len(s) - 1)[i] = s[i]
  <2>. DEFINE n == Len(s) - 1
  <2>1. n \in Nat /\ \A i \in 1..n : s[i] \in S
    BY <1>1, <1>3
  <2>. HIDE DEF n
  <2>2. /\ SubSeq(s, 1, n) \in Seq(S) /\ Len(SubSeq(s, 1, n)) = n
        /\ \A i \in 1..n : SubSeq(s, 1, n)[i] = s[i]
    BY <2>1, SubSeqProperties, SMTT(30)
  <2>. QED
    BY <2>2 DEF n
<1>. QED
  BY <1>1, <1>2, <1>4 DEF Front

(* The first n elements of a sequence.                                     *)
LEMMA PrefixOf ==
  ASSUME NEW S, NEW s \in Seq(S), NEW n \in 0..Len(s)
  PROVE  /\ SubSeq(s, 1, n) \in Seq(S) /\ Len(SubSeq(s, 1, n)) = n
         /\ \A i \in 1..n : SubSeq(s, 1, n)[i] = s[i]
<1>1. Len(s) \in Nat
  BY LenProperties
<1>2. \A i \in 1..n : s[i] \in S
  BY <1>1, ElementOfSeq
<1>. QED
  BY <1>1, <1>2, SubSeqProperties, SMTT(30)

-----------------------------------------------------------------------------
(* Lemmas about the frame stack and the runs in it.                        *)

(* The members of runs and activations have their types.                   *)
LEMMA LayoutTypes ==
  ASSUME NEW fs, NEW rs, Layout(fs, rs)
  PROVE  /\ Len(fs) \in Nat /\ Len(rs) \in Nat
         /\ \A k \in 1..Len(fs) : /\ fs[k] \in Frame
                                  /\ fs[k].owner \in 0..ObjMax /\ fs[k].home \in 0..ObjMax
         /\ \A i \in 1..Len(rs) : /\ rs[i] \in Run
                                  /\ rs[i].module \in Objs /\ rs[i].base \in Nat
                                  /\ rs[i].executing \in 0..ObjMax
                                  /\ rs[i].saved \subseteq Names
<1>1. fs \in Seq(Frame) /\ rs \in Seq(Run)
  BY DEF Layout
<1>2. Len(fs) \in Nat /\ Len(rs) \in Nat
  BY <1>1, LenProperties
<1>3. (\A k \in 1..Len(fs) : fs[k] \in Frame) /\ \A i \in 1..Len(rs) : rs[i] \in Run
  BY <1>1, ElementOfSeq
<1>. QED
  BY <1>2, <1>3 DEF Frame, Run

(* When the innermost activation is a module's, it is the one that is      *)
(* executing, and no other activation is left in its run.                  *)
LEMMA TopModule ==
  ASSUME NEW fs, NEW rs, Layout(fs, rs), fs # <<>>, fs[Len(fs)].kind = "module"
  PROVE  /\ fs[Len(fs)].home = Innermost(rs) /\ fs[Len(fs)].owner = Program
         /\ rs # <<>> => Len(fs) = rs[Len(rs)].base + 1
<1>1. /\ Len(fs) \in Nat /\ Len(rs) \in Nat
      /\ \A i \in 1..Len(rs) : rs[i].base \in Nat
  BY LayoutTypes
<1>2. fs \in Seq(Frame) /\ rs \in Seq(Run)
  BY DEF Layout
<1>3. Len(fs) \in 1..Len(fs)
  BY <1>1, <1>2, EmptySeq
<1>4. Begun(Len(fs), fs, rs) /\ FrameOK(fs[Len(fs)])
  BY <1>3 DEF Layout
<1>5. \A i \in 1..Len(rs) : RunOK(fs, rs[i])
  BY DEF Layout
<1>6. CASE rs = <<>>
  BY <1>1, <1>2, <1>4, <1>6, EmptySeq DEF Innermost, Begun, FrameOK
<1>7. CASE rs # <<>>
  <2>1. Len(rs) \in 1..Len(rs)
    BY <1>1, <1>2, <1>7, EmptySeq
  <2>2. rs[Len(rs)].base >= 1 /\ rs[Len(rs)].base < Len(fs)
    BY <1>5, <2>1 DEF RunOK
  <2>3. PICK i \in 1..Len(rs) : Len(fs) = rs[i].base + 1
    BY <1>1, <1>4, <2>1, <2>2 DEF Begun
  <2>4. i = Len(rs)
    <3>1. SUFFICES ASSUME i < Len(rs)  PROVE FALSE
      BY <1>1
    <3>2. rs[i].base < rs[Len(rs)].base
      BY <2>1, <3>1 DEF Layout, Older
    <3>. QED
      BY <1>1, <2>1, <2>2, <2>3, <3>2
  <2>5. fs[rs[i].base + 1].home = rs[i].module
    BY <1>5 DEF RunOK
  <2>. QED
    BY <1>4, <1>7, <2>3, <2>4, <2>5 DEF FrameOK, Innermost
<1>. QED
  BY <1>6, <1>7

(* A frame stack that agrees with fs up to a height below which all runs   *)
(* begin, and has no other module level code, keeps the runs in order.     *)
LEMMA SameRuns ==
  ASSUME NEW fs, NEW rs, Layout(fs, rs),
         NEW gs \in Seq(Frame), Len(gs) <= FrameMax,
         gs # <<>> => gs[1].kind = "module",
         \A k \in 1..Len(gs) : FrameOK(gs[k]),
         \A k \in 1..Len(gs) : gs[k].kind = "module" => k <= Len(fs) /\ fs[k].kind = "module",
         \A k \in 1..Len(gs) : k <= Len(fs) =>
           gs[k].kind = fs[k].kind /\ gs[k].home = fs[k].home /\ gs[k].owner = fs[k].owner,
         \A i \in 1..Len(rs) : rs[i].base < Len(gs)
  PROVE  Layout(gs, rs)
<1>1. /\ Len(fs) \in Nat /\ Len(gs) \in Nat /\ Len(rs) \in Nat
      /\ \A i \in 1..Len(rs) : rs[i].base \in Nat
  BY LayoutTypes, LenProperties
<1>2. ASSUME NEW k \in 1..Len(gs), gs[k].kind = "module"  PROVE Begun(k, gs, rs)
  <2>1. k \in 1..Len(fs) /\ fs[k].kind = "module"
    BY <1>1, <1>2
  <2>2. Begun(k, fs, rs)
    BY <2>1 DEF Layout
  <2>. QED
    BY <1>1, <2>1, <2>2 DEF Begun
<1>3. ASSUME NEW i \in 1..Len(rs)  PROVE RunOK(gs, rs[i])
  <2>1. RunOK(fs, rs[i])
    BY DEF Layout
  <2>2. rs[i].base < Len(gs) /\ rs[i].base < Len(fs) /\ rs[i].base \in Nat /\ rs[i].base >= 1
    BY <1>1, <2>1 DEF RunOK
  <2>3. \A k \in 1..(rs[i].base + 1) :
          gs[k].kind = fs[k].kind /\ gs[k].home = fs[k].home /\ gs[k].owner = fs[k].owner
    BY <1>1, <2>2
  <2>. QED
    BY <1>1, <2>1, <2>2, <2>3, SMTT(60) DEF RunOK
<1>. QED
  BY <1>2, <1>3 DEF Layout

(* Popping an activation that is not a module's leaves the runs in order.  *)
LEMMA Popped ==
  ASSUME NEW fs, NEW rs, Layout(fs, rs), fs # <<>>, fs[Len(fs)].kind # "module"
  PROVE  Layout(Front(fs), rs) /\ Front(fs) # <<>>
<1>1. /\ Len(fs) \in Nat /\ Len(rs) \in Nat /\ fs \in Seq(Frame)
      /\ \A i \in 1..Len(rs) : rs[i].base \in Nat
  BY LayoutTypes DEF Layout
<1>2. /\ Front(fs) \in Seq(Frame) /\ Len(Front(fs)) = Len(fs) - 1 /\ Len(fs) \in Nat \ {0}
      /\ \A k \in 1..(Len(fs) - 1) : Front(fs)[k] = fs[k]
  BY <1>1, FrontOf
<1>3. fs[1].kind = "module"
  BY DEF Layout
<1>4. Len(fs) > 1
  BY <1>2, <1>3
<1>5. ASSUME NEW i \in 1..Len(rs)  PROVE rs[i].base < Len(fs) - 1
  <2>1. RunOK(fs, rs[i])
    BY DEF Layout
  <2>2. rs[i].base + 1 # Len(fs) /\ rs[i].base < Len(fs)
    BY <2>1 DEF RunOK
  <2>. QED
    BY <1>1, <2>2
<1>6. Len(Front(fs)) <= FrameMax
  BY <1>2, ImportAssumption DEF Layout
<1>7. \A k \in 1..Len(Front(fs)) : FrameOK(Front(fs)[k])
  BY <1>2 DEF Layout
<1>8. Front(fs) # <<>> /\ Front(fs)[1].kind = "module"
  BY <1>2, <1>3, <1>4, EmptySeq
<1>. QED
  BY <1>1, <1>2, <1>5, <1>6, <1>7, <1>8, SameRuns

(* So does pushing one.                                                    *)
LEMMA Pushed ==
  ASSUME NEW fs, NEW rs, Layout(fs, rs), fs # <<>>, Len(fs) < FrameMax,
         NEW f, FrameOK(f), f.kind # "module"
  PROVE  Layout(Append(fs, f), rs)
<1>. DEFINE gs == Append(fs, f)
<1>1. /\ Len(fs) \in Nat /\ Len(rs) \in Nat /\ fs \in Seq(Frame)
      /\ \A i \in 1..Len(rs) : rs[i].base \in Nat
  BY LayoutTypes DEF Layout
<1>2. /\ gs \in Seq(Frame) /\ Len(gs) = Len(fs) + 1 /\ gs # <<>>
      /\ (\A k \in 1..Len(fs) : gs[k] = fs[k]) /\ gs[Len(fs) + 1] = f
  BY <1>1, AppendProperties DEF FrameOK
<1>. HIDE DEF gs
<1>3. Len(fs) >= 1 /\ Len(gs) <= FrameMax
  BY <1>1, <1>2, EmptySeq, ImportAssumption
<1>4. gs[1].kind = "module"
  BY <1>1, <1>2, <1>3 DEF Layout
<1>5. \A k \in 1..Len(gs) : k \in 1..Len(fs) \/ k = Len(fs) + 1
  BY <1>1, <1>2
<1>6. \A k \in 1..Len(gs) : FrameOK(gs[k])
  BY <1>2, <1>5 DEF Layout
<1>7. \A k \in 1..Len(gs) : gs[k].kind = "module" => k <= Len(fs) /\ fs[k].kind = "module"
  BY <1>1, <1>2, <1>5
<1>8. \A i \in 1..Len(rs) : rs[i].base < Len(gs)
  BY <1>1, <1>2 DEF Layout, RunOK
<1>9. \A k \in 1..Len(gs) : k <= Len(fs) => gs[k] = fs[k]
  BY <1>1, <1>2
<1>10. Layout(gs, rs)
  BY <1>2, <1>3, <1>4, <1>6, <1>7, <1>8, <1>9, SameRuns
<1>. QED
  BY <1>10 DEF gs

(* The activations are the same but for what they handle.                  *)
Alike(gs, fs) ==
  /\ Len(gs) = Len(fs)
  /\ \A k \in 1..Len(gs) : /\ gs[k].kind = fs[k].kind /\ gs[k].home = fs[k].home
                           /\ gs[k].owner = fs[k].owner

(* And so does entering or leaving a try block of the innermost one.       *)
LEMMA Toggled ==
  ASSUME NEW fs, NEW rs, Layout(fs, rs), fs # <<>>, NEW h \in BOOLEAN,
         NEW gs, gs = [fs EXCEPT ![Len(fs)].handles = h]
  PROVE  Layout(gs, rs) /\ gs # <<>> /\ Alike(gs, fs)
<1>1. /\ Len(fs) \in Nat /\ Len(rs) \in Nat /\ fs \in Seq(Frame)
      /\ \A i \in 1..Len(rs) : rs[i].base \in Nat
  BY LayoutTypes DEF Layout
<1>2. Len(fs) \in 1..Len(fs) /\ DOMAIN fs = 1..Len(fs)
  BY <1>1, EmptySeq, LenProperties
<1>. DEFINE g == [fs[Len(fs)] EXCEPT !.handles = h]
<1>3. fs[Len(fs)] \in Frame
  BY <1>1, <1>2, ElementOfSeq
<1>4. /\ g \in Frame /\ g.kind = fs[Len(fs)].kind
      /\ g.home = fs[Len(fs)].home /\ g.owner = fs[Len(fs)].owner
  BY <1>3 DEF Frame
<1>5. gs = [fs EXCEPT ![Len(fs)] = g]
  BY <1>2, <1>3
<1>. HIDE DEF g
<1>6. /\ gs \in Seq(Frame) /\ Len(gs) = Len(fs)
      /\ \A k \in 1..Len(fs) : gs[k] = IF k = Len(fs) THEN g ELSE fs[k]
  BY <1>1, <1>2, <1>4, <1>5, ExceptSeq
<1>7. \A k \in 1..Len(gs) : /\ gs[k].kind = fs[k].kind /\ gs[k].home = fs[k].home
                            /\ gs[k].owner = fs[k].owner
  BY <1>4, <1>6
<1>8. \A k \in 1..Len(gs) : FrameOK(gs[k])
  <2>1. \A k \in 1..Len(gs) : gs[k] \in Frame
    BY <1>6, ElementOfSeq
  <2>2. \A k \in 1..Len(fs) : FrameOK(fs[k])
    BY DEF Layout
  <2>. QED
    BY <1>6, <1>7, <2>1, <2>2 DEF FrameOK
<1>9. gs # <<>> /\ gs[1].kind = "module" /\ Len(gs) <= FrameMax
  BY <1>1, <1>2, <1>6, <1>7, EmptySeq DEF Layout
<1>10. \A i \in 1..Len(rs) : rs[i].base < Len(gs)
  BY <1>6 DEF Layout, RunOK
<1>11. \A k \in 1..Len(gs) : gs[k].kind = "module" => k <= Len(fs) /\ fs[k].kind = "module"
  BY <1>1, <1>6, <1>7
<1>12. Layout(gs, rs)
  <2>1. \A k \in 1..Len(gs) : k <= Len(fs) =>
           gs[k].kind = fs[k].kind /\ gs[k].home = fs[k].home /\ gs[k].owner = fs[k].owner
    BY <1>7
  <2>. QED
    BY <1>6, <1>8, <1>9, <1>10, <1>11, <2>1, SameRuns
<1>. QED
  BY <1>6, <1>7, <1>9, <1>12 DEF Alike

(* The run of a module newer than all there is begins above the rest.      *)
LEMMA BegunRun ==
  ASSUME NEW fs, NEW rs, Layout(fs, rs), fs # <<>>, Len(fs) < FrameMax,
         NEW r \in Run, r.base = Len(fs),
         \A k \in 1..Len(fs) : fs[k].owner < r.module /\ fs[k].home < r.module,
         \A i \in 1..Len(rs) : rs[i].module < r.module
  PROVE  Layout(Append(fs, Module(r.module)), Append(rs, r))
<1>. DEFINE f == Module(r.module)
            gs == Append(fs, f)
            qs == Append(rs, r)
<1>1. /\ Len(fs) \in Nat /\ Len(rs) \in Nat /\ fs \in Seq(Frame) /\ rs \in Seq(Run)
      /\ \A i \in 1..Len(rs) : rs[i].base \in Nat
  BY LayoutTypes DEF Layout
<1>2. r.module \in Objs /\ r.module \in 0..ObjMax
  BY ImportAssumption DEF Run, Objs
<1>3. f \in Frame /\ FrameOK(f) /\ f.kind = "module" /\ f.home = r.module
  BY <1>2, ImportAssumption DEF Frame, FrameOK, Module, Program
<1>4. /\ gs \in Seq(Frame) /\ Len(gs) = Len(fs) + 1 /\ gs # <<>>
      /\ (\A k \in 1..Len(fs) : gs[k] = fs[k]) /\ gs[Len(fs) + 1] = f
  BY <1>1, <1>3, AppendProperties
<1>5. /\ qs \in Seq(Run) /\ Len(qs) = Len(rs) + 1
      /\ (\A i \in 1..Len(rs) : qs[i] = rs[i]) /\ qs[Len(rs) + 1] = r
  BY <1>1, AppendProperties
<1>. HIDE DEF f, gs, qs
<1>6. Len(fs) >= 1 /\ Len(gs) <= FrameMax
  BY <1>1, <1>4, EmptySeq, ImportAssumption
<1>7. gs[1].kind = "module"
  BY <1>1, <1>4, <1>6 DEF Layout
<1>8. \A k \in 1..Len(gs) : k \in 1..Len(fs) \/ k = Len(fs) + 1
  BY <1>1, <1>4
<1>9. \A i \in 1..Len(qs) : i \in 1..Len(rs) \/ i = Len(rs) + 1
  BY <1>1, <1>5
<1>10. \A k \in 1..Len(gs) : FrameOK(gs[k])
  BY <1>3, <1>4, <1>8 DEF Layout
<1>11. ASSUME NEW k \in 1..Len(gs), gs[k].kind = "module"  PROVE Begun(k, gs, qs)
  <2>1. CASE k \in 1..Len(fs)
    <3>1. Begun(k, fs, rs)
      BY <1>4, <1>11, <2>1 DEF Layout
    <3>2. \A i \in 1..Len(rs) : i \in 1..Len(qs)
      BY <1>1, <1>5
    <3>. QED
      BY <1>4, <1>5, <2>1, <3>1, <3>2 DEF Begun
  <2>2. CASE k = Len(fs) + 1
    <3>1. Len(rs) + 1 \in 1..Len(qs) /\ k = qs[Len(rs) + 1].base + 1
      BY <1>1, <1>5, <2>2
    <3>. QED
      BY <3>1 DEF Begun
  <2>. QED
    BY <1>8, <2>1, <2>2
<1>12. ASSUME NEW i \in 1..Len(qs)  PROVE RunOK(gs, qs[i])
  <2>1. CASE i \in 1..Len(rs)
    <3>1. RunOK(fs, rs[i]) /\ qs[i] = rs[i]
      BY <1>5, <2>1 DEF Layout
    <3>2. rs[i].base >= 1 /\ rs[i].base < Len(fs) /\ rs[i].base \in Nat
      BY <1>1, <2>1, <3>1 DEF RunOK
    <3>3. \A k \in 1..(rs[i].base + 1) : gs[k] = fs[k]
      BY <1>1, <1>4, <3>2
    <3>4. gs[rs[i].base + 1] = fs[rs[i].base + 1] /\ \A k \in 1..rs[i].base : gs[k] = fs[k]
      BY <1>1, <3>2, <3>3, SMTT(60)
    <3>5. rs[i].base < Len(gs)
      BY <1>1, <1>4, <3>2
    <3>. QED
      BY <3>1, <3>4, <3>5 DEF RunOK
  <2>2. CASE i = Len(rs) + 1
    <3>1. qs[i] = r /\ r.base >= 1 /\ r.base < Len(gs) /\ gs[r.base + 1] = f
      BY <1>1, <1>4, <1>5, <1>6, <2>2
    <3>2. \A k \in 1..r.base : gs[k] = fs[k] /\ k \in 1..Len(fs)
      BY <1>4
    <3>. QED
      BY <1>3, <3>1, <3>2 DEF RunOK
  <2>. QED
    BY <1>9, <2>1, <2>2
<1>13. ASSUME NEW i \in 1..Len(qs), NEW j \in 1..Len(qs), i < j  PROVE Older(qs[i], qs[j])
  <2>1. i \in 1..Len(rs)
    BY <1>1, <1>5, <1>9, <1>13
  <2>2. CASE j \in 1..Len(rs)
    BY <1>5, <1>13, <2>1, <2>2 DEF Layout
  <2>3. CASE j = Len(rs) + 1
    <3>1. RunOK(fs, rs[i])
      BY <2>1 DEF Layout
    <3>. QED
      BY <1>5, <2>1, <2>3, <3>1 DEF Older, RunOK
  <2>. QED
    BY <1>9, <2>2, <2>3
<1>14. Layout(gs, qs)
  BY <1>4, <1>5, <1>6, <1>7, <1>10, <1>11, <1>12, <1>13 DEF Layout
<1>. QED
  BY <1>14 DEF gs, qs, f

(* A nested run ends: what is left is what was there before it began.      *)
Ended(fs, rs, r, gs) ==
  /\ Layout(gs, Front(rs)) /\ gs # <<>> /\ Len(gs) = r.base /\ r.base \in Nat
  /\ \A k \in 1..Len(gs) : /\ k \in 1..Len(fs) /\ gs[k] = fs[k]
                           /\ fs[k].owner < r.module /\ fs[k].home < r.module

LEMMA EndedRun ==
  ASSUME NEW fs, NEW rs, Layout(fs, rs), rs # <<>>,
         NEW r, r = Last(rs), NEW gs, gs = SubSeq(fs, 1, r.base)
  PROVE  Ended(fs, rs, r, gs)
<1>. DEFINE qs == Front(rs)
            n == Len(rs)
<1>1. /\ Len(fs) \in Nat /\ Len(rs) \in Nat /\ fs \in Seq(Frame) /\ rs \in Seq(Run)
      /\ \A i \in 1..Len(rs) : rs[i].base \in Nat
  BY LayoutTypes DEF Layout
<1>2. /\ qs \in Seq(Run) /\ Len(qs) = n - 1 /\ n \in Nat \ {0} /\ r = rs[n]
      /\ \A i \in 1..(n - 1) : qs[i] = rs[i]
  BY <1>1, FrontOf
<1>. HIDE DEF qs, n
<1>3. n \in 1..Len(rs) /\ n = Len(rs)
  BY <1>2 DEF n
<1>4. RunOK(fs, r) /\ r.base \in Nat
  BY <1>1, <1>2, <1>3 DEF Layout
<1>5. r.base >= 1 /\ r.base < Len(fs)
  BY <1>4 DEF RunOK
<1>6. gs \in Seq(Frame) /\ Len(gs) = r.base /\ \A k \in 1..r.base : gs[k] = fs[k]
  BY <1>1, <1>4, <1>5, PrefixOf
<1>7. \A k \in 1..Len(gs) : /\ k \in 1..Len(fs) /\ gs[k] = fs[k]
                            /\ fs[k].owner < r.module /\ fs[k].home < r.module
  BY <1>1, <1>4, <1>5, <1>6 DEF RunOK
<1>8. gs # <<>> /\ gs[1].kind = "module" /\ Len(gs) <= FrameMax
  BY <1>1, <1>4, <1>5, <1>6, <1>7, EmptySeq, ImportAssumption DEF Layout
<1>9. \A k \in 1..Len(gs) : FrameOK(gs[k])
  BY <1>7 DEF Layout
<1>10. ASSUME NEW i \in 1..Len(qs)
       PROVE  i \in 1..Len(rs) /\ i < n /\ qs[i] = rs[i] /\ rs[i].base < r.base
  <2>1. i \in 1..Len(rs) /\ i < n /\ qs[i] = rs[i]
    BY <1>2, <1>3
  <2>. QED
    BY <1>2, <1>3, <2>1 DEF Layout, Older
<1>11. ASSUME NEW k \in 1..Len(gs), gs[k].kind = "module"  PROVE Begun(k, gs, qs)
  <2>1. Begun(k, fs, rs) /\ gs[k] = fs[k]
    BY <1>7, <1>11 DEF Layout
  <2>2. CASE k = 1 /\ fs[k].home = Program
    BY <2>1, <2>2 DEF Begun
  <2>3. ASSUME NEW i \in 1..Len(rs), k = rs[i].base + 1  PROVE Begun(k, gs, qs)
    <3>1. i # n
      BY <1>2, <1>4, <1>6, <2>3
    <3>2. i \in 1..Len(qs)
      BY <1>2, <1>3, <3>1
    <3>. QED
      BY <1>10, <2>3, <3>2 DEF Begun
  <2>. QED
    BY <2>1, <2>2, <2>3 DEF Begun
<1>12. ASSUME NEW i \in 1..Len(qs)  PROVE RunOK(gs, qs[i])
  <2>1. RunOK(fs, rs[i]) /\ rs[i].base \in Nat
    BY <1>1, <1>10 DEF Layout
  <2>2. qs[i] = rs[i] /\ rs[i].base < r.base /\ rs[i].base >= 1
    BY <1>10, <2>1 DEF RunOK
  <2>3. \A k \in 1..(rs[i].base + 1) : gs[k] = fs[k]
    BY <1>4, <1>6, <2>1, <2>2
  <2>. QED
    BY <1>6, <2>1, <2>2, <2>3, SMTT(60) DEF RunOK
<1>13. \A i, j \in 1..Len(qs) : i < j => Older(qs[i], qs[j])
  BY <1>10 DEF Layout
<1>14. Layout(gs, qs)
  BY <1>2, <1>6, <1>8, <1>9, <1>11, <1>12, <1>13 DEF Layout
<1>. QED
  BY <1>4, <1>6, <1>7, <1>8, <1>14 DEF qs, Ended

-----------------------------------------------------------------------------
(* Every action preserves the invariant.                                   *)

Statuses == {"run", "error", "fatal", "halted", "failed", "exited", "wild"}

(* Nothing changes but the activations and what the innermost run does.    *)
LEMMA FramesStep ==
  ASSUME IInv, UNCHANGED <<modvars, runvars, functions, bound>>,
         Layout(frames', runs), Known(frames', functions, made, stage),
         status' \in Statuses, status' \notin Over => frames' # <<>>
  PROVE  IInv'
<1>1. /\ made' = made /\ name' = name /\ stage' = stage /\ cache' = cache /\ table' = table
      /\ globals' = globals /\ executing' = executing /\ runs' = runs
      /\ functions' = functions /\ bound' = bound /\ lent' = lent
  BY DEF modvars, runvars
<1>2. frames' \in Seq(Frame) /\ Len(frames') <= FrameMax
  BY DEF Layout
<1>3. TypeOK'
  BY <1>1, <1>2 DEF IInv, TypeOK, Statuses, Depth
<1>4. Layout(frames', runs') /\ Known(frames', functions', made', stage')
  BY <1>1
<1>5. /\ Chain(executing', runs') /\ Modules(made', stage', name', cache', runs')
      /\ Kept(globals', executing', runs', table', bound', stage')
  BY <1>1 DEF IInv
<1>. QED
  BY <1>3, <1>4, <1>5 DEF IInv

(* Only what the innermost run does changes.                               *)
LEMMA StatusStep ==
  ASSUME IInv, status \notin Over, NEW s \in Statuses, Becomes(s)
  PROVE  IInv'
<1>1. /\ UNCHANGED <<modvars, runvars, functions, bound>> /\ frames' = frames
      /\ status' = s
  BY DEF Becomes
<1>2. frames # <<>> /\ Layout(frames, runs) /\ Known(frames, functions, made, stage)
  BY DEF IInv
<1>. QED
  BY <1>1, <1>2, FramesStep

(* The program ends, one way or another, and its activations with it.      *)
LEMMA ProgramEnds ==
  ASSUME IInv, runs = <<>>, frames' = <<>>, status' \in Over,
         UNCHANGED <<modvars, runvars, functions, bound>>
  PROVE  IInv'
<1>1. <<>> \in Seq(Frame) /\ Len(<<>>) = 0 /\ runs \in Seq(Run) /\ Len(runs) = 0
  BY EmptySeq
<1>2. Layout(frames', runs)
  BY <1>1, ImportAssumption DEF Layout
<1>3. Known(frames', functions, made, stage)
  BY <1>1 DEF Known, IInv
<1>. QED
  BY <1>2, <1>3, FramesStep DEF Over, Statuses

(* The members of the state have their types.                              *)
LEMMA StateTypes ==
  ASSUME IInv
  PROVE  /\ made \in 0..ObjMax /\ made \in Nat /\ executing \in 0..ObjMax
         /\ Len(runs) \in Nat /\ runs \in Seq(Run) /\ Len(frames) \in Nat
         /\ frames \in Seq(Frame)
         /\ Objs \subseteq 0..ObjMax /\ Program \in 0..ObjMax /\ Program \notin Objs
         /\ \A o \in 0..ObjMax : o # Program => o \in Objs
         /\ \A i \in 1..Len(runs) : /\ runs[i] \in Run
                                    /\ runs[i].module \in Objs /\ runs[i].base \in Nat
                                    /\ runs[i].executing \in 0..ObjMax
                                    /\ runs[i].saved \subseteq Names
         /\ \A k \in 1..Len(frames) : /\ frames[k] \in Frame
                                      /\ frames[k].owner \in 0..ObjMax
                                      /\ frames[k].home \in 0..ObjMax
<1>1. Layout(frames, runs) /\ made \in 0..ObjMax /\ executing \in 0..ObjMax
  BY DEF IInv, TypeOK
<1>2. frames \in Seq(Frame) /\ runs \in Seq(Run)
  BY <1>1 DEF Layout
<1>3. made \in Nat
  BY <1>1, ImportAssumption
<1>4. /\ Objs \subseteq 0..ObjMax /\ Program \in 0..ObjMax /\ Program \notin Objs
      /\ \A o \in 0..ObjMax : o # Program => o \in Objs
  BY ImportAssumption DEF Objs, Program
<1>. QED
  BY <1>1, <1>2, <1>3, <1>4, LayoutTypes

(* The module that is executing is the innermost run's, and is loading.    *)
LEMMA InnermostRun ==
  ASSUME IInv, runs # <<>>, NEW r, r = Last(runs)
  PROVE  /\ Len(runs) \in 1..Len(runs) /\ r = runs[Len(runs)]
         /\ r.module \in Objs /\ executing = r.module /\ stage[r.module] = "loading"
         /\ Front(runs) \in Seq(Run) /\ Len(Front(runs)) = Len(runs) - 1
         /\ r.executing \in 0..ObjMax /\ r.saved \subseteq Names
         /\ \A i \in 1..(Len(runs) - 1) :
              /\ i \in 1..Len(runs)
              /\ Front(runs)[i] = runs[i] /\ runs[i].module < r.module
<1>1. /\ runs \in Seq(Run) /\ Len(runs) \in Nat
      /\ \A i \in 1..Len(runs) : /\ runs[i].module \in Objs
                                 /\ runs[i].executing \in 0..ObjMax
                                 /\ runs[i].saved \subseteq Names
  BY StateTypes
<1>2. /\ Front(runs) \in Seq(Run) /\ Len(Front(runs)) = Len(runs) - 1
      /\ \A i \in 1..(Len(runs) - 1) : Front(runs)[i] = runs[i]
      /\ Len(runs) \in Nat \ {0} /\ r = runs[Len(runs)]
  BY <1>1, FrontOf
<1>3. Len(runs) \in 1..Len(runs)
  BY <1>2
<1>4. executing = r.module
  BY <1>2 DEF IInv, Chain, Innermost
<1>5. stage[r.module] = "loading"
  BY <1>1, <1>2, <1>3 DEF IInv, Modules
<1>6. \A i \in 1..(Len(runs) - 1) : i \in 1..Len(runs) /\ i < Len(runs)
  BY <1>2
<1>7. \A i \in 1..(Len(runs) - 1) : runs[i].module < r.module
  BY <1>2, <1>3, <1>6 DEF IInv, Layout, Older
<1>. QED
  BY <1>1, <1>2, <1>3, <1>4, <1>5, <1>6, <1>7

(* The end of a nested run, of a module that is loaded or discarded.       *)
LEMMA LeftRun ==
  ASSUME IInv, status \notin Over, runs # <<>>, NEW r, r = Last(runs),
         Restore(r), status' = status,
         Loaded(r) \/ Discarded(r)
  PROVE  IInv'
<1>. DEFINE n == Len(runs)
<1>1. /\ n \in 1..n /\ r = runs[n] /\ n \in Nat
      /\ r.module \in Objs /\ executing = r.module /\ stage[r.module] = "loading"
      /\ Front(runs) \in Seq(Run) /\ Len(Front(runs)) = n - 1
      /\ r.executing \in 0..ObjMax /\ r.saved \subseteq Names
      /\ \A i \in 1..(n - 1) :
           /\ i \in 1..n
           /\ Front(runs)[i] = runs[i] /\ runs[i].module < r.module
  BY InnermostRun, StateTypes
<1>2. /\ executing' = r.executing /\ globals' = r.saved /\ runs' = Front(runs)
      /\ frames' = SubSeq(frames, 1, r.base)
      /\ made' = made /\ name' = name /\ functions' = functions /\ bound' = bound
      /\ lent' = lent
  BY DEF Restore
<1>3. TypeOK
  BY DEF IInv
<1>4. PICK e \in {"loaded", "destroyed"} :
        /\ stage' = [stage EXCEPT ![r.module] = e]
        /\ e = "loaded" => table' = [table EXCEPT ![r.module] = globals] /\ cache' = cache
        /\ e = "destroyed" => table' = table /\ cache' = cache \ {r.module}
  BY DEF Loaded, Discarded
<1>5. /\ stage'[r.module] = e
      /\ \A o \in Objs : o # r.module => stage'[o] = stage[o] /\ table'[o] = table[o]
      /\ e = "loaded" => table'[r.module] = globals
  BY <1>1, <1>3, <1>4 DEF TypeOK
<1>6. /\ Layout(frames', runs') /\ frames' # <<>> /\ r.base \in Nat /\ Len(frames') = r.base
      /\ \A k \in 1..Len(frames') : /\ k \in 1..Len(frames) /\ frames'[k] = frames[k]
                                    /\ frames[k].owner < r.module /\ frames[k].home < r.module
  <2>1. Layout(frames, runs)
    BY DEF IInv
  <2>2. Ended(frames, runs, r, SubSeq(frames, 1, r.base))
    BY <2>1, EndedRun
  <2>. QED
    BY <1>2, <2>2 DEF Ended
<1>. HIDE DEF n
<1>7. TypeOK'
  <2>1. stage' \in [Objs -> {"absent", "loading", "loaded", "destroyed"}]
    BY <1>1, <1>3, <1>4 DEF TypeOK
  <2>2. table' \in [Objs -> SUBSET Names] /\ cache' \subseteq Objs
    BY <1>1, <1>3, <1>4 DEF TypeOK
  <2>3. frames' \in Seq(Frame) /\ Len(frames') <= FrameMax
    BY <1>6 DEF Layout
  <2>. QED
    BY <1>1, <1>2, <1>3, <2>1, <2>2, <2>3 DEF TypeOK, Depth
<1>8. Chain(executing', runs')
  <2>1. \A i \in 1..n : runs[i].executing = IF i = 1 THEN Program ELSE runs[i - 1].module
    BY DEF IInv, Chain, n
  <2>2. \A i \in 1..(n - 1) : i # 1 => i - 1 \in 1..(n - 1) /\ Front(runs)[i - 1] = runs[i - 1]
    BY <1>1
  <2>3. \A i \in 1..(n - 1) :
          Front(runs)[i].executing = IF i = 1 THEN Program ELSE Front(runs)[i - 1].module
    BY <1>1, <2>1, <2>2
  <2>4. CASE n = 1
    <3>1. Front(runs) = <<>>
      BY <1>1, <2>4, EmptySeq
    <3>. QED
      BY <1>1, <1>2, <2>1, <2>3, <2>4, <3>1 DEF Chain, Innermost
  <2>5. CASE n # 1
    <3>1. Front(runs) # <<>> /\ n - 1 \in 1..(n - 1)
      BY <1>1, <2>5, EmptySeq
    <3>2. r.executing = Front(runs)[n - 1].module
      BY <1>1, <2>1, <2>5, <3>1
    <3>. QED
      BY <1>1, <1>2, <2>3, <3>1, <3>2 DEF Chain, Innermost
  <2>. QED
    BY <2>4, <2>5
<1>9. Modules(made', stage', name', cache', runs')
  <2>1. /\ \A o \in Objs : stage[o] = "absent" <=> o > made
        /\ \A o \in Objs : stage[o] = "loading" <=> \E i \in 1..n : runs[i].module = o
        /\ cache = {o \in Objs : stage[o] \in {"loading", "loaded"}}
        /\ \A o, p \in cache : name[o] = name[p] => o = p
    BY DEF IInv, Modules, n
  <2>2. \A o \in Objs : stage'[o] = "absent" <=> o > made
    BY <1>1, <1>5, <2>1
  <2>3. ASSUME NEW o \in Objs
        PROVE  stage'[o] = "loading" <=> \E i \in 1..(n - 1) : Front(runs)[i].module = o
    <3>1. CASE o = r.module
      <4>1. \A i \in 1..(n - 1) : Front(runs)[i].module # o
        <5>1. \A i \in 1..n : runs[i].module \in Objs /\ runs[i].module \in 0..ObjMax
          BY StateTypes DEF n
        <5>. QED
          BY <1>1, <3>1, <5>1
      <4>. QED
        BY <1>5, <3>1, <4>1
    <3>2. CASE o # r.module
      <4>1. \A i \in 1..n : i \in 1..(n - 1) \/ i = n
        BY <1>1
      <4>. QED
        BY <1>1, <1>5, <2>1, <3>2, <4>1
    <3>. QED
      BY <3>1, <3>2
  <2>4. cache' = {o \in Objs : stage'[o] \in {"loading", "loaded"}}
    BY <1>1, <1>4, <1>5, <2>1
  <2>5. cache' \subseteq cache
    BY <1>4
  <2>. QED
    BY <1>1, <1>2, <2>1, <2>2, <2>3, <2>4, <2>5 DEF Modules
<1>10. Kept(globals', executing', runs', table', bound', stage')
  <2>1. /\ globals = bound[executing]
        /\ \A i \in 1..n : runs[i].saved = bound[runs[i].executing]
        /\ \A o \in Objs : stage[o] = "loaded" => table[o] = bound[o]
        /\ \A o \in Objs : stage[o] = "absent" => table[o] = {} /\ bound[o] = {}
    BY DEF IInv, Kept, n
  <2>2. \A i \in 1..(n - 1) : Front(runs)[i].saved = bound[Front(runs)[i].executing]
    BY <1>1, <2>1
  <2>3. \A o \in Objs : stage'[o] = "loaded" => table'[o] = bound[o]
    BY <1>1, <1>4, <1>5, <2>1
  <2>4. \A o \in Objs : stage'[o] = "absent" => table'[o] = {} /\ bound[o] = {}
    BY <1>1, <1>4, <1>5, <2>1
  <2>5. r.saved = bound[r.executing]
    BY <1>1, <2>1
  <2>. QED
    BY <1>1, <1>2, <2>2, <2>3, <2>4, <2>5 DEF Kept
<1>11. Known(frames', functions', made', stage')
  <2>1. ASSUME NEW k \in 1..Len(frames')
        PROVE  /\ frames'[k].owner <= made /\ frames'[k].home <= made
               /\ frames'[k].owner # Program => stage'[frames'[k].owner] # "destroyed"
               /\ frames'[k].home # Program => stage'[frames'[k].home] # "destroyed"
    <3>1. /\ k \in 1..Len(frames) /\ frames'[k] = frames[k]
          /\ frames[k].owner < r.module /\ frames[k].home < r.module
      BY <1>6
    <3>2. /\ frames[k].owner \in 0..ObjMax /\ frames[k].home \in 0..ObjMax
          /\ \A o \in 0..ObjMax : o # Program => o \in Objs
      BY <3>1, StateTypes
    <3>3. r.module \in 0..ObjMax
      BY <1>1, StateTypes
    <3>4. frames[k].owner # r.module /\ frames[k].home # r.module
      BY <3>1, <3>2, <3>3
    <3>. QED
      BY <1>5, <3>1, <3>2, <3>4 DEF IInv, Known
  <2>. QED
    BY <1>2, <2>1 DEF IInv, Known
<1>. QED
  BY <1>6, <1>7, <1>8, <1>9, <1>10, <1>11 DEF IInv

LEMMA ImportRunsOK == ASSUME IInv, NEW nm \in Mods, ImportRuns(nm) PROVE IInv'
<1>. DEFINE o == made + 1
            n == Len(runs)
            r == [module |-> o, saved |-> globals, executing |-> executing, base |-> Depth]
<1>1. /\ Running /\ Found(nm) = {} /\ made < ObjMax /\ Depth < FrameMax
      /\ made' = o /\ name' = [name EXCEPT ![o] = nm]
      /\ stage' = [stage EXCEPT ![o] = "loading"] /\ cache' = cache \cup {o}
      /\ runs' = Append(runs, r) /\ globals' = table[o] /\ executing' = o
      /\ frames' = Append(frames, Module(o))
      /\ table' = table /\ functions' = functions /\ status' = status /\ bound' = bound
      /\ lent' = lent
  BY DEF ImportRuns
<1>2. /\ made \in Nat /\ n \in Nat /\ runs \in Seq(Run) /\ frames \in Seq(Frame)
      /\ Len(frames) \in Nat
      /\ Objs \subseteq 0..ObjMax /\ Program \notin Objs
      /\ \A i \in 1..n : runs[i].module \in Objs /\ runs[i].executing \in 0..ObjMax
      /\ \A k \in 1..Len(frames) : frames[k].owner \in 0..ObjMax /\ frames[k].home \in 0..ObjMax
  BY StateTypes
<1>3. o \in Objs /\ o \in Nat /\ \A p \in Objs : p <= made => p # o
  BY <1>1, <1>2, ImportAssumption DEF Objs
<1>4. TypeOK /\ status \notin Over /\ frames # <<>>
  BY <1>1 DEF IInv, Running, Over
<1>5. /\ r \in Run /\ r.module = o /\ r.saved = globals
      /\ r.executing = executing /\ r.base = Len(frames)
  BY <1>2, <1>3, <1>4 DEF TypeOK, Run, Depth
<1>. HIDE DEF r
<1>6. /\ runs' \in Seq(Run) /\ Len(runs') = n + 1
      /\ (\A i \in 1..n : runs'[i] = runs[i]) /\ runs'[n + 1] = r /\ runs' # <<>>
  BY <1>1, <1>2, <1>5, AppendProperties
<1>7. Module(o) \in Frame /\ Module(o).owner = Program /\ Module(o).home = o
  BY <1>2, <1>3, ImportAssumption DEF Module, Frame, Program
<1>8. /\ frames' \in Seq(Frame) /\ Len(frames') = Len(frames) + 1 /\ frames' # <<>>
      /\ (\A k \in 1..Len(frames) : frames'[k] = frames[k])
      /\ frames'[Len(frames) + 1] = Module(o)
  BY <1>1, <1>2, <1>7, AppendProperties
<1>9. /\ \A p \in Objs : stage[p] = "absent" <=> p > made
      /\ \A p \in Objs : stage[p] = "loading" <=> \E i \in 1..n : runs[i].module = p
      /\ cache = {p \in Objs : stage[p] \in {"loading", "loaded"}}
      /\ \A p, q \in cache : name[p] = name[q] => p = q
  BY DEF IInv, Modules
<1>10. /\ stage[o] = "absent" /\ stage'[o] = "loading" /\ name'[o] = nm
       /\ \A p \in Objs : p # o => stage'[p] = stage[p] /\ name'[p] = name[p]
  BY <1>1, <1>2, <1>3, <1>4, <1>9 DEF TypeOK
<1>11. \A i \in 1..n : runs[i].module <= made /\ runs[i].module # o
  <2>1. ASSUME NEW i \in 1..n  PROVE runs[i].module <= made
    <3>1. stage[runs[i].module] = "loading"
      BY <1>2, <1>9
    <3>. QED
      BY <1>2, <1>9, <3>1 DEF Objs
  <2>. QED
    BY <1>2, <1>3, <2>1
<1>12. \A k \in 1..Len(frames) : frames[k].owner <= made /\ frames[k].home <= made
  BY DEF IInv, Known
<1>13. Layout(frames', runs')
  <2>1. \A k \in 1..Len(frames) : frames[k].owner < r.module /\ frames[k].home < r.module
    BY <1>2, <1>5, <1>12
  <2>2. \A i \in 1..Len(runs) : runs[i].module < r.module
    BY <1>2, <1>5, <1>11 DEF Objs
  <2>3. Layout(frames, runs) /\ Len(frames) < FrameMax
    BY <1>1 DEF IInv, Depth
  <2>4. Layout(Append(frames, Module(r.module)), Append(runs, r))
    BY <1>4, <1>5, <2>1, <2>2, <2>3, BegunRun
  <2>. QED
    BY <1>1, <1>5, <2>4
<1>. HIDE DEF n, o
<1>14. TypeOK'
  <2>1. /\ name' \in [Objs -> Mods \cup {NoName}]
        /\ stage' \in [Objs -> {"absent", "loading", "loaded", "destroyed"}]
    BY <1>1, <1>3, <1>4 DEF TypeOK
  <2>2. cache' \subseteq Objs /\ globals' \subseteq Names
    BY <1>1, <1>3, <1>4 DEF TypeOK
  <2>3. made' \in 0..ObjMax /\ executing' \in 0..ObjMax
    BY <1>1, <1>2, <1>3
  <2>4. frames' \in Seq(Frame) /\ Len(frames') <= FrameMax
    BY <1>13 DEF Layout
  <2>. QED
    BY <1>1, <1>4, <1>6, <2>1, <2>2, <2>3, <2>4 DEF TypeOK, Depth
<1>15. Chain(executing', runs')
  <2>1. /\ executing = Innermost(runs)
        /\ \A i \in 1..n : runs[i].executing = IF i = 1 THEN Program ELSE runs[i - 1].module
    BY DEF IInv, Chain, n
  <2>2. executing' = Innermost(runs')
    BY <1>1, <1>2, <1>5, <1>6 DEF Innermost
  <2>3. ASSUME NEW i \in 1..(n + 1)
        PROVE  runs'[i].executing = IF i = 1 THEN Program ELSE runs'[i - 1].module
    <3>1. CASE i \in 1..n
      <4>1. i # 1 => i - 1 \in 1..n
        BY <1>2, <3>1
      <4>. QED
        BY <1>6, <2>1, <3>1, <4>1
    <3>2. CASE i = n + 1 /\ n = 0
      <4>1. runs = <<>>
        BY <1>2, <3>2, EmptySeq DEF n
      <4>. QED
        BY <1>5, <1>6, <2>1, <3>2, <4>1 DEF Innermost
    <3>3. CASE i = n + 1 /\ n # 0
      <4>1. runs # <<>> /\ n \in 1..n /\ i - 1 = n /\ i # 1
        BY <1>2, <3>3, EmptySeq DEF n
      <4>. QED
        BY <1>5, <1>6, <2>1, <3>3, <4>1 DEF Innermost, n
    <3>. QED
      BY <1>2, <3>1, <3>2, <3>3
  <2>. QED
    BY <1>6, <2>2, <2>3 DEF Chain
<1>16. Modules(made', stage', name', cache', runs')
  <2>1. \A p \in Objs : stage'[p] = "absent" <=> p > made'
    BY <1>1, <1>2, <1>3, <1>9, <1>10 DEF o, Objs
  <2>2. ASSUME NEW p \in Objs
        PROVE  stage'[p] = "loading" <=> \E i \in 1..(n + 1) : runs'[i].module = p
    <3>1. n + 1 \in 1..(n + 1) /\ \A i \in 1..n : i \in 1..(n + 1)
      BY <1>2
    <3>2. \A i \in 1..(n + 1) : i \in 1..n \/ i = n + 1
      BY <1>2
    <3>3. CASE p = o
      BY <1>5, <1>6, <1>10, <3>1, <3>3
    <3>4. CASE p # o
      BY <1>5, <1>6, <1>9, <1>10, <3>1, <3>2, <3>4
    <3>. QED
      BY <3>3, <3>4
  <2>3. cache' = {p \in Objs : stage'[p] \in {"loading", "loaded"}}
    BY <1>1, <1>3, <1>9, <1>10
  <2>4. ASSUME NEW p \in cache', NEW q \in cache', name'[p] = name'[q]  PROVE p = q
    <3>1. \A x \in cache : name[x] # nm /\ x # o /\ x \in Objs
      BY <1>1, <1>9, <1>10 DEF Found
    <3>2. \A x \in cache : name'[x] = name[x]
      BY <1>10, <3>1
    <3>. QED
      BY <1>1, <1>9, <1>10, <2>4, <3>1, <3>2
  <2>. QED
    BY <1>6, <2>1, <2>2, <2>3, <2>4 DEF Modules
<1>17. Kept(globals', executing', runs', table', bound', stage')
  <2>1. /\ globals = bound[executing]
        /\ \A i \in 1..n : runs[i].saved = bound[runs[i].executing]
        /\ \A p \in Objs : stage[p] = "loaded" => table[p] = bound[p]
        /\ \A p \in Objs : stage[p] = "absent" => table[p] = {} /\ bound[p] = {}
    BY DEF IInv, Kept, n
  <2>2. globals' = bound[o]
    BY <1>1, <1>3, <1>10, <2>1
  <2>3. \A i \in 1..(n + 1) : runs'[i].saved = bound[runs'[i].executing]
    <3>1. \A i \in 1..(n + 1) : i \in 1..n \/ i = n + 1
      BY <1>2
    <3>. QED
      BY <1>5, <1>6, <2>1, <3>1
  <2>. QED
    BY <1>1, <1>6, <1>10, <2>1, <2>2, <2>3 DEF Kept
<1>18. Known(frames', functions', made', stage')
  <2>1. ASSUME NEW k \in 1..Len(frames')
        PROVE  /\ frames'[k].owner <= made' /\ frames'[k].home <= made'
               /\ frames'[k].owner # Program => stage'[frames'[k].owner] # "destroyed"
               /\ frames'[k].home # Program => stage'[frames'[k].home] # "destroyed"
    <3>1. k \in 1..Len(frames) \/ k = Len(frames) + 1
      BY <1>2, <1>8
    <3>2. CASE k \in 1..Len(frames)
      <4>1. frames[k].owner \in 0..ObjMax /\ frames[k].home \in 0..ObjMax
        BY <1>2, <3>2
      <4>2. frames[k].owner # o /\ frames[k].home # o
        BY <1>2, <1>12, <3>2, <4>1 DEF o
      <4>3. frames[k].owner <= made + 1 /\ frames[k].home <= made + 1
        BY <1>2, <1>12, <3>2, <4>1
      <4>4. \A p \in 0..ObjMax : p # Program => p \in Objs
        BY StateTypes
      <4>5. /\ frames[k].owner # Program => stage[frames[k].owner] # "destroyed"
            /\ frames[k].home # Program => stage[frames[k].home] # "destroyed"
        BY <3>2 DEF IInv, Known
      <4>. QED
        BY <1>1, <1>8, <1>10, <3>2, <4>1, <4>2, <4>3, <4>4, <4>5 DEF o
    <3>3. CASE k = Len(frames) + 1
      BY <1>1, <1>2, <1>3, <1>7, <1>8, <1>10, <3>3 DEF Program
    <3>. QED
      BY <3>1, <3>2, <3>3
  <2>2. ASSUME NEW f \in functions'
        PROVE  /\ f.owner <= made' /\ f.home <= made'
               /\ f.kind = "def" => f.owner = f.home
    <3>1. /\ f \in Function /\ f.owner <= made /\ f.home <= made
          /\ f.kind = "def" => f.owner = f.home
      BY <1>1, <1>4 DEF IInv, Known, TypeOK
    <3>2. f.owner \in 0..ObjMax /\ f.home \in 0..ObjMax
      BY <1>1, <1>4 DEF TypeOK, Function
    <3>. QED
      BY <1>1, <1>2, <3>1, <3>2 DEF o, IInv, Known
  <2>. QED
    BY <2>1, <2>2 DEF Known
<1>. QED
  BY <1>8, <1>13, <1>14, <1>15, <1>16, <1>17, <1>18 DEF IInv

(* Activations like those there are already are of modules known already.  *)
LEMMA KnownAgain ==
  ASSUME NEW fs, NEW fn, NEW m, NEW st, Known(fs, fn, m, st), NEW gs,
         \A k \in 1..Len(gs) : /\ k \in 1..Len(fs)
                              /\ gs[k].owner = fs[k].owner /\ gs[k].home = fs[k].home
  PROVE  Known(gs, fn, m, st)
BY DEF Known

(* What is known of a state in which code runs, or an error is handled.    *)
LEMMA Active ==
  ASSUME IInv, status \notin Over
  PROVE  /\ frames # <<>> /\ Layout(frames, runs) /\ Known(frames, functions, made, stage)
         /\ Depth = Len(frames) /\ Top = frames[Len(frames)] /\ Len(frames) \in 1..Len(frames)
         /\ Len(frames) \in Nat /\ frames \in Seq(Frame) /\ Len(frames) <= FrameMax
         /\ FrameOK(Top) /\ Top.home \in 0..ObjMax /\ Top.home <= made
<1>1. frames # <<>> /\ Layout(frames, runs) /\ Known(frames, functions, made, stage)
  BY DEF IInv
<1>2. frames \in Seq(Frame) /\ Len(frames) \in Nat /\ Len(frames) <= FrameMax
  BY <1>1, StateTypes DEF Layout
<1>3. Len(frames) \in 1..Len(frames)
  BY <1>1, <1>2, EmptySeq
<1>4. FrameOK(frames[Len(frames)]) /\ frames[Len(frames)].home <= made
  BY <1>1, <1>3 DEF Layout, Known
<1>5. frames[Len(frames)].home \in 0..ObjMax
  BY <1>3, StateTypes
<1>. QED
  BY <1>1, <1>2, <1>3, <1>4, <1>5 DEF Depth, Top

LEMMA EndRunOK == ASSUME IInv, status \notin Over, EndRun PROVE IInv'
<1>1. CASE runs = <<>>
  BY <1>1, ProgramEnds DEF EndRun, Over
<1>2. CASE runs # <<>>
  BY <1>2, LeftRun DEF EndRun
<1>. QED
  BY <1>1, <1>2

LEMMA HaltOK == ASSUME IInv, Halt PROVE IInv'
<1>1. status \notin Over
  BY DEF Halt, Running, Over
<1>2. CASE runs = <<>>
  BY <1>2, ProgramEnds DEF Halt, Over
<1>3. CASE runs # <<>>
  BY <1>1, <1>3, LeftRun DEF Halt
<1>. QED
  BY <1>2, <1>3

(* The innermost activation is popped, which is not module level code.     *)
LEMMA PopOK ==
  ASSUME IInv, status \notin Over, Top.kind # "module", frames' = Front(frames),
         UNCHANGED <<modvars, runvars, functions, status, bound>>
  PROVE  IInv'
<1>1. /\ frames # <<>> /\ Layout(frames, runs) /\ Known(frames, functions, made, stage)
      /\ Top = frames[Len(frames)] /\ frames \in Seq(Frame) /\ Len(frames) \in Nat
  BY Active
<1>2. Layout(frames', runs) /\ frames' # <<>>
  BY <1>1, Popped
<1>3. /\ Len(frames') = Len(frames) - 1
      /\ \A k \in 1..(Len(frames) - 1) : frames'[k] = frames[k]
  BY <1>1, FrontOf
<1>4. \A k \in 1..Len(frames') : k \in 1..Len(frames) /\ frames'[k] = frames[k]
  BY <1>1, <1>3
<1>5. Known(frames', functions, made, stage)
  BY <1>1, <1>4, KnownAgain
<1>6. status' \in Statuses
  BY DEF IInv, TypeOK, Statuses
<1>. QED
  BY <1>2, <1>5, <1>6, FramesStep

LEMMA ReturnOK == ASSUME IInv, Return PROVE IInv'
BY PopOK DEF Return, Running, Over

(* The innermost activation enters or leaves a try block.                  *)
LEMMA ToggleOK ==
  ASSUME IInv, status \notin Over, NEW h \in BOOLEAN,
         frames' = [frames EXCEPT ![Depth].handles = h],
         status' \in Statuses, UNCHANGED <<modvars, runvars, functions, bound>>
  PROVE  IInv'
<1>1. /\ frames # <<>> /\ Layout(frames, runs) /\ Known(frames, functions, made, stage)
      /\ Depth = Len(frames)
  BY Active
<1>2. Layout(frames', runs) /\ frames' # <<>> /\ Alike(frames', frames)
  BY <1>1, Toggled
<1>3. PICK gs : gs = frames'
  OBVIOUS
<1>4. \A k \in 1..Len(gs) : /\ k \in 1..Len(frames)
                            /\ gs[k].owner = frames[k].owner /\ gs[k].home = frames[k].home
  BY <1>2, <1>3 DEF Alike
<1>5. Known(gs, functions, made, stage)
  BY ONLY <1>1, <1>4, KnownAgain
<1>6. Known(frames', functions, made, stage)
  BY <1>3, <1>5
<1>. QED
  BY <1>2, <1>6, FramesStep

LEMMA TryOK == ASSUME IInv, Try PROVE IInv'
<1>1. status \notin Over /\ status' \in Statuses
  BY DEF Try, Running, Over, Statuses
<1>2. /\ frames \in Seq(Frame) /\ Len(frames) \in 1..Len(frames) /\ Depth = Len(frames)
      /\ Top \in Frame /\ Top = frames[Depth]
  BY <1>1, Active DEF FrameOK
<1>3. (~ Top.handles) \in BOOLEAN
  BY <1>2 DEF Frame
<1>4. frames' = [frames EXCEPT ![Depth].handles = ~ Top.handles]
  BY <1>2 DEF Try
<1>. QED
  BY <1>1, <1>3, <1>4, ToggleOK DEF Try

LEMMA CatchOK == ASSUME IInv, Catch PROVE IInv'
<1>1. status \notin Over /\ status' \in Statuses
  BY DEF Catch, Over, Statuses
<1>2. frames' = [frames EXCEPT ![Depth].handles = FALSE]
  BY DEF Catch
<1>. QED
  BY <1>1, <1>2, ToggleOK DEF Catch

LEMMA UnwindOK == ASSUME IInv, Unwind PROVE IInv'
<1>1. status \notin Over
  BY DEF Unwind, Over
<1>2. CASE Top.kind = "module"
  BY <1>1, <1>2, EndRunOK DEF Unwind
<1>3. CASE Top.kind # "module"
  BY <1>1, <1>3, PopOK DEF Unwind
<1>. QED
  BY <1>2, <1>3

LEMMA FailOK == ASSUME IInv, Fail PROVE IInv'
BY EndRunOK DEF Fail, Over

LEMMA RaiseOK == ASSUME IInv, Raise PROVE IInv'
<1>1. status \notin Over
  BY DEF Raise, Running, Over
<1>2. PICK s \in Statuses : Becomes(s)
  BY DEF Raise, Statuses
<1>. QED
  BY <1>1, <1>2, StatusStep

LEMMA ImportCycleOK == ASSUME IInv, NEW n \in Mods, ImportCycle(n) PROVE IInv'
<1>1. status \notin Over /\ Becomes("error") /\ "error" \in Statuses
  BY DEF ImportCycle, Running, Over, Statuses
<1>. QED
  BY <1>1, StatusStep

LEMMA ImportFailsOK == ASSUME IInv, NEW n \in Mods, ImportFails(n) PROVE IInv'
<1>1. status \notin Over
  BY DEF ImportFails, Running, Over
<1>2. PICK s \in Statuses : Becomes(s)
  BY DEF ImportFails, Statuses
<1>. QED
  BY <1>1, <1>2, StatusStep

(* Under no import, exit() is the end of the program.                      *)
LEMMA ExitOK == ASSUME IInv, ExitDepth = 0, Exit PROVE IInv'
<1>1. runs \in Seq(Run) /\ Len(runs) \in Nat
  BY StateTypes
<1>2. runs = <<>>
  BY <1>1, EmptySeq DEF Exit
<1>. QED
  BY <1>2, ProgramEnds DEF Exit, Over

(* A module that is loaded is none of those whose code is being executed.  *)
LEMMA NotExecuting ==
  ASSUME IInv, NEW o \in Objs, stage[o] = "loaded"
  PROVE  o # executing /\ \A i \in 1..Len(runs) : runs[i].executing # o
<1>1. Program \notin Objs /\ \A i \in 1..Len(runs) : runs[i].module \in Objs
  BY StateTypes
<1>2. \A i \in 1..Len(runs) : runs[i].module # o
  BY <1>1 DEF IInv, Modules
<1>3. o # executing
  <2>1. CASE runs = <<>>
    BY <1>1, <2>1 DEF IInv, Chain, Innermost
  <2>2. CASE runs # <<>>
    BY <2>2, InnermostRun
  <2>. QED
    BY <2>1, <2>2
<1>4. ASSUME NEW i \in 1..Len(runs)  PROVE runs[i].executing # o
  <2>1. runs[i].executing = IF i = 1 THEN Program ELSE runs[i - 1].module
    BY DEF IInv, Chain
  <2>2. i # 1 => i - 1 \in 1..Len(runs)
    BY StateTypes
  <2>. QED
    BY <1>1, <1>2, <2>1, <2>2
<1>. QED
  BY <1>3, <1>4

(* Module level code binds a name in the table of its own module, which is *)
(* not one that a run has put aside, or that is already loaded.            *)
LEMMA StoreOK == ASSUME IInv, NEW x \in Names, Store(x) PROVE IInv'
<1>. DEFINE n == Len(runs)
            h == Top.home
<1>1. /\ Running /\ Top.kind = "module" /\ globals' = globals \cup {x}
      /\ bound' = [bound EXCEPT ![h] = @ \cup {x}]
      /\ made' = made /\ name' = name /\ stage' = stage /\ cache' = cache /\ table' = table
      /\ executing' = executing /\ runs' = runs /\ lent' = lent
      /\ frames' = frames /\ functions' = functions /\ status' = status
  BY DEF Store, modvars
<1>2. /\ frames # <<>> /\ Layout(frames, runs) /\ Top = frames[Len(frames)]
      /\ h \in 0..ObjMax
  BY <1>1, Active DEF Running, Over
<1>3. h = executing
  <2>1. h = Innermost(runs)
    BY <1>1, <1>2, TopModule
  <2>. QED
    BY <2>1 DEF IInv, Chain
<1>4. TypeOK
  BY DEF IInv
<1>5. TypeOK'
  <2>1. globals' \subseteq Names /\ bound' \in [0..ObjMax -> SUBSET Names]
    BY <1>1, <1>2, <1>4 DEF TypeOK
  <2>. QED
    BY <1>1, <1>4, <2>1 DEF TypeOK, Depth
<1>6. Kept(globals', executing', runs', table', bound', stage')
  <2>1. /\ globals = bound[executing]
        /\ \A i \in 1..n : runs[i].saved = bound[runs[i].executing]
        /\ \A o \in Objs : stage[o] = "loaded" => table[o] = bound[o]
        /\ \A o \in Objs : stage[o] = "absent" => table[o] = {} /\ bound[o] = {}
    BY DEF IInv, Kept, n
  <2>. HIDE DEF h
  <2>2. bound'[h] = bound[h] \cup {x} /\ \A o \in 0..ObjMax : o # h => bound'[o] = bound[o]
    BY <1>1, <1>2, <1>4 DEF TypeOK
  <2>3. globals' = bound'[executing]
    BY <1>1, <1>3, <2>1, <2>2
  <2>4. ASSUME NEW i \in 1..n  PROVE runs[i].executing # executing
    <3>1. runs \in Seq(Run) /\ n \in Nat /\ \A j \in 1..n : runs[j].module \in Objs
      BY StateTypes
    <3>2. runs # <<>>
      BY <3>1, EmptySeq
    <3>3. /\ executing \in Objs
          /\ \A j \in 1..(n - 1) : runs[j].module < executing
      BY <3>2, InnermostRun
    <3>4. runs[i].executing = IF i = 1 THEN Program ELSE runs[i - 1].module
      BY DEF IInv, Chain, n
    <3>5. CASE i = 1
      BY <3>3, <3>4, <3>5, StateTypes
    <3>6. CASE i # 1
      <4>1. i - 1 \in 1..(n - 1) /\ i - 1 \in 1..n
        BY <3>1, <3>6
      <4>2. runs[i - 1].module < executing /\ runs[i - 1].module \in Objs
        BY <3>1, <3>3, <4>1
      <4>. QED
        BY <3>3, <3>4, <3>6, <4>2 DEF Objs
    <3>. QED
      BY <3>5, <3>6
  <2>5. \A i \in 1..n : runs[i].saved = bound'[runs[i].executing]
    BY <1>3, <2>1, <2>2, <2>4, StateTypes
  <2>6. \A o \in Objs : stage[o] \in {"loaded", "absent"} => o # executing
    <3>1. CASE runs = <<>>
      BY <3>1, StateTypes DEF IInv, Chain, Innermost
    <3>2. CASE runs # <<>>
      BY <3>2, InnermostRun
    <3>. QED
      BY <3>1, <3>2
  <2>7. \A o \in Objs : stage[o] \in {"loaded", "absent"} => bound'[o] = bound[o]
    BY <1>3, <2>2, <2>6, StateTypes
  <2>. QED
    BY <1>1, <2>1, <2>3, <2>5, <2>7 DEF Kept
<1>7. /\ Layout(frames', runs') /\ Chain(executing', runs')
      /\ Modules(made', stage', name', cache', runs')
      /\ Known(frames', functions', made', stage')
      /\ status' \notin Over => frames' # <<>>
  BY <1>1 DEF IInv
<1>. QED
  BY <1>5, <1>6, <1>7 DEF IInv

(* A name stored as an attribute goes into the table of a module that is   *)
(* loaded, which is neither current nor one that a run has put aside.      *)
LEMMA StoreAttrOK ==
  ASSUME IInv, NEW o \in Objs, NEW x \in Names, StoreAttr(o, x)  PROVE IInv'
<1>1. /\ Running /\ stage[o] = "loaded"
      /\ table' = [table EXCEPT ![o] = @ \cup {x}]
      /\ bound' = [bound EXCEPT ![o] = @ \cup {x}]
      /\ lent' = IF x \in table[o] THEN lent ELSE [lent EXCEPT ![o] = @ \cup {Top.home}]
      /\ made' = made /\ name' = name /\ stage' = stage /\ cache' = cache
      /\ globals' = globals /\ executing' = executing /\ runs' = runs
      /\ frames' = frames /\ functions' = functions /\ status' = status
  BY DEF StoreAttr, Reachable, runvars
<1>2. Top.home \in 0..ObjMax
  BY <1>1, Active DEF Running, Over
<1>3. TypeOK /\ o \in 0..ObjMax
  BY StateTypes DEF IInv
<1>4. TypeOK'
  <2>1. table' \in [Objs -> SUBSET Names] /\ bound' \in [0..ObjMax -> SUBSET Names]
    BY <1>1, <1>3 DEF TypeOK
  <2>2. lent' \in [Objs -> SUBSET (0..ObjMax)]
    BY <1>1, <1>2, <1>3 DEF TypeOK
  <2>. QED
    BY <1>1, <1>3, <2>1, <2>2 DEF TypeOK, Depth
<1>5. Kept(globals', executing', runs', table', bound', stage')
  <2>1. /\ globals = bound[executing]
        /\ \A i \in 1..Len(runs) : runs[i].saved = bound[runs[i].executing]
        /\ \A p \in Objs : stage[p] = "loaded" => table[p] = bound[p]
        /\ \A p \in Objs : stage[p] = "absent" => table[p] = {} /\ bound[p] = {}
    BY DEF IInv, Kept
  <2>2. /\ bound'[o] = bound[o] \cup {x} /\ table'[o] = table[o] \cup {x}
        /\ \A p \in 0..ObjMax : p # o => bound'[p] = bound[p]
        /\ \A p \in Objs : p # o => table'[p] = table[p]
    BY <1>1, <1>3 DEF TypeOK
  <2>3. /\ executing # o /\ executing \in 0..ObjMax
        /\ \A i \in 1..Len(runs) : runs[i].executing # o /\ runs[i].executing \in 0..ObjMax
        /\ Objs \subseteq 0..ObjMax
    BY <1>1, NotExecuting, StateTypes
  <2>4. globals = bound'[executing]
    BY <2>1, <2>2, <2>3
  <2>5. \A i \in 1..Len(runs) : runs[i].saved = bound'[runs[i].executing]
    BY <2>1, <2>2, <2>3
  <2>6. \A p \in Objs : stage[p] = "loaded" => table'[p] = bound'[p]
    BY <2>1, <2>2, <2>3
  <2>7. \A p \in Objs : stage[p] = "absent" => table'[p] = {} /\ bound'[p] = {}
    BY <1>1, <2>1, <2>2, <2>3
  <2>. QED
    BY <1>1, <2>4, <2>5, <2>6, <2>7 DEF Kept
<1>6. /\ Layout(frames', runs') /\ Chain(executing', runs')
      /\ Modules(made', stage', name', cache', runs')
      /\ Known(frames', functions', made', stage')
      /\ status' \notin Over => frames' # <<>>
  BY <1>1 DEF IInv
<1>. QED
  BY <1>4, <1>5, <1>6 DEF IInv

LEMMA LookUpOK == ASSUME IInv, NEW o \in Objs, LookUp(o) PROVE IInv'
<1>1. status \notin Over /\ Becomes("wild") /\ "wild" \in Statuses
  BY DEF LookUp, Running, Over, Statuses
<1>. QED
  BY <1>1, StatusStep

(* A def is made at module level, where its owner is its home.             *)
LEMMA MakeFunctionOK ==
  ASSUME IInv, NEW kind \in {"def", "genexpr"}, MakeFunction(kind) PROVE IInv'
<1>. DEFINE f == [owner |-> executing, home |-> Top.home, kind |-> kind]
<1>1. /\ Running
      /\ kind = "def" => Top.kind = "module"
      /\ functions' = functions \cup {f}
      /\ made' = made /\ name' = name /\ stage' = stage /\ cache' = cache /\ table' = table
      /\ globals' = globals /\ executing' = executing /\ runs' = runs
      /\ frames' = frames /\ status' = status /\ bound' = bound /\ lent' = lent
  BY DEF MakeFunction, modvars, runvars
<1>2. /\ frames # <<>> /\ Layout(frames, runs) /\ Top = frames[Len(frames)]
      /\ Top.home \in 0..ObjMax /\ Top.home <= made
  BY <1>1, Active DEF Running, Over
<1>3. executing \in 0..ObjMax /\ executing <= made
  <2>1. CASE runs = <<>>
    BY <2>1, StateTypes DEF IInv, Chain, Innermost, Program
  <2>2. CASE runs # <<>>
    <3>1. executing \in Objs /\ stage[executing] = "loading"
      BY <2>2, InnermostRun
    <3>2. ~ (executing > made)
      BY <3>1 DEF IInv, Modules
    <3>. QED
      BY <3>1, <3>2, StateTypes
  <2>. QED
    BY <2>1, <2>2
<1>4. kind = "def" => Top.home = executing
  <2>1. Top.kind = "module" => Top.home = Innermost(runs)
    BY <1>2, TopModule
  <2>. QED
    BY <1>1, <2>1 DEF IInv, Chain
<1>5. f \in Function /\ f.owner = executing /\ f.home = Top.home /\ f.kind = kind
  BY <1>2, <1>3 DEF Function
<1>. HIDE DEF f
<1>6. TypeOK'
  <2>1. functions' \subseteq Function
    BY <1>1, <1>5 DEF IInv, TypeOK
  <2>. QED
    BY <1>1, <2>1 DEF IInv, TypeOK, Depth
<1>7. Known(frames', functions', made', stage')
  BY <1>1, <1>2, <1>3, <1>4, <1>5 DEF IInv, Known
<1>8. /\ Layout(frames', runs') /\ Chain(executing', runs')
      /\ Modules(made', stage', name', cache', runs')
      /\ Kept(globals', executing', runs', table', bound', stage')
      /\ status' \notin Over => frames' # <<>>
  BY <1>1 DEF IInv
<1>. QED
  BY <1>6, <1>7, <1>8 DEF IInv

LEMMA CallOK == ASSUME IInv, NEW f \in functions, Call(f) PROVE IInv'
<1>1. Running /\ status \notin Over
  BY DEF Call, Running, Over
<1>2. CASE Destroyed(f.home) \/ Destroyed(f.owner)
  BY <1>1, <1>2, StatusStep DEF Call, Statuses
<1>3. CASE ~ (Destroyed(f.home) \/ Destroyed(f.owner)) /\ ~ Reserve
  BY <1>1, <1>3, StatusStep DEF Call, Statuses
<1>4. CASE ~ (Destroyed(f.home) \/ Destroyed(f.owner)) /\ Reserve
  <2>. DEFINE g == Activation(f)
  <2>1. /\ frames' = Append(frames, g) /\ UNCHANGED <<modvars, runvars, functions, status, bound>>
        /\ Depth < FrameMax
    BY <1>4 DEF Call, Reserve
  <2>2. /\ f \in Function /\ f.owner <= made /\ f.home <= made
        /\ f.kind = "def" => f.owner = f.home
    BY DEF IInv, TypeOK, Known
  <2>3. /\ g \in Frame /\ g.kind # "module" /\ g.owner = f.owner /\ g.home = f.home
        /\ FrameOK(g)
    BY <2>2 DEF Function, Frame, FrameOK, Activation
  <2>. HIDE DEF g
  <2>4. /\ frames # <<>> /\ Layout(frames, runs) /\ Known(frames, functions, made, stage)
        /\ Len(frames) < FrameMax /\ frames \in Seq(Frame) /\ Len(frames) \in Nat
    BY <1>1, <2>1, Active
  <2>5. Layout(frames', runs)
    BY <2>1, <2>3, <2>4, Pushed
  <2>6. /\ frames' # <<>> /\ Len(frames') = Len(frames) + 1 /\ frames'[Len(frames) + 1] = g
        /\ \A k \in 1..Len(frames) : frames'[k] = frames[k]
    BY <2>1, <2>3, <2>4, AppendProperties
  <2>7. \A k \in 1..Len(frames') : k \in 1..Len(frames) \/ k = Len(frames) + 1
    BY <2>4, <2>6
  <2>8. Known(frames', functions, made, stage)
    BY <1>4, <2>2, <2>3, <2>4, <2>6, <2>7 DEF Known, Destroyed
  <2>9. status' \in Statuses
    BY <1>1, <2>1 DEF Running, Statuses
  <2>. QED
    BY <2>1, <2>5, <2>6, <2>8, <2>9, FramesStep
<1>. QED
  BY <1>2, <1>3, <1>4

LEMMA InitOK == Init => IInv
<1>. SUFFICES ASSUME Init  PROVE IInv
  OBVIOUS
<1>. USE DEF Init
<1>1. 0 \in 0..ObjMax /\ \A o \in Objs : o > 0
  BY ImportAssumption DEF Objs
<1>2. Module(Program) \in Frame /\ FrameOK(Module(Program))
  BY <1>1 DEF Module, Program, Frame, FrameOK
<1>3. /\ frames \in Seq(Frame) /\ Len(frames) = 1 /\ frames # <<>>
      /\ frames[1] = Module(Program) /\ 1..Len(frames) = {1}
  BY <1>2
<1>4. runs \in Seq(Run) /\ Len(runs) = 0 /\ 1..Len(runs) = {}
  BY EmptySeq
<1>5. /\ name \in [Objs -> Mods \cup {NoName}]
      /\ stage \in [Objs -> {"absent", "loading", "loaded", "destroyed"}]
      /\ table \in [Objs -> SUBSET Names] /\ bound \in [0..ObjMax -> SUBSET Names]
      /\ lent \in [Objs -> SUBSET (0..ObjMax)]
  OBVIOUS
<1>6. TypeOK
  BY <1>1, <1>3, <1>4, <1>5, ImportAssumption DEF TypeOK, Depth, Program
<1>7. Layout(frames, runs)
  <2>1. \A k \in 1..Len(frames) : k = 1 /\ frames[k] = Module(Program)
    BY <1>3
  <2>2. Module(Program).kind = "module" /\ Module(Program).home = Program
    BY DEF Module
  <2>3. \A k \in 1..Len(frames) : FrameOK(frames[k]) /\ Begun(k, frames, runs)
    BY <1>2, <2>1, <2>2 DEF Begun
  <2>4. Len(frames) <= FrameMax
    BY <1>3, ImportAssumption
  <2>. QED
    <3>. HIDE DEF Init
    <3>. QED
      BY <1>3, <1>4, <2>2, <2>3, <2>4 DEF Layout
<1>8. Chain(executing, runs)
  BY <1>4 DEF Chain, Innermost
<1>9. Modules(made, stage, name, cache, runs)
  BY <1>1, <1>4 DEF Modules
<1>10. Kept(globals, executing, runs, table, bound, stage)
  <2>1. \A o \in Objs : o \in 0..ObjMax /\ stage[o] # "loaded" /\ table[o] = {}
    BY ImportAssumption DEF Objs
  <2>2. bound[Program] = {} /\ \A o \in Objs : bound[o] = {}
    BY <1>1, <2>1 DEF Program
  <2>. QED
    BY <1>4, <2>1, <2>2 DEF Kept
<1>11. Known(frames, functions, made, stage)
  BY <1>1, <1>3 DEF Known, Module, Program
<1>. QED
  BY <1>3, <1>6, <1>7, <1>8, <1>9, <1>10, <1>11 DEF IInv

LEMMA NextOK == ASSUME ExitDepth = 0  PROVE IInv /\ [Next]_vars => IInv'
<1>. SUFFICES ASSUME IInv, [Next]_vars  PROVE IInv'
  OBVIOUS
<1>1. CASE Halt
  BY <1>1, HaltOK
<1>2. CASE Return
  BY <1>2, ReturnOK
<1>3. CASE Try
  BY <1>3, TryOK
<1>4. CASE Raise
  BY <1>4, RaiseOK
<1>5. CASE Catch
  BY <1>5, CatchOK
<1>6. CASE Unwind
  BY <1>6, UnwindOK
<1>7. CASE Fail
  BY <1>7, FailOK
<1>8. CASE Exit
  BY <1>8, ExitOK
<1>9. ASSUME NEW n \in Mods, ImportCycle(n) \/ ImportFails(n) \/ ImportRuns(n)  PROVE IInv'
  BY <1>9, ImportCycleOK, ImportFailsOK, ImportRunsOK
<1>10. ASSUME NEW x \in Names, Store(x)  PROVE IInv'
  BY <1>10, StoreOK
<1>11. ASSUME NEW k \in {"def", "genexpr"}, MakeFunction(k)  PROVE IInv'
  BY <1>11, MakeFunctionOK
<1>12. ASSUME NEW f \in functions, Call(f)  PROVE IInv'
  BY <1>12, CallOK
<1>13. ASSUME NEW o \in Objs, LookUp(o)  PROVE IInv'
  BY <1>13, LookUpOK
<1>14. ASSUME NEW x \in Names, NEW o \in Objs, StoreAttr(o, x)  PROVE IInv'
  BY <1>14, StoreAttrOK
<1>15. CASE UNCHANGED vars
  BY <1>15 DEF vars, modvars, runvars, IInv, TypeOK, Depth
<1>. QED
  BY <1>1, <1>2, <1>3, <1>4, <1>5, <1>6, <1>7, <1>8, <1>9, <1>10, <1>11, <1>12, <1>13,
     <1>14, <1>15 DEF Next

-----------------------------------------------------------------------------
(* What follows for every reachable state.                                 *)

(* The frame stack, the runs of imports in it, the cache, the tables of    *)
(* names and the functions that exist fit together, after any sequence of  *)
(* imports, calls, exceptions and failures.                                *)
THEOREM Inductive == ASSUME ExitDepth = 0  PROVE Spec => []IInv
<1>1. Init => IInv
  BY InitOK
<1>2. IInv /\ [Next]_vars => IInv'
  BY NextOK
<1>. QED
  BY <1>1, <1>2, PTL DEF Spec

(* Every variable keeps its type, and the recursion limit is kept.         *)
THEOREM TypeCorrect == ASSUME ExitDepth = 0  PROVE Spec => []TypeOK
<1>1. IInv => TypeOK
  BY DEF IInv
<1>. QED
  BY <1>1, Inductive, PTL

(* The modules that are being executed, as the runs tell.                  *)
LEMMA NestedIs ==
  ASSUME IInv
  PROVE  /\ Len(Nested) = Len(runs) + 1 /\ DOMAIN Nested = 1..(Len(runs) + 1)
         /\ Nested[1] = Program
         /\ \A i \in 1..Len(runs) : Nested[i + 1] = runs[i].module
<1>. DEFINE n == Len(runs)
            mods == [i \in DOMAIN runs |-> runs[i].module]
<1>1. n \in Nat /\ runs \in Seq(Run) /\ \A i \in 1..n : runs[i].module \in 0..ObjMax
  BY StateTypes
<1>2. DOMAIN runs = 1..n
  BY <1>1, LenProperties
<1>3. mods \in [1..n -> 0..ObjMax]
  BY <1>1, <1>2
<1>4. mods \in Seq(0..ObjMax) /\ Len(mods) = n /\ \A i \in 1..n : mods[i] = runs[i].module
  BY <1>1, <1>2, <1>3, LenProperties
<1>5. <<Program>> \in Seq(0..ObjMax) /\ Len(<<Program>>) = 1 /\ <<Program>>[1] = Program
  BY StateTypes
<1>. HIDE DEF mods, n
<1>6. /\ <<Program>> \o mods \in Seq(0..ObjMax)
      /\ Len(<<Program>> \o mods) = n + 1
      /\ (<<Program>> \o mods)[1] = Program
      /\ \A i \in 1..n : (<<Program>> \o mods)[i + 1] = mods[i]
  BY <1>1, <1>4, <1>5, ConcatProperties
<1>7. Nested = <<Program>> \o mods
  BY DEF Nested, mods
<1>8. DOMAIN Nested = 1..Len(Nested)
  BY <1>6, <1>7, LenProperties
<1>. QED
  BY <1>4, <1>6, <1>7, <1>8 DEF n

(* However imports nest and fail, the table of every module has exactly    *)
(* the names that its own code bound or that were stored as its attributes,*)
(* but where a name lies in the source of a module whose import failed.    *)
THEOREM TablesAlwaysKept == ASSUME ExitDepth = 0  PROVE Spec => []TablesKept
<1>1. IInv => TablesKept
  <2>. SUFFICES ASSUME IInv  PROVE TablesKept
    OBVIOUS
  <2>. DEFINE n == Len(runs)
  <2>1. /\ globals = bound[executing]
        /\ \A i \in 1..n : runs[i].saved = bound[runs[i].executing]
        /\ \A o \in Objs : stage[o] = "loaded" => table[o] = bound[o]
    BY DEF IInv, Kept
  <2>2. /\ executing = Innermost(runs)
        /\ \A i \in 1..n : runs[i].executing = IF i = 1 THEN Program ELSE runs[i - 1].module
    BY DEF IInv, Chain
  <2>3. n \in Nat /\ runs \in Seq(Run)
    BY StateTypes
  <2>4. ASSUME NEW i \in DOMAIN Nested  PROVE TableAt(i) = bound[Nested[i]]
    <3>1. i \in 1..(n + 1) /\ Len(Nested) = n + 1
      BY NestedIs
    <3>2. i # 1 => i - 1 \in 1..n /\ Nested[i] = runs[i - 1].module
      <4>1. i # 1 => i - 1 \in 1..n /\ (i - 1) + 1 = i
        BY <2>3, <3>1
      <4>. QED
        BY <4>1, NestedIs
    <3>3. CASE i = n + 1
      <4>1. Nested[i] = executing
        <5>1. CASE runs = <<>>
          BY <2>2, <2>3, <3>3, <5>1, NestedIs, EmptySeq DEF Innermost
        <5>2. CASE runs # <<>>
          <6>1. i # 1 /\ i - 1 = n
            BY <2>3, <3>3, <5>2, EmptySeq
          <6>. QED
            BY <2>2, <3>2, <5>2, <6>1 DEF Innermost
        <5>. QED
          BY <5>1, <5>2
      <4>. QED
        BY <2>1, <3>1, <3>3, <4>1 DEF TableAt
    <3>4. CASE i # n + 1
      <4>1. i \in 1..n
        BY <2>3, <3>1, <3>4
      <4>2. Nested[i] = runs[i].executing
        BY <2>2, <3>2, <4>1, NestedIs
      <4>. QED
        BY <2>1, <3>1, <3>4, <4>1, <4>2 DEF TableAt
    <3>. QED
      BY <3>3, <3>4
  <2>. QED
    BY <2>1, <2>4 DEF TablesKept
<1>. QED
  BY <1>1, Inductive, PTL

(* The cache has one object for each module that is loaded or loading, and *)
(* exactly the modules on the stack of imports are loading.                *)
THEOREM CacheAlwaysMirrors == ASSUME ExitDepth = 0  PROVE Spec => []CacheMirrorsRuns
<1>1. IInv => CacheMirrorsRuns
  <2>. SUFFICES ASSUME IInv  PROVE CacheMirrorsRuns
    OBVIOUS
  <2>1. /\ \A o \in Objs : stage[o] = "loading" <=> \E i \in 1..Len(runs) : runs[i].module = o
        /\ cache = {o \in Objs : stage[o] \in {"loading", "loaded"}}
        /\ \A o, p \in cache : name[o] = name[p] => o = p
    BY DEF IInv, Modules
  <2>2. DOMAIN runs = 1..Len(runs) /\ \A i \in 1..Len(runs) : runs[i].module \in Objs
    BY StateTypes, LenProperties
  <2>. QED
    BY <2>1, <2>2 DEF CacheMirrorsRuns
<1>. QED
  BY <1>1, Inductive, PTL

(* No activation outlives the module whose code it runs, or whose globals  *)
(* it looks up.                                                            *)
THEOREM FramesStayLive == ASSUME ExitDepth = 0  PROVE Spec => []FramesLive
<1>1. IInv => FramesLive
  <2>. SUFFICES ASSUME IInv  PROVE FramesLive
    OBVIOUS
  <2>1. DOMAIN frames = 1..Len(frames)
    BY StateTypes, LenProperties
  <2>. QED
    BY <2>1 DEF IInv, Known, FramesLive, Destroyed
<1>. QED
  BY <1>1, Inductive, PTL

(* Module level code, and every function of a module that is loaded, looks *)
(* names up among those that its own module bound or, for a function, that *)
(* were stored as attributes of its module, by whatever code.              *)
THEOREM LookupsSettled == ASSUME ExitDepth = 0  PROVE Spec => []SettledLookups
<1>1. IInv => SettledLookups
  <2>. SUFFICES ASSUME IInv, Running, Top.kind = "module" \/ Settled(Top)
                PROVE  Consulted(Top) = bound[Top.home]
    BY DEF SettledLookups
  <2>1. /\ frames # <<>> /\ Layout(frames, runs) /\ Top = frames[Len(frames)]
        /\ FrameOK(Top) /\ Top.home \in 0..ObjMax
    BY Active DEF Running, Over
  <2>2. executing = Innermost(runs) /\ globals = bound[executing]
    BY DEF IInv, Chain, Kept
  <2>3. CASE Top.kind = "module"
    BY <2>1, <2>2, <2>3, TopModule DEF Consulted
  <2>4. CASE Settled(Top) /\ Top.home = Program
    BY <2>1, <2>2, <2>4 DEF Settled, FrameOK, Consulted, Innermost
  <2>5. CASE Settled(Top) /\ Top.home # Program
    <3>1. Top.owner = Top.home /\ Top.home \in Objs /\ stage[Top.home] = "loaded"
      BY <2>1, <2>5, StateTypes DEF Settled, FrameOK
    <3>. QED
      BY <2>5, <3>1 DEF Consulted, IInv, Kept
  <2>. QED
    BY <2>3, <2>4, <2>5
<1>. QED
  BY <1>1, Inductive, PTL

-----------------------------------------------------------------------------
(* Importing implements Loader.                                            *)

(* What Loader knows of a state: the modules that run, and those loaded.   *)
Loading(nm, rs) == [i \in DOMAIN rs |-> nm[rs[i].module]]
LoadedNames(ca, st, nm) == {nm[o] : o \in {p \in ca : st[p] = "loaded"}}

LEMMA LoadingIs ==
  ASSUME NEW nm \in [Objs -> Mods \cup {NoName}], NEW rs \in Seq(Run),
         \A i \in 1..Len(rs) : rs[i].module \in Objs
  PROVE  /\ Loading(nm, rs) \in Seq(Mods \cup {NoName}) /\ Len(Loading(nm, rs)) = Len(rs)
         /\ DOMAIN Loading(nm, rs) = 1..Len(rs) /\ Len(rs) \in Nat
         /\ \A i \in 1..Len(rs) : Loading(nm, rs)[i] = nm[rs[i].module]
<1>1. DOMAIN rs = 1..Len(rs) /\ Len(rs) \in Nat
  BY LenProperties
<1>. DEFINE l == Loading(nm, rs)
<1>2. l \in [1..Len(rs) -> Mods \cup {NoName}]
  BY <1>1 DEF Loading
<1>3. l \in Seq(Mods \cup {NoName}) /\ Len(l) = Len(rs)
  BY <1>1, <1>2 DEF Loading
<1>. QED
  BY <1>1, <1>3, LenProperties DEF Loading

(* The steps that make no object, and end no run, are none of Loader's.    *)
LEMMA Stutters ==
  ASSUME UNCHANGED <<name, stage, cache, runs>>
  PROVE  UNCHANGED L!vars
BY DEF L!vars

(* The code of a module begins only when it is neither loaded nor running. *)
LEMMA ImportRunsBegins ==
  ASSUME IInv, NEW n \in Mods, ImportRuns(n)
  PROVE  L!Begin(n)
<1>. DEFINE o == made + 1
            k == Len(runs)
            l == Loading(name, runs)
            lp == Loading(name', runs')
<1>1. TypeOK /\ TypeOK'
  BY ImportRunsOK DEF IInv
<1>2. IInv'
  BY ImportRunsOK
<1>3. /\ Found(n) = {} /\ made < ObjMax /\ name' = [name EXCEPT ![o] = n]
      /\ stage' = [stage EXCEPT ![o] = "loading"] /\ cache' = cache \cup {o}
      /\ runs' = Append(runs, [module |-> o, saved |-> globals,
                               executing |-> executing, base |-> Depth])
  BY DEF ImportRuns
<1>4. /\ made \in Nat /\ k \in Nat /\ runs \in Seq(Run)
      /\ \A i \in 1..k : runs[i].module \in Objs
  BY StateTypes
<1>5. runs' \in Seq(Run) /\ \A i \in 1..Len(runs') : runs'[i].module \in Objs
  <2>1. Layout(frames', runs')
    BY <1>2 DEF IInv
  <2>. QED
    BY <2>1, LayoutTypes DEF Layout
<1>6. o \in Objs
  BY <1>3, <1>4, ImportAssumption DEF Objs
<1>7. /\ \A p \in Objs : stage[p] = "absent" <=> p > made
      /\ \A p \in Objs : stage[p] = "loading" <=> \E i \in 1..k : runs[i].module = p
      /\ cache = {p \in Objs : stage[p] \in {"loading", "loaded"}}
  BY DEF IInv, Modules
<1>8. stage[o] = "absent"
  BY <1>4, <1>6, <1>7
<1>9. \A p \in cache : p \in Objs /\ p # o /\ name[p] # n
  BY <1>3, <1>7, <1>8 DEF Found
<1>10. \A i \in 1..k : runs[i].module \in cache /\ runs[i].module # o
  BY <1>4, <1>7, <1>9
<1>11. /\ name'[o] = n /\ stage'[o] = "loading"
       /\ \A p \in Objs : p # o => name'[p] = name[p] /\ stage'[p] = stage[p]
  BY <1>1, <1>3, <1>6 DEF TypeOK
<1>12. /\ l \in Seq(Mods \cup {NoName}) /\ Len(l) = k /\ DOMAIN l = 1..k
       /\ \A i \in 1..k : l[i] = name[runs[i].module]
  BY <1>1, <1>4, LoadingIs DEF TypeOK
<1>13. Len(runs') = k + 1 /\ runs'[k + 1].module = o /\ \A i \in 1..k : runs'[i] = runs[i]
  BY <1>3, <1>4
<1>14. /\ lp \in Seq(Mods \cup {NoName}) /\ Len(lp) = k + 1
       /\ \A i \in 1..(k + 1) : lp[i] = name'[runs'[i].module]
  <2>1. PICK nm, rs : nm = name' /\ rs = runs'
    OBVIOUS
  <2>2. /\ nm \in [Objs -> Mods \cup {NoName}] /\ rs \in Seq(Run)
        /\ \A i \in 1..Len(rs) : rs[i].module \in Objs
    BY <1>1, <1>5, <2>1 DEF TypeOK
  <2>3. /\ Loading(nm, rs) \in Seq(Mods \cup {NoName}) /\ Len(Loading(nm, rs)) = Len(rs)
        /\ \A i \in 1..Len(rs) : Loading(nm, rs)[i] = nm[rs[i].module]
    BY ONLY <2>2, LoadingIs
  <2>. QED
    BY <1>13, <2>1, <2>3
<1>. HIDE DEF k, o, l, lp
<1>15. lp = Append(l, n)
  <2>1. /\ Append(l, n) \in Seq(Mods \cup {NoName}) /\ Len(Append(l, n)) = k + 1
        /\ (\A i \in 1..k : Append(l, n)[i] = l[i]) /\ Append(l, n)[k + 1] = n
    BY <1>12, AppendProperties
  <2>2. \A i \in 1..(k + 1) : lp[i] = Append(l, n)[i]
    <3>1. \A i \in 1..k : lp[i] = l[i]
      BY <1>4, <1>10, <1>11, <1>12, <1>13, <1>14
    <3>2. lp[k + 1] = n
      BY <1>4, <1>11, <1>13, <1>14
    <3>3. \A i \in 1..(k + 1) : i \in 1..k \/ i = k + 1
      BY <1>4
    <3>. QED
      BY <2>1, <3>1, <3>2, <3>3
  <2>. QED
    BY <1>14, <2>1, <2>2, SeqEqual
<1>16. \A i \in DOMAIN l : l[i] # n
  BY <1>9, <1>10, <1>12
<1>17. n \notin LoadedNames(cache, stage, name)
  BY <1>9 DEF LoadedNames
<1>18. LoadedNames(cache', stage', name') = LoadedNames(cache, stage, name)
  <2>1. {p \in cache' : stage'[p] = "loaded"} = {p \in cache : stage[p] = "loaded"}
    BY <1>3, <1>9, <1>11
  <2>. QED
    BY <1>9, <1>11, <2>1 DEF LoadedNames
<1>. QED
  BY <1>15, <1>16, <1>17, <1>18 DEF L!Begin, l, lp, Loading, LoadedNames

(* The end of a nested run loads its module, or leaves nothing of it.      *)
LEMMA LeftRunLeaves ==
  ASSUME IInv, IInv', runs # <<>>, NEW r, r = Last(runs), Restore(r),
         Loaded(r) \/ Discarded(r)
  PROVE  L!Commit \/ L!Abort
<1>. DEFINE n == Len(runs)
            l == Loading(name, runs)
            lp == Loading(name', runs')
            old == LoadedNames(cache, stage, name)
            new == LoadedNames(cache', stage', name')
<1>1. /\ n \in 1..n /\ r = runs[n] /\ n \in Nat /\ runs \in Seq(Run)
      /\ r.module \in Objs /\ stage[r.module] = "loading"
      /\ Len(Front(runs)) = n - 1
      /\ \A i \in 1..(n - 1) : i \in 1..n /\ Front(runs)[i] = runs[i]
      /\ \A i \in 1..n : runs[i].module \in Objs
  BY InnermostRun, StateTypes
<1>2. runs' = Front(runs) /\ name' = name
  BY DEF Restore
<1>3. TypeOK /\ runs' \in Seq(Run) /\ \A i \in 1..Len(runs') : runs'[i].module \in Objs
  <2>1. TypeOK /\ Layout(frames', runs')
    BY DEF IInv
  <2>. QED
    BY <2>1, LayoutTypes DEF Layout
<1>4. /\ l \in Seq(Mods \cup {NoName}) /\ Len(l) = n
      /\ \A i \in 1..n : l[i] = name[runs[i].module]
  BY <1>1, <1>3, LoadingIs DEF TypeOK
<1>5. /\ lp \in Seq(Mods \cup {NoName}) /\ Len(lp) = n - 1
      /\ \A i \in 1..(n - 1) : lp[i] = name[runs'[i].module]
  <2>1. Len(runs') = n - 1 /\ name' \in [Objs -> Mods \cup {NoName}]
    BY <1>1, <1>2, <1>3 DEF TypeOK
  <2>2. /\ lp \in Seq(Mods \cup {NoName}) /\ Len(lp) = n - 1
        /\ \A i \in 1..(n - 1) : lp[i] = name'[runs'[i].module]
    BY <1>3, <2>1, LoadingIs
  <2>. QED
    BY <1>2, <2>2
<1>6. cache = {o \in Objs : stage[o] \in {"loading", "loaded"}} /\ r.module \in cache
  BY <1>1 DEF IInv, Modules
<1>. HIDE DEF n, l, lp
<1>7. l # <<>>
  BY <1>1, <1>4, EmptySeq
<1>8. lp = SubSeq(l, 1, Len(l) - 1)
  <2>1. /\ Front(l) \in Seq(Mods \cup {NoName}) /\ Len(Front(l)) = n - 1
        /\ \A i \in 1..(n - 1) : Front(l)[i] = l[i]
    BY <1>4, <1>7, FrontOf
  <2>2. \A i \in 1..(n - 1) : lp[i] = Front(l)[i]
    BY <1>1, <1>2, <1>4, <1>5, <2>1
  <2>3. lp = Front(l)
    BY <1>5, <2>1, <2>2, SeqEqual
  <2>. QED
    BY <2>3 DEF Front
<1>9. CASE Loaded(r)
  <2>1. cache' = cache /\ stage' = [stage EXCEPT ![r.module] = "loaded"]
    BY <1>9 DEF Loaded
  <2>2. {p \in cache' : stage'[p] = "loaded"} = {p \in cache : stage[p] = "loaded"} \cup {r.module}
    BY <1>1, <1>3, <1>6, <2>1 DEF TypeOK
  <2>3. new = old \cup {name[r.module]}
    BY <1>2, <2>2 DEF LoadedNames
  <2>4. l[Len(l)] = name[r.module]
    BY <1>1, <1>4
  <2>. QED
    BY <1>7, <1>8, <2>3, <2>4 DEF L!Commit, L!Leave, l, lp, Loading, LoadedNames
<1>10. CASE Discarded(r)
  <2>1. cache' = cache \ {r.module} /\ stage' = [stage EXCEPT ![r.module] = "destroyed"]
    BY <1>10 DEF Discarded
  <2>2. {p \in cache' : stage'[p] = "loaded"} = {p \in cache : stage[p] = "loaded"}
    BY <1>1, <1>3, <1>6, <2>1 DEF TypeOK
  <2>3. new = old
    BY <1>2, <2>2 DEF LoadedNames
  <2>. QED
    BY <1>7, <1>8, <2>3 DEF L!Abort, L!Leave, l, lp, Loading, LoadedNames
<1>. QED
  BY <1>9, <1>10

LEMMA EndRunLeaves ==
  ASSUME IInv, IInv', EndRun
  PROVE  L!Commit \/ L!Abort \/ UNCHANGED L!vars
<1>1. CASE runs = <<>>
  BY <1>1, Stutters DEF EndRun, modvars, runvars
<1>2. CASE runs # <<>>
  BY <1>2, LeftRunLeaves DEF EndRun
<1>. QED
  BY <1>1, <1>2

LEMMA StepRefines ==
  ASSUME ExitDepth = 0, IInv, IInv', [Next]_vars
  PROVE  [L!Next]_(L!vars)
<1>. USE DEF L!Next
<1>1. CASE Halt
  <2>1. CASE runs = <<>>
    BY <1>1, <2>1, Stutters DEF Halt, modvars, runvars
  <2>2. CASE runs # <<>>
    BY <1>1, <2>2, LeftRunLeaves DEF Halt
  <2>. QED
    BY <2>1, <2>2
<1>2. CASE Return \/ Try \/ Raise \/ Catch
  BY <1>2, Stutters DEF Return, Try, Raise, Catch, Becomes, modvars, runvars
<1>3. CASE Unwind
  <2>1. CASE Top.kind = "module"
    BY <1>3, <2>1, EndRunLeaves DEF Unwind
  <2>2. CASE Top.kind # "module"
    BY <1>3, <2>2, Stutters DEF Unwind, modvars, runvars
  <2>. QED
    BY <2>1, <2>2
<1>4. CASE Fail
  BY <1>4, EndRunLeaves DEF Fail
<1>5. CASE Exit
  <2>1. runs = <<>>
    BY <1>5, StateTypes, EmptySeq DEF Exit
  <2>. QED
    BY <1>5, <2>1, Stutters DEF Exit, modvars, runvars
<1>6. ASSUME NEW n \in Mods, ImportCycle(n) \/ ImportFails(n)  PROVE UNCHANGED L!vars
  BY <1>6, Stutters DEF ImportCycle, ImportFails, Becomes, modvars, runvars
<1>7. ASSUME NEW n \in Mods, ImportRuns(n)  PROVE L!Next
  BY <1>7, ImportRunsBegins
<1>8. ASSUME NEW x \in Names, Store(x)  PROVE UNCHANGED L!vars
  BY <1>8, Stutters DEF Store, modvars
<1>9. ASSUME NEW k \in {"def", "genexpr"}, MakeFunction(k)  PROVE UNCHANGED L!vars
  BY <1>9, Stutters DEF MakeFunction, modvars, runvars
<1>10. ASSUME NEW f \in functions, Call(f)  PROVE UNCHANGED L!vars
  BY <1>10, Stutters DEF Call, Becomes, modvars, runvars
<1>11. ASSUME NEW x \in Names, NEW o \in Objs, StoreAttr(o, x)  PROVE UNCHANGED L!vars
  BY <1>11, Stutters DEF StoreAttr, runvars
<1>12. ASSUME NEW o \in Objs, LookUp(o)  PROVE UNCHANGED L!vars
  BY <1>12, Stutters DEF LookUp, Becomes, modvars, runvars
<1>13. CASE UNCHANGED vars
  BY <1>13, Stutters DEF vars, modvars, runvars
<1>. QED
  <2>. HIDE DEF L!Next
  <2>. QED
    BY <1>1, <1>2, <1>3, <1>4, <1>5, <1>6, <1>7, <1>8, <1>9, <1>10, <1>11, <1>12,
       <1>13 DEF Next

LEMMA InitRefines == Init => L!Init
<1>. SUFFICES ASSUME Init  PROVE L!Init
  OBVIOUS
<1>1. runs = <<>> /\ cache = {} /\ name \in [Objs -> Mods \cup {NoName}]
  BY DEF Init
<1>2. runs \in Seq(Run) /\ Len(runs) = 0 /\ \A i \in 1..Len(runs) : FALSE
  BY <1>1, EmptySeq
<1>3. Loading(name, runs) \in Seq(Mods \cup {NoName}) /\ Len(Loading(name, runs)) = 0
  BY <1>1, <1>2, LoadingIs
<1>4. Loading(name, runs) = <<>>
  BY <1>3, EmptySeq
<1>5. LoadedNames(cache, stage, name) = {}
  BY <1>1 DEF LoadedNames
<1>. QED
  BY <1>4, <1>5 DEF L!Init, Loading, LoadedNames

(* Importing is transactional (D-0023): a module begins only when it is    *)
(* neither loaded nor being executed, is loaded when its code has run to   *)
(* the end, and leaves nothing behind when it has not.                     *)
THEOREM ImportingIsTransactional == ASSUME ExitDepth = 0  PROVE Spec => ImplementsLoader
<1>1. Init => L!Init
  BY InitRefines
<1>2. IInv /\ IInv' /\ [Next]_vars => [L!Next]_(L!vars)
  BY StepRefines
<1>. QED
  BY <1>1, <1>2, Inductive, PTL DEF Spec, ImplementsLoader, L!Spec
=============================================================================
