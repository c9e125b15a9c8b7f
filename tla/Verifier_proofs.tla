--------------------------- MODULE Verifier_proofs ---------------------------
(***************************************************************************)
(* Proofs about Verifier, for code of every length and shape.  What the    *)
(* walk accepts is closed: from the first instruction, at depth 0, every   *)
(* step that an instruction can take ends at an instruction of the code,   *)
(* at the depth recorded for it, and takes no more than is there.          *)
(***************************************************************************)
EXTENDS Verifier, Iteration, FiniteSetTheorems

(* The operands that a depth depends on are numbers.                       *)
Measured(code) == \A at \in DOMAIN code : Effect(code[at]) \in Int

(* What is recorded for instruction at is so for its successors.           *)
Followed(code, depth, at) ==
  /\ ~ Underflows(code[at], depth[at])
  /\ \A s \in Successors(code, at, depth[at]) : s[1] \in DOMAIN depth /\ depth[s[1]] = s[2]

Closed(code, depth) ==
  /\ DOMAIN depth \subseteq DOMAIN code /\ depth \in [DOMAIN depth -> Int]
  /\ 1 \in DOMAIN depth /\ depth[1] = 0
  /\ \A at \in DOMAIN depth : Followed(code, depth, at)

(* The states of the walk.                                                 *)
Walks(code) ==
  [ok : BOOLEAN, work : SUBSET DOMAIN code, depth : UNION {[D -> Int] : D \in SUBSET DOMAIN code}]

(* After n rounds: the instructions that are not on the list have been     *)
(* followed, and there are n of them unless the list is empty.             *)
Walked(code, w, n) ==
  /\ w \in Walks(code)
  /\ w.ok => /\ w.work \subseteq DOMAIN w.depth
             /\ 1 \in DOMAIN w.depth /\ w.depth[1] = 0
             /\ \A at \in DOMAIN w.depth \ w.work : Followed(code, w.depth, at)
             /\ w.work # {} => Cardinality(DOMAIN w.depth \ w.work) = n
  /\ ~ w.ok => w.work = {}

LEMMA WalksDomain ==
  ASSUME NEW code, NEW w \in Walks(code)
  PROVE  /\ DOMAIN w.depth \subseteq DOMAIN code /\ w.depth \in [DOMAIN w.depth -> Int]
         /\ w.work \subseteq DOMAIN code /\ w.ok \in BOOLEAN
<1>1. w.depth \in UNION {[D -> Int] : D \in SUBSET DOMAIN code}
  BY DEF Walks
<1>2. PICK D \in SUBSET DOMAIN code : w.depth \in [D -> Int]
  BY <1>1
<1>. QED
  BY <1>2 DEF Walks

LEMMA SuccessorsTyped ==
  ASSUME NEW code, Measured(code), NEW at \in DOMAIN code, NEW d \in Int,
         NEW s \in Successors(code, at, d)
  PROVE  s = <<s[1], s[2]>> /\ s[2] \in Int
<1>1. Effect(code[at]) \in Int
  BY DEF Measured
<1>2. BranchDepth(code[at], d) \in Int
  BY <1>1 DEF BranchDepth
<1>3. CASE s = <<code[at].arg, BranchDepth(code[at], d)>>
  BY <1>2, <1>3
<1>4. CASE s = <<at + 1, d + Effect(code[at])>>
  BY <1>1, <1>4
<1>. QED
  BY <1>3, <1>4 DEF Successors

(* One round.                                                              *)
LEMMA VisitKeeps ==
  ASSUME NEW S, NEW code \in Seq(S), Measured(code), NEW w, NEW n \in Nat, Walked(code, w, n)
  PROVE  Walked(code, Visit(code, w), n + 1)
<1>. DEFINE at == CHOOSE a \in w.work : TRUE
            next == Successors(code, at, w.depth[at])
            Seen(s) == s[1] \in DOMAIN w.depth
            new == {s \in next : ~Seen(s)}
            bad == \/ Underflows(code[at], w.depth[at])
                   \/ \E s \in next : s[1] \notin DOMAIN code
                   \/ \E s \in next : Seen(s) /\ w.depth[s[1]] # s[2]
                   \/ \E m, s \in next : m[1] = s[1] /\ m[2] # s[2]
            names == {s[1] : s \in new}
            depth == [a \in DOMAIN w.depth \cup names |->
                        IF a \in DOMAIN w.depth THEN w.depth[a]
                        ELSE (CHOOSE s \in new : s[1] = a)[2]]
            v == [ok |-> TRUE, work |-> (w.work \ {at}) \cup names, depth |-> depth]
<1>1. CASE w.work = {}
  <2>1. Visit(code, w) = w
    BY <1>1 DEF Visit
  <2>. QED
    BY <1>1, <2>1 DEF Walked
<1>2. CASE w.work # {} /\ bad
  <2>1. Visit(code, w) = Refused
    BY <1>2 DEF Visit
  <2>2. Refused \in Walks(code) /\ ~ Refused.ok /\ Refused.work = {}
    <3>1. <<>> \in [{} -> Int] /\ {} \in SUBSET DOMAIN code
      OBVIOUS
    <3>2. <<>> \in UNION {[D -> Int] : D \in SUBSET DOMAIN code}
      BY <3>1
    <3>. QED
      BY <3>2 DEF Refused, Walks
  <2>. QED
    BY <2>1, <2>2 DEF Walked
<1>3. CASE w.work # {} /\ ~ bad
  <2>1. Visit(code, w) = v
    BY <1>3 DEF Visit
  <2>2. w.ok /\ w \in Walks(code)
    BY <1>3 DEF Walked
  <2>3. /\ DOMAIN w.depth \subseteq DOMAIN code /\ w.depth \in [DOMAIN w.depth -> Int]
        /\ w.work \subseteq DOMAIN w.depth
    BY <2>2, WalksDomain DEF Walked
  <2>4. at \in w.work /\ at \in DOMAIN w.depth /\ at \in DOMAIN code /\ w.depth[at] \in Int
    BY <1>3, <2>3
  <2>5. \A s \in next : s = <<s[1], s[2]>> /\ s[2] \in Int
    BY <2>4, SuccessorsTyped
  <2>6. /\ ~ Underflows(code[at], w.depth[at])
        /\ \A s \in next : s[1] \in DOMAIN code
        /\ \A s \in next : Seen(s) => w.depth[s[1]] = s[2]
        /\ \A m, s \in next : m[1] = s[1] => m[2] = s[2]
    BY <1>3
  <2>. HIDE DEF at, next
  <2>7. names \subseteq DOMAIN code /\ names \cap DOMAIN w.depth = {}
    BY <2>6
  <2>8. \A s \in new : depth[s[1]] = s[2]
    <3>. SUFFICES ASSUME NEW s \in new  PROVE depth[s[1]] = s[2]
      OBVIOUS
    <3>1. s[1] \in names /\ s[1] \notin DOMAIN w.depth
      OBVIOUS
    <3>2. depth[s[1]] = (CHOOSE m \in new : m[1] = s[1])[2]
      BY <3>1
    <3>3. (CHOOSE m \in new : m[1] = s[1])[1] = s[1] /\ (CHOOSE m \in new : m[1] = s[1]) \in new
      OBVIOUS
    <3>. QED
      BY <2>6, <3>2, <3>3
  <2>9. /\ DOMAIN depth = DOMAIN w.depth \cup names
        /\ \A a \in DOMAIN w.depth : depth[a] = w.depth[a]
    OBVIOUS
  <2>10. depth \in [DOMAIN depth -> Int]
    <3>1. \A a \in names : depth[a] \in Int
      BY <2>5, <2>8
    <3>. QED
      BY <2>3, <2>9, <3>1
  <2>11. \A s \in next : s[1] \in DOMAIN depth /\ depth[s[1]] = s[2]
    <3>. SUFFICES ASSUME NEW s \in next  PROVE s[1] \in DOMAIN depth /\ depth[s[1]] = s[2]
      OBVIOUS
    <3>1. CASE Seen(s)
      BY <2>6, <2>9, <3>1
    <3>2. CASE ~ Seen(s)
      BY <2>8, <2>9, <3>2
    <3>. QED
      BY <3>1, <3>2
  <2>. HIDE DEF depth
  <2>12. Followed(code, depth, at)
    BY <2>4, <2>6, <2>9, <2>11 DEF Followed, next
  <2>13. ASSUME NEW b \in DOMAIN w.depth \ w.work  PROVE Followed(code, depth, b)
    <3>1. Followed(code, w.depth, b)
      BY <2>2, <2>13 DEF Walked
    <3>. QED
      BY <2>9, <3>1 DEF Followed
  <2>14. DOMAIN depth \ v.work = (DOMAIN w.depth \ w.work) \cup {at}
    BY <2>3, <2>4, <2>7, <2>9
  <2>15. Cardinality(DOMAIN depth \ v.work) = n + 1
    <3>1. IsFiniteSet(DOMAIN code)
      BY FS_Interval
    <3>2. IsFiniteSet(DOMAIN w.depth \ w.work)
      BY <2>3, <3>1, FS_Subset
    <3>3. Cardinality(DOMAIN w.depth \ w.work) = n
      BY <1>3, <2>2 DEF Walked
    <3>4. at \notin DOMAIN w.depth \ w.work
      BY <2>4
    <3>. QED
      BY <2>14, <3>2, <3>3, <3>4, FS_AddElement
  <2>16. v \in Walks(code)
    <3>1. DOMAIN depth \in SUBSET DOMAIN code
      BY <2>3, <2>7, <2>9
    <3>2. depth \in UNION {[D -> Int] : D \in SUBSET DOMAIN code}
      BY <2>10, <3>1
    <3>3. v.work \in SUBSET DOMAIN code
      BY <2>3, <2>7
    <3>. QED
      BY <3>2, <3>3 DEF Walks
  <2>17. v.ok /\ v.depth = depth /\ v.work \subseteq DOMAIN depth
    BY <2>3, <2>9
  <2>18. 1 \in DOMAIN depth /\ depth[1] = 0
    BY <2>2, <2>9 DEF Walked
  <2>. HIDE DEF v
  <2>. QED
    BY <2>1, <2>12, <2>13, <2>14, <2>15, <2>16, <2>17, <2>18 DEF Walked
<1>. QED
  BY <1>1, <1>2, <1>3

LEMMA BegunWalked ==
  ASSUME NEW S, NEW code \in Seq(S), code # <<>>
  PROVE  Walked(code, Begun, 0)
<1>1. 1 \in DOMAIN code
  OBVIOUS
<1>. DEFINE d == [at \in {1} |-> 0]
<1>2. d \in [{1} -> Int] /\ {1} \in SUBSET DOMAIN code /\ DOMAIN d = {1} /\ d[1] = 0
  BY <1>1
<1>3. Begun \in Walks(code)
  <2>1. d \in UNION {[D -> Int] : D \in SUBSET DOMAIN code}
    BY <1>2
  <2>. QED
    BY <1>2, <2>1 DEF Begun, Walks
<1>4. Begun.ok /\ Begun.work = {1} /\ Begun.depth = d
  BY DEF Begun
<1>5. DOMAIN d \ {1} = {}
  BY <1>2
<1>. HIDE DEF d
<1>6. Cardinality({}) = 0
  BY FS_EmptySet
<1>. QED
  BY <1>2, <1>3, <1>4, <1>5, <1>6 DEF Walked

(* The function that Walk takes its last value of.                         *)
Rounds(g, code) ==
  g = [n \in 0..Len(code) |-> IF n = 0 THEN Begun ELSE Visit(code, g[n - 1])]

LEMMA RoundsExist ==
  ASSUME NEW S, NEW code \in Seq(S), Measured(code), code # <<>>
  PROVE  \E g : Rounds(g, code)
<1>. DEFINE R == {w \in Walks(code) : \E n \in Nat : Walked(code, w, n)}
            F == [a \in R \X Nat |-> Visit(code, a[1])]
<1>1. Len(code) \in Nat
  OBVIOUS
<1>2. Begun \in R
  BY BegunWalked DEF Walked
<1>3. \A w \in R : Visit(code, w) \in R
  <2>. SUFFICES ASSUME NEW w \in R  PROVE Visit(code, w) \in R
    OBVIOUS
  <2>1. PICK n \in Nat : Walked(code, w, n)
    OBVIOUS
  <2>2. Walked(code, Visit(code, w), n + 1)
    BY <2>1, VisitKeeps
  <2>. QED
    BY <2>2 DEF Walked
<1>. HIDE DEF R
<1>4. F \in [R \X Nat -> R]
  BY <1>3
<1>5. \A w \in R, n \in Nat : F[<<w, n>>] = Visit(code, w)
  OBVIOUS
<1>. HIDE DEF F
<1>6. PICK g \in [0..Len(code) -> R] : Repeats(F, Begun, Len(code), g)
  BY <1>1, <1>2, <1>4, Repeated
<1>7. ASSUME NEW n \in 0..Len(code)
      PROVE  g[n] = IF n = 0 THEN Begun ELSE Visit(code, g[n - 1])
  <2>1. CASE n = 0
    BY <1>6, <2>1 DEF Repeats
  <2>2. CASE n # 0
    <3>1. n \in 1..Len(code) /\ n - 1 \in 0..Len(code) /\ n \in Nat
      BY <1>1, <2>2
    <3>2. g[n] = F[<<g[n - 1], n>>] /\ g[n - 1] \in R
      BY <1>6, <3>1 DEF Repeats
    <3>. QED
      BY <1>5, <2>2, <3>1, <3>2
  <2>. QED
    BY <2>1, <2>2
<1>8. g = [n \in 0..Len(code) |-> IF n = 0 THEN Begun ELSE Visit(code, g[n - 1])]
  BY <1>7
<1>. QED
  BY <1>8 DEF Rounds

(* The walk over code that has instructions: as many rounds as there are   *)
(* of them visit each, and leave nothing on the list.                      *)
LEMMA WalkCloses ==
  ASSUME NEW S, NEW code \in Seq(S), Measured(code), code # <<>>, Walk(code).ok
  PROVE  Closed(code, Walk(code).depth)
<1>. DEFINE g == CHOOSE f : Rounds(f, code)
            N == {n \in Nat : n <= Len(code) => Walked(code, g[n], n)}
<1>1. Rounds(g, code)
  BY RoundsExist
<1>2. Walk(code) = g[Len(code)]
  BY DEF Walk, Rounds
<1>. HIDE DEF g
<1>3. Len(code) \in Nat /\ DOMAIN code = 1..Len(code)
  OBVIOUS
<1>4. \A n \in 0..Len(code) : g[n] = IF n = 0 THEN Begun ELSE Visit(code, g[n - 1])
  BY <1>1 DEF Rounds
<1>5. 0 \in N
  <2>1. g[0] = Begun
    BY <1>3, <1>4
  <2>. QED
    BY <2>1, BegunWalked
<1>6. ASSUME NEW n \in N  PROVE n + 1 \in N
  <2>. SUFFICES ASSUME n + 1 <= Len(code)  PROVE Walked(code, g[n + 1], n + 1)
    OBVIOUS
  <2>1. n \in Nat /\ n + 1 \in 0..Len(code) /\ n + 1 # 0 /\ (n + 1) - 1 = n /\ Walked(code, g[n], n)
    BY <1>3
  <2>2. g[n + 1] = Visit(code, g[n])
    BY <1>4, <2>1
  <2>. QED
    BY <2>1, <2>2, VisitKeeps
<1>. HIDE DEF N
<1>7. N \in SUBSET Nat
  BY DEF N
<1>8. N = Nat
  BY <1>5, <1>6, <1>7, Induction
<1>9. Walked(code, g[Len(code)], Len(code))
  BY <1>3, <1>8 DEF N
<1>. DEFINE w == g[Len(code)]
<1>10. w.ok /\ w \in Walks(code)
  BY <1>2, <1>9 DEF Walked
<1>11. DOMAIN w.depth \subseteq DOMAIN code /\ w.depth \in [DOMAIN w.depth -> Int]
  BY <1>10, WalksDomain
<1>12. w.work = {}
  <2>. SUFFICES ASSUME w.work # {}  PROVE FALSE
    OBVIOUS
  <2>1. w.work \subseteq DOMAIN w.depth /\ Cardinality(DOMAIN w.depth \ w.work) = Len(code)
    BY <1>9, <1>10 DEF Walked
  <2>2. DOMAIN w.depth \ w.work \subseteq 1..Len(code) /\ DOMAIN w.depth \ w.work # 1..Len(code)
    BY <1>3, <1>11, <2>1
  <2>3. IsFiniteSet(1..Len(code)) /\ Cardinality(1..Len(code)) = Len(code)
    BY <1>3, FS_Interval
  <2>. QED
    BY <1>3, <2>1, <2>2, <2>3, FS_Subset
<1>13. \A at \in DOMAIN w.depth : Followed(code, w.depth, at)
  BY <1>9, <1>10, <1>12 DEF Walked
<1>14. 1 \in DOMAIN w.depth /\ w.depth[1] = 0
  BY <1>9, <1>10 DEF Walked
<1>. QED
  BY <1>2, <1>11, <1>13, <1>14 DEF Closed

(* What py68_verify_code accepts is closed under every step that its       *)
(* instructions can take, at the depths that were found, and never takes   *)
(* more operands than it has.                                              *)
THEOREM VerifiedIsClosed ==
  ASSUME NEW S, NEW code \in Seq(S), Measured(code), NEW gen, Verify(code, gen).ok
  PROVE  /\ Closed(code, Verify(code, gen).depth)
         /\ ~ gen => \A at \in DOMAIN code : code[at].op # "YIELD_VALUE"
<1>. DEFINE refused == \/ code = <<>>
                       \/ code[Len(code)].op \notin {"HALT", "RETURN_VALUE", "RETURN_NONE"}
                       \/ ~ gen /\ \E at \in DOMAIN code : code[at].op = "YIELD_VALUE"
            w == IF refused THEN Refused ELSE Walk(code)
<1>1. Verify(code, gen).ok = w.ok /\ Verify(code, gen).depth = w.depth
  BY DEF Verify
<1>2. ~ refused
  BY <1>1 DEF Refused
<1>3. w = Walk(code)
  BY <1>2
<1>4. code # <<>> /\ (~ gen => \A at \in DOMAIN code : code[at].op # "YIELD_VALUE")
  BY <1>2
<1>. HIDE DEF w, refused
<1>. QED
  BY <1>1, <1>3, <1>4, WalkCloses

-----------------------------------------------------------------------------
(* The maximum that py68_generator_new sizes its array by.                 *)

LEMMA MaximumExists ==
  ASSUME NEW T \in SUBSET Int, IsFiniteSet(T), T # {}
  PROVE  \E x \in T : \A y \in T : x >= y
<1>. DEFINE P(n) == \A U \in SUBSET Int : IsFiniteSet(U) /\ Cardinality(U) = n /\ U # {}
                      => \E x \in U : \A y \in U : x >= y
            N == {n \in Nat : P(n)}
<1>1. 0 \in N
  BY FS_EmptySet
<1>2. ASSUME NEW n \in N  PROVE n + 1 \in N
  <2>. SUFFICES ASSUME NEW U \in SUBSET Int, IsFiniteSet(U), Cardinality(U) = n + 1, U # {}
                PROVE  \E x \in U : \A y \in U : x >= y
    OBVIOUS
  <2>1. PICK z \in U : TRUE
    OBVIOUS
  <2>2. IsFiniteSet(U \ {z}) /\ Cardinality(U \ {z}) = n
    <3>1. n \in Nat /\ (n + 1) - 1 = n
      OBVIOUS
    <3>2. IsFiniteSet(U \ {z}) /\ Cardinality(U \ {z}) = Cardinality(U) - 1
      BY <2>1, FS_RemoveElement
    <3>. QED
      BY <3>1, <3>2
  <2>3. CASE U \ {z} = {}
    BY <2>1, <2>3
  <2>4. CASE U \ {z} # {}
    <3>1. P(n) /\ U \ {z} \in SUBSET Int
      OBVIOUS
    <3>2. PICK x \in U \ {z} : \A y \in U \ {z} : x >= y
      BY <2>2, <2>4, <3>1
    <3>3. CASE z > x
      BY <2>1, <3>2, <3>3
    <3>4. CASE ~ (z > x)
      BY <2>1, <3>2, <3>4
    <3>. QED
      BY <3>3, <3>4
  <2>. QED
    BY <2>3, <2>4
<1>. HIDE DEF P
<1>3. N = Nat
  BY <1>1, <1>2, Induction
<1>4. P(Cardinality(T))
  BY <1>3, FS_CardinalityType
<1>. QED
  BY <1>4 DEF P

LEMMA MaximumCovers ==
  ASSUME NEW S, NEW code \in Seq(S), Measured(code), NEW gen, Verify(code, gen).ok
  PROVE  /\ Verify(code, gen).max \in Nat
         /\ \A at \in DOMAIN Verify(code, gen).depth :
              Verify(code, gen).depth[at] + Effect(code[at]) <= Verify(code, gen).max
<1>. DEFINE d == Verify(code, gen).depth
            T == {0} \cup {d[at] + Effect(code[at]) : at \in DOMAIN d}
<1>1. Verify(code, gen).max = Max(T)
  BY DEF Verify
<1>2. DOMAIN d \subseteq DOMAIN code /\ d \in [DOMAIN d -> Int]
  BY VerifiedIsClosed DEF Closed
<1>. HIDE DEF d
<1>3. IsFiniteSet(DOMAIN d)
  <2>1. IsFiniteSet(DOMAIN code)
    BY FS_Interval
  <2>. QED
    BY <1>2, <2>1, FS_Subset
<1>4. \A at \in DOMAIN d : d[at] + Effect(code[at]) \in Int
  BY <1>2 DEF Measured
<1>. DEFINE F == [at \in DOMAIN d |-> d[at] + Effect(code[at])]
            R == {F[at] : at \in DOMAIN d}
<1>5. F \in Surjection(DOMAIN d, R)
  BY DEF Surjection
<1>6. IsFiniteSet(R)
  BY <1>3, <1>5, FS_Surjection
<1>7. T = R \cup {0} /\ R \in SUBSET Int
  BY <1>4
<1>8. IsFiniteSet(T) /\ T \in SUBSET Int /\ T # {}
  <2>1. IsFiniteSet(R \cup {0})
    BY <1>6, FS_AddElement
  <2>. HIDE DEF R, T
  <2>. QED
    BY <1>7, <2>1
<1>9. Max(T) \in T /\ \A y \in T : Max(T) >= y
  <2>1. \E x \in T : \A y \in T : x >= y
    BY <1>8, MaximumExists
  <2>. HIDE DEF T
  <2>. QED
    BY <2>1 DEF Max
<1>10. 0 \in T /\ \A at \in DOMAIN d : d[at] + Effect(code[at]) \in T
  OBVIOUS
<1>. HIDE DEF T, R, F
<1>11. Max(T) \in Nat /\ \A at \in DOMAIN d : d[at] + Effect(code[at]) <= Max(T)
  <2>1. Max(T) \in Int /\ Max(T) >= 0
    BY <1>8, <1>9, <1>10
  <2>2. \A at \in DOMAIN d : Max(T) >= d[at] + Effect(code[at])
    BY <1>9, <1>10
  <2>. QED
    BY <1>4, <2>1, <2>2
<1>. QED
  BY <1>1, <1>11 DEF d
=============================================================================
