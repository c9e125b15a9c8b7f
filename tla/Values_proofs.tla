---------------------------- MODULE Values_proofs ----------------------------
(***************************************************************************)
(* The checked arithmetic of the interpreter and iteration over a range,   *)
(* for words of every size, and the search in strings, for every string:   *)
(* what run "text" compares on words of five bits and on strings of five   *)
(* characters.                                                             *)
(***************************************************************************)
EXTENDS Words, Search, Iteration, FiniteSetTheorems, TLAPS

(* The ends of the word.                                                   *)
LEMMA Limits == IntLimit \in Int /\ IntLimit > 0 /\ Largest \in Nat /\ Smallest \in Int /\ Smallest < 0
  BY IntLimitAssumption DEF Largest, Smallest

(* Addition gives the sum, or reports that it does not fit, and never      *)
(* leaves the word on the way (vm.c:375-381).                              *)
THEOREM AdditionExact ==
  ASSUME NEW a \in IntWord, NEW b \in IntWord
  PROVE  Sum2(a, b) = OrOverflow(a + b)
  BY Limits DEF Sum2, OrOverflow, Fits, IntWord, Largest, Smallest

(* So does subtraction (vm.c:383-389).                                     *)
THEOREM SubtractionExact ==
  ASSUME NEW a \in IntWord, NEW b \in IntWord
  PROVE  Difference(a, b) = OrOverflow(a - b)
  BY Limits DEF Difference, OrOverflow, Fits, IntWord, Largest, Smallest

(* The least word is the only one that has no negation (vm.c:1284-1300).   *)
THEOREM NegationExact ==
  ASSUME NEW a \in IntWord
  PROVE  Negation(a) = OrOverflow(-a)
  BY Limits DEF Negation, OrOverflow, Fits, IntWord, Largest, Smallest

-----------------------------------------------------------------------------
(* Division of natural numbers.                                            *)
LEMMA Division ==
  ASSUME NEW m \in Nat, NEW d \in Nat, d > 0
  PROVE  /\ m \div d \in Nat
         /\ d * (m \div d) <= m
         /\ m < d * (m \div d) + d
  OBVIOUS

(* Multiples keep their order.                                             *)
LEMMA Scaled ==
  ASSUME NEW d \in Nat, NEW x \in Int, NEW y \in Int, x <= y
  PROVE  d * x <= d * y
  OBVIOUS

(* Only zero has a multiple nearer to zero than the factor.                *)
LEMMA Below ==
  ASSUME NEW d \in Nat, NEW x \in Int, d > 0, -d < d * x, d * x < d
  PROVE  x = 0
<1>1. CASE x >= 1
  <2>1. d * 1 <= d * x
    BY <1>1, Scaled
  <2> QED BY <2>1
<1>2. CASE x <= -1
  <2>1. d * x <= d * (-1)
    BY <1>2, Scaled
  <2> QED BY <2>1
<1> QED BY <1>1, <1>2

(* What fits does not wrap.                                                *)
LEMMA WrappedFits ==
  ASSUME NEW n \in IntWord
  PROVE  Wrapped(n) = n
<1>1. ASSUME NEW m \in Nat, NEW d \in Nat, m < d PROVE m % d = m
  BY <1>1
<1>2. n + IntLimit \in Nat /\ 2 * IntLimit \in Nat /\ n + IntLimit < 2 * IntLimit
  BY Limits DEF IntWord, Largest, Smallest
<1>3. (n + IntLimit) % (2 * IntLimit) = n + IntLimit
  BY <1>1, <1>2
<1> QED BY <1>3, Limits DEF Wrapped, IntWord, Largest, Smallest
-----------------------------------------------------------------------------
(* Multiplication.  The tests compare with a quotient by one factor; that  *)
(* they say what they should is the multiple of the other next to Largest. *)

(* The test for positive factors.                                          *)
LEMMA PositiveProduct ==
  ASSUME NEW a \in Int, NEW b \in Int, a > 0, b > 0
  PROVE  a > Largest \div b <=> a * b > Largest
<1> DEFINE k == Largest \div b
<1>1. k \in Nat /\ b * k <= Largest /\ Largest < b * k + b
  BY Division, Limits DEF Largest
<1> HIDE DEF k
<1>2. CASE a > k
  <2>1. b * (k + 1) <= b * a
    BY <1>1, <1>2, Scaled
  <2> QED BY <1>1, <1>2, <2>1, Limits DEF k
<1>3. CASE a <= k
  <2>1. b * a <= b * k
    BY <1>1, <1>3, Scaled
  <2> QED BY <1>1, <1>3, <2>1, Limits DEF k
<1> QED BY <1>1, <1>2, <1>3

(* With unlike signs the test lets one multiple more through.              *)
LEMMA NegativeProduct ==
  ASSUME NEW a \in IntWord, NEW b \in IntWord, a > 0, b < 0
  PROVE  /\ b < -(Largest \div a) - 1 => a * b < Smallest
         /\ b >= -(Largest \div a) - 1 => a * b + a >= -Largest
<1> DEFINE k == Largest \div a
<1>1. k \in Nat /\ a * k <= Largest /\ Largest < a * k + a
  BY Division, Limits DEF Largest, IntWord
<1> HIDE DEF k
<1>2. ASSUME b < -k - 1 PROVE a * b < Smallest
  <2>1. a * b <= a * (-k - 2)
    BY <1>1, <1>2, Scaled, Limits DEF IntWord
  <2> QED BY <1>1, <2>1, Limits DEF IntWord, Largest, Smallest
<1>3. ASSUME b >= -k - 1 PROVE a * b + a >= -Largest
  <2>1. a * (-k - 1) <= a * b
    BY <1>1, <1>3, Scaled, Limits DEF IntWord
  <2> QED BY <1>1, <2>1, Limits DEF IntWord
<1> QED BY <1>2, <1>3 DEF k

(* A product is exact or reported, but for the products of unlike signs    *)
(* just below the word, which wrap (vm.c:391-406).                         *)
THEOREM ProductExact ==
  ASSUME NEW a \in IntWord, NEW b \in IntWord
  PROVE  Product(a, b) \in {OrOverflow(a * b)}
                           \cup IF JustBelow(a, b) THEN {Answer(Wrapped(a * b))} ELSE {}
<1> USE Limits
<1>0. a \in Int /\ b \in Int /\ a * b \in Int
  BY DEF IntWord
<1>1. ASSUME Fits(a * b) PROVE Wrapped(a * b) = a * b
  BY <1>0, <1>1, WrappedFits DEF Fits, IntWord
<1>2. CASE a = 0 \/ b = 0
  <2>1. a * b = 0
    BY <1>0, <1>2
  <2> QED BY <1>2, <2>1 DEF Product, OrOverflow, Fits, Largest, Smallest
<1>3. CASE a > 0 /\ b > 0
  <2>1. Quotient(Largest, b) = Largest \div b
    BY <1>0, <1>3, Division DEF Quotient, Magnitude, Largest
  <2>2. a * b > 0
    BY <1>0, <1>3
  <2>3. a > Largest \div b <=> ~Fits(a * b)
    BY <1>0, <1>3, <2>2, PositiveProduct DEF Fits, Smallest
  <2> QED BY <1>0, <1>1, <1>3, <2>1, <2>3 DEF Product, OrOverflow
<1>4. CASE a < 0 /\ b < 0
  <2> DEFINE k == Largest \div (-b)
  <2>1. k \in Nat /\ Quotient(Largest, b) = -k
    BY <1>0, <1>4, Division DEF Quotient, Magnitude, Largest
  <2>2. -a > k <=> (-a) * (-b) > Largest
    BY <1>0, <1>4, PositiveProduct
  <2>3. a * b = (-a) * (-b) /\ a * b > 0
    BY <1>0, <1>4
  <2> HIDE DEF k
  <2>4. a < -k <=> ~Fits(a * b)
    BY <1>0, <2>1, <2>2, <2>3 DEF Fits, Smallest
  <2>5. (a = -1 /\ b = Smallest) \/ (b = -1 /\ a = Smallest) => ~Fits(a * b)
    BY <1>0 DEF Fits, Largest, Smallest
  <2> DEFINE extreme == (a = -1 /\ b = Smallest) \/ (b = -1 /\ a = Smallest)
  <2>6. Product(a, b) = IF extreme \/ a < -k THEN Overflow ELSE Answer(Wrapped(a * b))
    <3>1. a # 0 /\ b # 0 /\ ~(a > 0) /\ ~(b > 0) BY <1>0, <1>4
    <3> QED BY <1>4, <2>1, <3>1 DEF Product
  <2> HIDE DEF extreme
  <2>7. extreme \/ a < -k <=> ~Fits(a * b)
    BY <2>4, <2>5 DEF extreme
  <2> QED BY <1>1, <2>6, <2>7 DEF OrOverflow
<1>5. CASE a > 0 /\ b < 0
  <2> DEFINE k == Largest \div a
  <2>1. k \in Nat /\ Quotient(-Largest, a) = -k
    BY <1>0, <1>5, Division DEF Quotient, Magnitude, Largest, IntWord
  <2>2. /\ b < -k - 1 => a * b < Smallest
        /\ b >= -k - 1 => a * b + a >= -Largest
    BY <1>5, NegativeProduct
  <2> HIDE DEF k
  <2>3. b < -k - 1 => ~Fits(a * b)
    BY <1>0, <2>2 DEF Fits
  <2>4. b >= -k - 1 => JustBelow(a, b)
    BY <1>0, <1>5, <2>1, <2>2 DEF JustBelow, Largest
  <2>5. Product(a, b) = IF b < -k - 1 THEN Overflow ELSE Answer(Wrapped(a * b))
    BY <1>0, <1>5, <2>1 DEF Product
  <2> QED BY <1>0, <2>1, <2>3, <2>4, <2>5 DEF OrOverflow
<1>6. CASE a < 0 /\ b > 0
  <2> DEFINE k == Largest \div b
  <2>1. k \in Nat /\ Quotient(-Largest, b) = -k
    BY <1>0, <1>6, Division DEF Quotient, Magnitude, Largest, IntWord
  <2>2. /\ a < -k - 1 => b * a < Smallest
        /\ a >= -k - 1 => b * a + b >= -Largest
    BY <1>6, NegativeProduct
  <2> HIDE DEF k
  <2>3. a * b = b * a
    BY <1>0
  <2>4. a < -k - 1 => ~Fits(a * b)
    BY <1>0, <2>2, <2>3 DEF Fits
  <2>5. a >= -k - 1 => JustBelow(a, b)
    BY <1>0, <1>6, <2>1, <2>2, <2>3 DEF JustBelow, Largest
  <2>6. Product(a, b) = IF a < -k - 1 THEN Overflow ELSE Answer(Wrapped(a * b))
    BY <1>0, <1>6, <2>1 DEF Product
  <2> QED BY <1>0, <2>1, <2>4, <2>5, <2>6 DEF OrOverflow
<1> QED BY <1>0, <1>2, <1>3, <1>4, <1>5, <1>6
-----------------------------------------------------------------------------
(* Division.  C truncates; the remainder has the sign of the dividend.     *)

(* The remainder is smaller than the divisor.                              *)
LEMMA Truncated ==
  ASSUME NEW a \in Int, NEW b \in Int, b # 0
  PROVE  /\ Quotient(a, b) \in Int /\ Remainder(a, b) \in Int
         /\ Remainder(a, b) = a - b * Quotient(a, b)
         /\ a >= 0 => 0 <= Remainder(a, b) /\ Remainder(a, b) < Magnitude(b)
         /\ a < 0 => -Magnitude(b) < Remainder(a, b) /\ Remainder(a, b) <= 0
<1> DEFINE m == Magnitude(a)  d == Magnitude(b)  k == m \div d
<1>1. m \in Nat /\ d \in Nat /\ d > 0
  BY DEF Magnitude
<1>2. k \in Nat /\ d * k <= m /\ m < d * k + d
  BY <1>1, Division
<1>3. Quotient(a, b) = IF (a < 0) = (b < 0) THEN k ELSE -k
  BY <1>2 DEF Quotient
<1> HIDE DEF k
<1>4. Quotient(a, b) \in Int
  BY <1>2, <1>3
<1>5. CASE b > 0
  BY <1>2, <1>3, <1>4, <1>5 DEF Remainder, Magnitude
<1>6. CASE b < 0
  BY <1>2, <1>3, <1>4, <1>6 DEF Remainder, Magnitude
<1> QED BY <1>5, <1>6

(* There is one such q.                                                    *)
LEMMA FloorUnique ==
  ASSUME NEW a \in Int, NEW b \in Int, b # 0, NEW p \in Int, NEW q \in Int,
         Floors(a, b, p), Floors(a, b, q)
  PROVE  p = q
<1>1. CASE b > 0
  <2>1. -b < b * (p - q) /\ b * (p - q) < b
    BY <1>1 DEF Floors
  <2> QED BY <1>1, <2>1, Below
<1>2. CASE b < 0
  <2>1. b < (-b) * (p - q) /\ (-b) * (p - q) < -b
    BY <1>2 DEF Floors
  <2>2. p - q = 0
    BY <1>2, <2>1, Below
  <2> QED BY <2>2
<1> QED BY <1>1, <1>2

(* The only quotient of two words that is not a word.                      *)
LEMMA FloorFits ==
  ASSUME NEW a \in IntWord, NEW b \in IntWord, b # 0, NEW q \in Int, Floors(a, b, q)
  PROVE  Fits(q) <=> ~(a = Smallest /\ b = -1)
<1> USE Limits
<1>0. a \in Int /\ b \in Int /\ -IntLimit <= a /\ a < IntLimit
  BY DEF IntWord, Largest, Smallest
<1>1. ASSUME NEW d \in Nat, d > 0 PROVE IntLimit <= d * IntLimit
  <2>1. IntLimit * 1 <= IntLimit * d
    BY <1>1, Scaled
  <2> QED BY <1>1, <2>1
<1>2. CASE b > 0
  <2>1. ASSUME q >= IntLimit PROVE FALSE
    <3>1. b * IntLimit <= b * q BY <1>0, <1>2, <2>1, Scaled
    <3> QED BY <1>0, <1>1, <1>2, <3>1 DEF Floors
  <2>2. ASSUME q + 1 <= -IntLimit PROVE FALSE
    <3>1. b * (q + 1) <= b * (-IntLimit) BY <1>0, <1>2, <2>2, Scaled
    <3>2. IntLimit <= b * IntLimit BY <1>0, <1>1, <1>2
    <3> QED BY <1>0, <1>2, <3>1, <3>2 DEF Floors
  <2> QED BY <1>2, <2>1, <2>2 DEF Fits, Largest, Smallest
<1>3. CASE b < 0
  <2> DEFINE d == -b
  <2>1. d \in Nat /\ d > 0 /\ b = -d
    BY <1>0, <1>3
  <2> HIDE DEF d
  <2>2. d * q <= -a /\ -a < d * (q + 1)
    BY <1>0, <1>3, <2>1 DEF Floors
  <2>3. ASSUME q >= IntLimit PROVE a = Smallest /\ b = -1
    <3>1. d * IntLimit <= d * q BY <2>1, <2>3, Scaled
    <3>2. IntLimit <= d * IntLimit BY <1>1, <2>1
    <3>3. a = -IntLimit BY <1>0, <2>1, <2>2, <3>1, <3>2
    <3>4. d <= 1
      <4>1. ASSUME d >= 2 PROVE FALSE
        <5>1. IntLimit * 2 <= IntLimit * d BY <2>1, <4>1, Scaled
        <5> QED BY <2>1, <2>2, <3>1, <3>3, <5>1
      <4> QED BY <2>1, <4>1
    <3> QED BY <2>1, <3>3, <3>4 DEF Smallest
  <2>4. ASSUME q + 1 <= -IntLimit PROVE FALSE
    <3>1. d * (q + 1) <= d * (-IntLimit) BY <2>1, <2>4, Scaled
    <3>2. IntLimit <= d * IntLimit BY <1>1, <2>1
    <3> QED BY <1>0, <2>1, <2>2, <3>1, <3>2
  <2>5. ASSUME a = Smallest, b = -1 PROVE q >= IntLimit
    BY <2>1, <2>2, <2>5 DEF Smallest
  <2> QED BY <2>3, <2>4, <2>5 DEF Fits, Largest, Smallest
<1> QED BY <1>0, <1>2, <1>3

(* Division rounds down, and the remainder goes with it (vm.c:600-650).    *)
THEOREM DivisionExact ==
  ASSUME NEW a \in IntWord, NEW b \in IntWord, b # 0, NEW q \in Int, Floors(a, b, q)
  PROVE  /\ FloorDivide(a, b) = OrOverflow(q)
         /\ Modulo(a, b) = IF Fits(q) THEN Answer(a - b * q) ELSE Overflow
<1> DEFINE t == Quotient(a, b)  r == Remainder(a, b)  down == RoundedDown(a, b)
           f == t - IF down THEN 1 ELSE 0
<1>0. a \in Int /\ b \in Int
  BY Limits DEF IntWord
<1>1. /\ t \in Int /\ r \in Int /\ r = a - b * t
      /\ a >= 0 => 0 <= r /\ r < Magnitude(b)
      /\ a < 0 => -Magnitude(b) < r /\ r <= 0
  BY <1>0, Truncated
<1>2. down <=> r # 0 /\ ~((a < 0) <=> (b < 0))
  BY <1>0 DEF RoundedDown
<1>3. FloorDivide(a, b) = IF a = Smallest /\ b = -1 THEN Overflow ELSE Answer(f)
  BY DEF FloorDivide, Divided
<1>4. Modulo(a, b) = IF a = Smallest /\ b = -1 THEN Overflow
                     ELSE Answer(r + IF down THEN b ELSE 0)
  BY DEF Modulo, Divided
<1> HIDE DEF t, r, down
<1>5. f \in Int /\ a - b * f = r + IF down THEN b ELSE 0
  BY <1>0, <1>1
<1>6. Floors(a, b, f)
  <2> HIDE DEF f
  <2>1. CASE b > 0
    BY <1>0, <1>1, <1>2, <1>5, <2>1 DEF Floors, Magnitude
  <2>2. CASE b < 0
    BY <1>0, <1>1, <1>2, <1>5, <2>2 DEF Floors, Magnitude
  <2> QED BY <1>0, <2>1, <2>2
<1> HIDE DEF f
<1>7. f = q
  BY <1>0, <1>5, <1>6, FloorUnique
<1> QED BY <1>3, <1>4, <1>5, <1>7, FloorFits DEF OrOverflow

(* The quotient rounded down, which is what RoundedQuotient picks.         *)
LEMMA RoundedIs ==
  ASSUME NEW a \in IntWord, NEW b \in IntWord, b # 0
  PROVE  RoundedQuotient(a, b) \in Int /\ Floors(a, b, RoundedQuotient(a, b))
<1> USE Limits
<1> DEFINE t == Quotient(a, b)
           q == IF \/ b > 0 /\ Remainder(a, b) >= 0
                   \/ b < 0 /\ Remainder(a, b) <= 0 THEN t ELSE t - 1
<1>0. a \in Int /\ b \in Int
  BY DEF IntWord
<1>1. /\ t \in Int /\ Remainder(a, b) \in Int /\ Remainder(a, b) = a - b * t
      /\ a >= 0 => 0 <= Remainder(a, b) /\ Remainder(a, b) < Magnitude(b)
      /\ a < 0 => -Magnitude(b) < Remainder(a, b) /\ Remainder(a, b) <= 0
  BY <1>0, Truncated
<1> HIDE DEF t
<1>2. q \in Int
  BY <1>1
<1>3. Floors(a, b, q)
  <2>1. a - b * (t - 1) = Remainder(a, b) + b
    BY <1>0, <1>1
  <2>2. CASE b > 0
    BY <1>0, <1>1, <2>1, <2>2 DEF Floors, Magnitude
  <2>3. CASE b < 0
    BY <1>0, <1>1, <2>1, <2>3 DEF Floors, Magnitude
  <2> QED BY <1>0, <2>2, <2>3
<1> HIDE DEF q
<1>4. Fits(q) \/ q = IntLimit
  <2>1. CASE a = Smallest /\ b = -1
    <3>1. Floors(a, b, IntLimit)
      BY <2>1 DEF Floors, Smallest
    <3> QED BY <1>0, <1>2, <1>3, <3>1, FloorUnique
  <2>2. CASE ~(a = Smallest /\ b = -1)
    BY <1>2, <1>3, <2>2, FloorFits
  <2> QED BY <2>1, <2>2
<1>5. q \in (-2 * IntLimit)..(2 * IntLimit)
  BY <1>2, <1>4 DEF Fits, Smallest, Largest
<1>6. RoundedQuotient(a, b) \in (-2 * IntLimit)..(2 * IntLimit) /\ Floors(a, b, RoundedQuotient(a, b))
  BY <1>3, <1>5 DEF RoundedQuotient
<1> QED BY <1>6

-----------------------------------------------------------------------------
(* Iteration over a range.                                                 *)

(* A word is followed by a word, by what it wraps to where it must.        *)
LEMMA WrappedWord ==
  ASSUME NEW n \in Int
  PROVE  Wrapped(n) \in IntWord
<1>1. 2 * IntLimit \in Nat /\ 2 * IntLimit > 0 /\ n + IntLimit \in Int
  BY Limits
<1>2. (n + IntLimit) % (2 * IntLimit) \in 0..(2 * IntLimit - 1)
  <2> DEFINE d == 2 * IntLimit  m == n + IntLimit
  <2> HIDE DEF d, m
  <2>1. d \in Nat /\ d > 0 /\ m \in Int => m % d \in 0..(d - 1)
    OBVIOUS
  <2> QED BY <1>1, <2>1 DEF d, m
<1> QED BY <1>2, Limits DEF Wrapped, IntWord, Largest, Smallest

(* A range is past its end within as many steps as there are words, and    *)
(* its length is the first of them; up to there its numbers are words.     *)
LEMMA RangeEnds ==
  ASSUME NEW start \in IntWord, NEW stop \in IntWord, NEW step \in IntWord, step # 0
  PROVE  LET n == RangeLength(start, stop, step)
         IN /\ n \in 0..(2 * IntLimit)
            /\ ~HasNext(start + n * step, stop, step)
            /\ \A k \in 0..(n - 1) : HasNext(start + k * step, stop, step)
            /\ \A k \in 0..(n - 1) : start + k * step \in IntWord
<1> USE Limits
<1>0. /\ start \in Int /\ -IntLimit <= start /\ start < IntLimit
      /\ stop \in Int /\ -IntLimit <= stop /\ stop < IntLimit
      /\ step \in Int
  BY DEF IntWord, Largest, Smallest
<1> DEFINE L == 2 * IntLimit
           Ends == {k \in 0..L : ~HasNext(start + k * step, stop, step)}
           n == RangeLength(start, stop, step)
<1>1. L \in Ends
  <2>1. CASE step > 0
    <3>1. L * 1 <= L * step
      BY <1>0, <2>1, Scaled
    <3> QED BY <1>0, <2>1, <3>1 DEF HasNext
  <2>2. CASE step < 0
    <3>1. L * step <= L * (-1)
      BY <1>0, <2>2, Scaled
    <3> QED BY <1>0, <2>2, <3>1 DEF HasNext
  <2> QED BY <1>0, <2>1, <2>2
<1>2. PICK k \in Ends : \A j \in Ends : k <= j
  <2>1. Ends \in SUBSET Nat
    BY <1>0
  <2> HIDE DEF Ends
  <2> QED BY <1>1, <2>1, LeastExists
<1>3. k \in 0..L /\ ~HasNext(start + k * step, stop, step)
  OBVIOUS
<1>4. \A j \in 0..(k - 1) : HasNext(start + j * step, stop, step)
  <2>1. \A j \in 0..(k - 1) : j \in 0..L /\ j < k
    BY <1>3
  <2> QED BY <1>2, <2>1
<1>5. /\ n \in 0..L
      /\ ~HasNext(start + n * step, stop, step)
      /\ \A j \in 0..(n - 1) : HasNext(start + j * step, stop, step)
  BY <1>3, <1>4 DEF RangeLength
<1> HIDE DEF n, Ends
<1>6. ASSUME NEW j \in 0..(n - 1)  PROVE start + j * step \in IntWord
  <2>1. j \in Nat /\ HasNext(start + j * step, stop, step) /\ j * step \in Int
    BY <1>0, <1>5
  <2>2. CASE step > 0
    <3>1. j * 0 <= j * step
      BY <1>0, <2>1, <2>2, Scaled
    <3> QED BY <1>0, <2>1, <2>2, <3>1 DEF HasNext, IntWord, Largest, Smallest
  <2>3. CASE step < 0
    <3>1. j * step <= j * 0
      BY <1>0, <2>1, <2>3, Scaled
    <3> QED BY <1>0, <2>1, <2>3, <3>1 DEF HasNext, IntWord, Largest, Smallest
  <2> QED BY <1>0, <2>2, <2>3
<1> QED BY <1>5, <1>6 DEF n

(* The equation of the function that Stepped defines.                      *)
Counting(start, step, limit, current) ==
  current = [i \in 0..limit |-> IF i = 0 THEN start ELSE Wrapped(current[i - 1] + step)]

LEMMA CountingExists ==
  ASSUME NEW start \in IntWord, NEW step \in IntWord, NEW limit \in Nat
  PROVE  \E current : Counting(start, step, limit, current)
<1> DEFINE F == [q \in Int \X Nat |-> Wrapped(q[1] + step)]
<1>1. F \in [Int \X Nat -> Int] /\ start \in Int
  BY WrappedWord, Limits DEF IntWord
<1>2. PICK g \in [0..limit -> Int] : Repeats(F, start, limit, g)
  BY <1>1, Repeated
<1>3. ASSUME NEW i \in 0..limit
      PROVE  g[i] = IF i = 0 THEN start ELSE Wrapped(g[i - 1] + step)
  <2>1. CASE i = 0
    BY <1>2, <2>1 DEF Repeats
  <2>2. CASE i # 0
    <3>1. i \in 1..limit /\ i - 1 \in 0..limit /\ i \in Nat /\ g[i - 1] \in Int
      BY <1>2, <2>2
    <3>2. <<g[i - 1], i>> \in Int \X Nat
      BY <3>1
    <3>3. F[<<g[i - 1], i>>] = Wrapped(g[i - 1] + step)
      BY <3>2
    <3> HIDE DEF F
    <3> QED BY <1>2, <2>2, <3>1, <3>3 DEF Repeats
  <2> QED BY <2>1, <2>2
<1>4. g = [i \in 0..limit |-> g[i]]
  OBVIOUS
<1> QED BY <1>3, <1>4 DEF Counting

(* The values of the loop, counted up to the first that has no next.       *)
StepsOf(start, stop, step, limit, current, count) ==
  /\ current[0] = start
  /\ \A i \in 1..limit : current[i] = Wrapped(current[i - 1] + step)
  /\ count \in 0..limit
  /\ \A i \in 0..(count - 1) : HasNext(current[i], stop, step)
  /\ count < limit => ~HasNext(current[count], stop, step)
  /\ Stepped(start, stop, step, limit) = [i \in 1..count |-> current[i - 1]]

LEMMA SteppedIs ==
  ASSUME NEW start \in IntWord, NEW stop, NEW step \in IntWord, NEW limit \in Nat
  PROVE  \E current, count : StepsOf(start, stop, step, limit, current, count)
<1> DEFINE current == CHOOSE g : Counting(start, step, limit, g)
           ended == {i \in 0..limit : ~HasNext(current[i], stop, step)}
           count == IF ended = {} THEN limit ELSE CHOOSE i \in ended : \A j \in ended : i <= j
<1>1. Counting(start, step, limit, current)
  BY CountingExists
<1>2. Stepped(start, stop, step, limit) = [i \in 1..count |-> current[i - 1]]
  BY DEF Stepped, Counting
<1> HIDE DEF current
<1>3. current[0] = start /\ \A i \in 1..limit : current[i] = Wrapped(current[i - 1] + step)
  BY <1>1 DEF Counting
<1>4. ended # {} => count \in ended /\ \A j \in ended : count <= j
  <2>1. ended \in SUBSET Nat
    OBVIOUS
  <2>2. ended # {} => \E i \in ended : \A j \in ended : i <= j
    BY <2>1, LeastExists
  <2> HIDE DEF ended
  <2> QED BY <2>2
<1>5. count \in 0..limit
  BY <1>4
<1>6. ASSUME NEW i \in 0..(count - 1)  PROVE HasNext(current[i], stop, step)
  <2>1. i \in 0..limit /\ i < count
    BY <1>5
  <2>2. i \in ended => count <= i
    BY <1>4
  <2> HIDE DEF count
  <2> QED BY <1>5, <2>1, <2>2
<1>7. count < limit => ~HasNext(current[count], stop, step)
  <2>1. ended = {} => count = limit
    OBVIOUS
  <2> HIDE DEF count
  <2> QED BY <1>4, <1>5, <2>1
<1> HIDE DEF count
<1>8. StepsOf(start, stop, step, limit, current, count)
  BY <1>2, <1>3, <1>5, <1>6, <1>7 DEF StepsOf
<1> QED BY <1>8

(* A loop visits the numbers of its range, in order; it visits no other if *)
(* the number after the last one is a word (range.c:57-86).                *)
THEOREM RangeExact ==
  ASSUME NEW start \in IntWord, NEW stop \in IntWord, NEW step \in IntWord, step # 0
  PROVE  RangeIsExact(start, stop, step)
<1> USE Limits
<1> DEFINE L == 2 * IntLimit
           n == RangeLength(start, stop, step)
           numbers == InRange(start, stop, step)
           steps == Stepped(start, stop, step, L)
<1>0. L \in Nat /\ L > 0 /\ start \in Int /\ step \in Int
  BY DEF IntWord
<1>1. /\ n \in 0..L
      /\ ~HasNext(start + n * step, stop, step)
      /\ \A k \in 0..(n - 1) : HasNext(start + k * step, stop, step)
      /\ \A k \in 0..(n - 1) : start + k * step \in IntWord
  BY RangeEnds
<1>2. PICK current, count : StepsOf(start, stop, step, L, current, count)
  BY <1>0, SteppedIs
<1>3. /\ current[0] = start
      /\ \A i \in 1..L : current[i] = Wrapped(current[i - 1] + step)
      /\ count \in 0..L
      /\ \A i \in 0..(count - 1) : HasNext(current[i], stop, step)
      /\ count < L => ~HasNext(current[count], stop, step)
      /\ steps = [i \in 1..count |-> current[i - 1]]
  BY <1>2 DEF StepsOf
<1>4. numbers = [k \in 1..n |-> start + (k - 1) * step]
  BY DEF InRange
<1> HIDE DEF n, numbers, steps
(* As long as the numbers are words nothing wraps.                         *)
<1>5. ASSUME NEW k \in 0..L, \A j \in 0..k : start + j * step \in IntWord
      PROVE  current[k] = start + k * step
  <2> DEFINE S == {j \in Nat : j <= k => current[j] = start + j * step}
  <2>1. 0 \in S
    BY <1>0, <1>3
  <2>2. ASSUME NEW j \in S  PROVE j + 1 \in S
    <3>1. CASE j + 1 <= k
      <4>1. j + 1 \in 1..L /\ (j + 1) - 1 = j /\ j + 1 \in 0..k /\ j <= k
        BY <1>0, <3>1
      <4>2. current[j + 1] = Wrapped(current[j] + step) /\ current[j] = start + j * step
        BY <1>3, <4>1
      <4>3. current[j] + step = start + (j + 1) * step
        BY <1>0, <4>2
      <4>4. start + (j + 1) * step \in IntWord
        BY <1>5, <4>1
      <4> QED BY <4>2, <4>3, <4>4, WrappedFits
    <3> QED BY <3>1
  <2> HIDE DEF S
  <2>3. S \in SUBSET Nat
    BY DEF S
  <2>4. S = Nat
    BY <2>1, <2>2, <2>3, Induction
  <2>5. k \in S
    BY <1>0, <2>4
  <2> QED BY <1>0, <2>5 DEF S
<1>6. ASSUME NEW k \in 0..(n - 1)  PROVE current[k] = start + k * step
  <2>1. k \in 0..L /\ \A j \in 0..k : j \in 0..(n - 1)
    BY <1>0, <1>1
  <2> QED BY <1>1, <1>5, <2>1
<1>7. n <= count
  <2>1. ASSUME count < n  PROVE FALSE
    <3>1. count \in 0..(n - 1) /\ count < L
      BY <1>0, <1>1, <1>3, <2>1
    <3> QED BY <1>1, <1>3, <1>6, <3>1
  <2> QED BY <1>1, <1>3, <2>1
<1>8. numbers \in Seq(Int) /\ Len(numbers) = n /\ steps \in Seq({current[i] : i \in 0..L}) /\ Len(steps) = count
  <2>1. n \in Nat /\ count \in Nat
    BY <1>1, <1>3
  <2>2. \A k \in 1..n : start + (k - 1) * step \in Int
    BY <1>0, <2>1
  <2>3. numbers \in [1..n -> Int]
    BY <1>4, <2>2
  <2>4. numbers \in Seq(Int)
    BY <2>1, <2>3
  <2>5. Len(numbers) = n
    BY <1>4, <2>1, <2>4
  <2> DEFINE V == {current[i] : i \in 0..L}
  <2>6. \A i \in 1..count : current[i - 1] \in V
    BY <1>0, <1>3
  <2> HIDE DEF V
  <2>7. steps \in [1..count -> V]
    BY <1>3, <2>6
  <2>8. steps \in Seq(V) /\ Len(steps) = count
    BY <2>1, <2>7, <1>3
  <2> QED BY <2>4, <2>5, <2>8 DEF V
<1>9. \A k \in 1..n : steps[k] = numbers[k]
  <2> SUFFICES ASSUME NEW k \in 1..n  PROVE steps[k] = numbers[k]
    OBVIOUS
  <2>1. k - 1 \in 0..(n - 1) /\ k \in 1..count
    BY <1>1, <1>3, <1>7
  <2> QED BY <1>3, <1>4, <1>6, <2>1
<1>10. SubSeq(steps, 1, n) = numbers
  <2>1. n \in Nat /\ count \in Nat /\ n <= count
    BY <1>1, <1>3, <1>7
  <2>2. SubSeq(steps, 1, n) = [k \in 1..n |-> steps[k]]
    BY <1>8, <2>1
  <2> QED BY <1>4, <1>9, <2>2
<1>11. ASSUME n = 0 \/ Fits(numbers[n] + step)  PROVE steps = numbers
  <2>1. start + n * step \in IntWord
    <3>1. CASE n = 0
      BY <1>0, <3>1
    <3>2. CASE n # 0
      <4>1. n \in 1..n /\ n \in Int
        BY <1>1, <3>2
      <4>2. numbers[n] + step = start + n * step
        BY <1>0, <1>4, <4>1
      <4> QED BY <1>0, <1>11, <3>2, <4>1, <4>2 DEF Fits, IntWord
    <3> QED BY <3>1, <3>2
  <2>2. \A j \in 0..n : start + j * step \in IntWord
    <3>1. \A j \in 0..n : j = n \/ j \in 0..(n - 1)
      BY <1>1
    <3> QED BY <1>1, <2>1, <3>1
  <2>3. current[n] = start + n * step
    BY <1>1, <1>5, <2>2
  <2>4. count = n
    <3>1. ASSUME n < count  PROVE FALSE
      <4>1. n \in 0..(count - 1)
        BY <1>1, <1>3, <3>1
      <4> QED BY <1>1, <1>3, <2>3, <4>1
    <3> QED BY <1>1, <1>3, <1>7, <3>1
  <2>5. \A k \in 1..n : current[k - 1] = start + (k - 1) * step
    <3>1. \A k \in 1..n : k - 1 \in 0..(n - 1)
      BY <1>1
    <3> QED BY <1>6, <3>1
  <2> QED BY <1>3, <1>4, <2>4, <2>5
<1> QED BY <1>8, <1>10, <1>11 DEF RangeIsExact, numbers, steps

-----------------------------------------------------------------------------
(* All of them together.                                                   *)

Typed == operands \in Seq(IntWord)

LEMMA TypedAlways == WordsSpec => []Typed
<1>1. NoOperands => Typed
  BY DEF NoOperands, Typed
<1>2. Typed /\ [TakeOperand]_operands => Typed'
  BY DEF TakeOperand, Typed
<1> QED BY <1>1, <1>2, PTL DEF WordsSpec

(* For words of every size, what the interpreter computes of them is what  *)
(* the integers give, or is reported (vm.c:375-406, 600-650, 1284-1300,    *)
(* range.c:57-86).                                                         *)
THEOREM WordsKept == WordsSpec => []WordsExact
<1>1. Typed => WordsExact
  <2> SUFFICES ASSUME Typed  PROVE WordsExact
    OBVIOUS
  <2>1. \A k \in 1..Len(operands) : operands[k] \in IntWord
    BY DEF Typed
  <2>2. Len(operands) = 1 => Negation(operands[1]) = OrOverflow(-operands[1])
    BY <2>1, NegationExact
  <2>3. ASSUME Len(operands) = 2
        PROVE  /\ Sum2(operands[1], operands[2]) = OrOverflow(operands[1] + operands[2])
               /\ Difference(operands[1], operands[2]) = OrOverflow(operands[1] - operands[2])
               /\ ProductIsExact(operands[1], operands[2])
               /\ DivisionIsExact(operands[1], operands[2])
    <3> DEFINE a == operands[1]  b == operands[2]
    <3>1. a \in IntWord /\ b \in IntWord
      BY <2>1, <2>3
    <3> HIDE DEF a, b
    <3>2. ProductIsExact(a, b)
      BY <3>1, ProductExact DEF ProductIsExact
    <3>3. DivisionIsExact(a, b)
      <4>1. CASE b = 0
        BY <4>1 DEF DivisionIsExact, FloorDivide, Modulo, Divided
      <4>2. CASE b # 0
        <5> DEFINE q == RoundedQuotient(a, b)
        <5>1. q \in Int /\ Floors(a, b, q)
          BY <3>1, <4>2, RoundedIs
        <5> HIDE DEF q
        <5>2. /\ FloorDivide(a, b) = OrOverflow(q)
              /\ Modulo(a, b) = IF Fits(q) THEN Answer(a - b * q) ELSE Overflow
          BY <3>1, <4>2, <5>1, DivisionExact
        <5> QED BY <4>2, <5>2 DEF DivisionIsExact, q
      <4> QED BY <4>1, <4>2
    <3> QED BY <3>1, <3>2, <3>3, AdditionExact, SubtractionExact DEF a, b
  <2>4. Len(operands) = 3 /\ operands[3] # 0 => RangeIsExact(operands[1], operands[2], operands[3])
    BY <2>1, RangeExact
  <2> QED BY <2>2, <2>3, <2>4 DEF WordsExact
<1> QED BY <1>1, TypedAlways, PTL

-----------------------------------------------------------------------------
(* Lemmas about sets of numbers.                                           *)

LEMMA LeastOf ==
  ASSUME NEW S \in SUBSET Int, NEW x \in S, \A m \in S : x <= m
  PROVE  Least(S) = x
<1>1. Least(S) \in S /\ \A m \in S : Least(S) <= m
  <2>1. \E k \in S : \A m \in S : k <= m
    OBVIOUS
  <2> QED BY <2>1 DEF Least
<1>2. Least(S) <= x /\ x <= Least(S)
  BY <1>1
<1>3. Least(S) \in Int /\ x \in Int
  BY <1>1
<1> QED BY <1>2, <1>3

LEMMA GreatestOf ==
  ASSUME NEW S \in SUBSET Int, NEW x \in S, \A m \in S : x >= m
  PROVE  Greatest(S) = x
<1>1. Greatest(S) \in S /\ \A m \in S : Greatest(S) >= m
  <2>1. \E k \in S : \A m \in S : k >= m
    OBVIOUS
  <2> QED BY <2>1 DEF Greatest
<1>2. Greatest(S) >= x /\ x >= Greatest(S)
  BY <1>1
<1>3. Greatest(S) \in Int /\ x \in Int
  BY <1>1
<1> QED BY <1>2, <1>3

LEMMA NoneFound == Least({-1}) = -1
<1>1. {-1} \in SUBSET Int /\ -1 \in {-1} /\ \A m \in {-1} : -1 <= m
  OBVIOUS
<1> QED BY <1>1, LeastOf

LEMMA LeastFound ==
  ASSUME NEW S \in SUBSET Nat, S # {}
  PROVE  Least(S) \in S /\ \A m \in S : Least(S) <= m
<1>1. \E x \in S : \A m \in S : x <= m
  BY LeastExists
<1> QED BY <1>1 DEF Least

LEMMA GreatestFound ==
  ASSUME NEW S \in SUBSET Nat, S # {}, NEW n \in Nat, \A m \in S : m <= n
  PROVE  Greatest(S) \in S /\ \A m \in S : Greatest(S) >= m
<1> DEFINE T == {n - m : m \in S}
<1>1. T \in SUBSET Nat /\ T # {}
  <2>1. \A m \in S : n - m \in Nat
    OBVIOUS
  <2> QED BY <2>1
<1>2. PICK y \in T : \A z \in T : y <= z
  BY <1>1, LeastExists
<1>3. PICK x \in S : y = n - x
  OBVIOUS
<1>4. \A m \in S : x >= m
  <2> SUFFICES ASSUME NEW m \in S  PROVE x >= m
    OBVIOUS
  <2>1. n - m \in T
    OBVIOUS
  <2>2. n - x <= n - m
    BY <1>2, <1>3, <2>1
  <2> QED BY <2>2
<1>5. \E k \in S : \A m \in S : k >= m
  BY <1>4
<1> QED BY <1>5 DEF Greatest

(* Induction from the end of an interval, and from its beginning.          *)
LEMMA Downward ==
  ASSUME NEW a \in Int, NEW b \in Int, NEW S \in SUBSET (a..b),
         \A p \in a..b : (\A q \in (p + 1)..b : q \in S) => p \in S
  PROVE  S = a..b
<1> SUFFICES ASSUME (a..b) \ S # {}  PROVE FALSE
  OBVIOUS
<1> DEFINE T == {b - p : p \in (a..b) \ S}
<1>1. T \in SUBSET Nat /\ T # {}
  OBVIOUS
<1>2. PICK y \in T : \A z \in T : y <= z
  BY <1>1, LeastExists
<1>3. PICK x \in (a..b) \ S : y = b - x
  OBVIOUS
<1>4. ASSUME NEW q \in (x + 1)..b  PROVE q \in S
  <2> SUFFICES ASSUME q \notin S  PROVE FALSE
    OBVIOUS
  <2>1. q \in (a..b) \ S
    OBVIOUS
  <2>2. b - x <= b - q
    BY <1>2, <1>3, <2>1
  <2> QED BY <2>2
<1> QED BY <1>3, <1>4

LEMMA Upward ==
  ASSUME NEW a \in Int, NEW b \in Int, NEW S \in SUBSET (a..b),
         \A p \in a..b : (p > a => p - 1 \in S) => p \in S
  PROVE  S = a..b
<1> SUFFICES ASSUME (a..b) \ S # {}  PROVE FALSE
  OBVIOUS
<1> DEFINE T == {p - a : p \in (a..b) \ S}
<1>1. T \in SUBSET Nat /\ T # {}
  OBVIOUS
<1>2. PICK y \in T : \A z \in T : y <= z
  BY <1>1, LeastExists
<1>3. PICK x \in (a..b) \ S : y = x - a
  OBVIOUS
<1>4. ASSUME x > a  PROVE x - 1 \in S
  <2> SUFFICES ASSUME x - 1 \notin S  PROVE FALSE
    OBVIOUS
  <2>1. x - 1 \in (a..b) \ S
    BY <1>4
  <2>2. x - a <= (x - 1) - a
    BY <1>2, <1>3, <2>1
  <2> QED BY <2>2
<1> QED BY <1>3, <1>4

-----------------------------------------------------------------------------
(* The window, and the places in it: what there is to be found from a on,  *)
(* and what a search finds first if there is nothing.                      *)
Within(s, sub, a, b) == {p \in a..(b - Len(sub)) : MatchAt(s, sub, p)}
OrNone(places) == places \cup IF places = {} THEN {-1} ELSE {}

LEMMA WindowIs ==
  ASSUME NEW C, NEW s \in Seq(C), NEW start \in {None} \cup Int, NEW end \in {None} \cup Int
  PROVE  LET w == Window(s, start, end)
         IN w.start \in Nat /\ w.end \in Nat /\ w.start <= w.end /\ w.end <= Len(s)
<1>1. Len(s) \in Nat
  OBVIOUS
<1> QED BY <1>1, SearchAssumption DEF Window, ClampIndex

LEMMA PlacesWithin ==
  ASSUME NEW C, NEW s \in Seq(C), NEW sub \in Seq(C), sub # <<>>,
         NEW start \in {None} \cup Int, NEW end \in {None} \cup Int
  PROVE  LET w == Window(s, start, end)
         IN Places(s, sub, start, end) = Within(s, sub, w.start, w.end)
<1> DEFINE w == Window(s, start, end)  n == Len(sub)  l == Len(s)
<1>1. n \in Nat /\ n > 0 /\ l \in Nat
  OBVIOUS
<1>2. w.start = ClampIndex(IF start = None THEN 0 ELSE start, l)
  BY DEF Window
<1>3. ASSUME NEW p \in 0..(l - n)
      PROVE  (start # None => p >= Offset(s, start)) <=> p >= w.start
  <2> HIDE DEF w
  <2>1. CASE start = None
    BY <1>1, <1>2, <2>1 DEF ClampIndex
  <2>2. CASE start # None
    BY <1>1, <1>2, <2>2 DEF ClampIndex, Offset
  <2> QED BY <2>1, <2>2
<1> DEFINE b == ClampIndex(IF end = None THEN l ELSE end, l)
<1>4. w.end = IF b < w.start THEN w.start ELSE b
  BY DEF Window
<1>5. ASSUME NEW p \in 0..(l - n)
      PROVE  (end # None => p + n <= Offset(s, end)) <=> p + n <= b
  <2>1. CASE end = None
    BY <1>1, <2>1 DEF ClampIndex
  <2>2. CASE end # None
    BY <1>1, <2>2 DEF ClampIndex, Offset
  <2> QED BY <2>1, <2>2
<1>6. b \in 0..l /\ w.start \in 0..l
  BY <1>1, <1>2 DEF ClampIndex
<1> HIDE DEF w, b
<1>7. ASSUME NEW p \in Int
      PROVE  p \in w.start..(w.end - n) <=> p \in 0..(l - n) /\ p >= w.start /\ p + n <= b
  BY <1>1, <1>4, <1>6
<1>8. \A p : p \in Places(s, sub, start, end) <=>
             p \in Int /\ MatchAt(s, sub, p) /\ p \in 0..(l - n) /\ p >= w.start /\ p + n <= b
  <2>1. Places(s, sub, start, end)
          = {p \in 0..(l - n) : /\ MatchAt(s, sub, p)
                                /\ start # None => p >= Offset(s, start)
                                /\ end # None => p + n <= Offset(s, end)}
    BY DEF Places
  <2>2. Places(s, sub, start, end) = {p \in 0..(l - n) : MatchAt(s, sub, p) /\ p >= w.start /\ p + n <= b}
    BY <1>3, <1>5, <2>1
  <2>3. \A p \in 0..(l - n) : p \in Int
    OBVIOUS
  <2> QED BY <2>2, <2>3
<1>9. \A p : p \in Within(s, sub, w.start, w.end) <=>
             p \in Int /\ MatchAt(s, sub, p) /\ p \in 0..(l - n) /\ p >= w.start /\ p + n <= b
  <2>1. \A p : p \in Within(s, sub, w.start, w.end) <=> p \in Int /\ p \in w.start..(w.end - n) /\ MatchAt(s, sub, p)
    BY <1>1, <1>4, <1>6 DEF Within
  <2> QED BY <1>7, <2>1
<1>10. Places(s, sub, start, end) = Within(s, sub, w.start, w.end)
  BY <1>8, <1>9
<1> QED BY <1>10 DEF w

-----------------------------------------------------------------------------
(* The search forwards.                                                    *)

Scanning(s, sub, a, b, f) ==
  f = [p \in a..(b + 1) |->
         IF p + Len(sub) > b THEN -1 ELSE IF MatchAt(s, sub, p) THEN p ELSE f[p + 1]]

LEMMA FirstStep ==
  ASSUME NEW s, NEW sub, Len(sub) \in Nat \ {0}, NEW b \in Int, NEW p \in Int
  PROVE  Least(OrNone(Within(s, sub, p, b)))
           = IF p + Len(sub) > b THEN -1
             ELSE IF MatchAt(s, sub, p) THEN p ELSE Least(OrNone(Within(s, sub, p + 1, b)))
<1> DEFINE n == Len(sub)  W == Within(s, sub, p, b)
<1>1. CASE p + n > b
  <2>1. W = {}
    BY <1>1 DEF Within
  <2>2. OrNone(W) = {-1}
    BY <2>1 DEF OrNone
  <2> HIDE DEF W
  <2> QED BY <1>1, <2>2, NoneFound DEF W
<1>2. CASE ~(p + n > b) /\ MatchAt(s, sub, p)
  <2>1. p \in W /\ \A q \in W : p <= q
    BY <1>2 DEF Within
  <2>2. W \in SUBSET Int
    BY DEF Within
  <2> HIDE DEF W
  <2>3. OrNone(W) = W
    BY <2>1 DEF OrNone
  <2>4. Least(W) = p
    BY <2>1, <2>2, LeastOf
  <2> QED BY <1>2, <2>3, <2>4 DEF W
<1>3. CASE ~(p + n > b) /\ ~MatchAt(s, sub, p)
  <2>1. W = Within(s, sub, p + 1, b)
    <3>1. \A q \in p..(b - n) : q = p \/ q \in (p + 1)..(b - n)
      OBVIOUS
    <3>2. \A q \in (p + 1)..(b - n) : q \in p..(b - n)
      OBVIOUS
    <3> QED BY <1>3, <3>1, <3>2 DEF Within
  <2> QED BY <1>3, <2>1
<1> QED BY <1>1, <1>2, <1>3

LEMMA FindIs ==
  ASSUME NEW s, NEW sub, sub # <<>>, Len(sub) \in Nat \ {0},
         NEW b \in Int, NEW a \in Int, a <= b + 1
  PROVE  FindBytes(s, sub, a, b) = Least(OrNone(Within(s, sub, a, b)))
<1> DEFINE F(p) == Least(OrNone(Within(s, sub, p, b)))
           g == [p \in a..(b + 1) |-> F(p)]
           from == CHOOSE f : Scanning(s, sub, a, b, f)
<1>1. ASSUME NEW p \in a..(b + 1)
      PROVE  F(p) = IF p + Len(sub) > b THEN -1 ELSE IF MatchAt(s, sub, p) THEN p ELSE F(p + 1)
  BY FirstStep
<1>2. ASSUME NEW p \in a..(b + 1), ~(p + Len(sub) > b)  PROVE p + 1 \in a..(b + 1)
  BY <1>2
<1> HIDE DEF F
<1>3. \A p \in a..(b + 1) :
        g[p] = IF p + Len(sub) > b THEN -1 ELSE IF MatchAt(s, sub, p) THEN p ELSE g[p + 1]
  BY <1>1, <1>2
<1>4. g = [p \in a..(b + 1) |-> g[p]]
  OBVIOUS
<1> HIDE DEF g
<1>5. Scanning(s, sub, a, b, g)
  BY <1>3, <1>4 DEF Scanning
<1>6. Scanning(s, sub, a, b, from)
  BY <1>5
<1>7. FindBytes(s, sub, a, b) = from[a]
  BY DEF FindBytes, Scanning
<1> HIDE DEF from
<1>8. \A p \in a..(b + 1) :
        from[p] = IF p + Len(sub) > b THEN -1 ELSE IF MatchAt(s, sub, p) THEN p ELSE from[p + 1]
  BY <1>6 DEF Scanning
<1> DEFINE S == {p \in a..(b + 1) : from[p] = F(p)}
<1>9. ASSUME NEW p \in a..(b + 1), \A q \in (p + 1)..(b + 1) : q \in S  PROVE p \in S
  <2>1. ~(p + Len(sub) > b) => p + 1 \in (p + 1)..(b + 1)
    OBVIOUS
  <2>2. ~(p + Len(sub) > b) => from[p + 1] = F(p + 1)
    BY <1>9, <2>1
  <2> QED BY <1>1, <1>8, <2>2
<1>10. S \in SUBSET (a..(b + 1))
  OBVIOUS
<1> HIDE DEF S
<1>11. S = a..(b + 1)
  BY <1>9, <1>10, Downward
<1>12. a \in S
  BY <1>11
<1> QED BY <1>7, <1>12 DEF S, F

-----------------------------------------------------------------------------
(* The search backwards.                                                   *)

Backing(s, sub, a, b, f) ==
  f = [p \in a..b |->
         IF MatchAt(s, sub, p) THEN p ELSE IF p = a THEN -1 ELSE f[p - 1]]
Until(s, sub, a, p) == {q \in a..p : MatchAt(s, sub, q)} \cup {-1}

LEMMA LastStep ==
  ASSUME NEW s, NEW sub, NEW a \in Nat, NEW p \in Int, a <= p
  PROVE  Greatest(Until(s, sub, a, p))
           = IF MatchAt(s, sub, p) THEN p ELSE IF p = a THEN -1 ELSE Greatest(Until(s, sub, a, p - 1))
<1>1. CASE MatchAt(s, sub, p)
  <2>1. p \in Until(s, sub, a, p) /\ \A q \in Until(s, sub, a, p) : p >= q
    BY <1>1 DEF Until
  <2>2. Until(s, sub, a, p) \in SUBSET Int
    BY DEF Until
  <2> QED BY <1>1, <2>1, <2>2, GreatestOf
<1>2. CASE ~MatchAt(s, sub, p) /\ p = a
  <2>1. Until(s, sub, a, p) = {-1}
    BY <1>2 DEF Until
  <2> QED BY <1>2, <2>1, GreatestOf
<1>3. CASE ~MatchAt(s, sub, p) /\ p # a
  <2>1. \A q \in a..p : q = p \/ q \in a..(p - 1)
    OBVIOUS
  <2>2. \A q \in a..(p - 1) : q \in a..p
    OBVIOUS
  <2>3. Until(s, sub, a, p) = Until(s, sub, a, p - 1)
    BY <1>3, <2>1, <2>2 DEF Until
  <2> QED BY <1>3, <2>3
<1> QED BY <1>1, <1>2, <1>3

LEMMA RFindIs ==
  ASSUME NEW s, NEW sub, sub # <<>>, Len(sub) \in Nat \ {0},
         NEW b \in Nat, NEW a \in Nat, a <= b
  PROVE  RFindBytes(s, sub, a, b) = Greatest(Within(s, sub, a, b) \cup {-1})
<1> DEFINE F(p) == Greatest(Until(s, sub, a, p))
           g == [p \in a..b |-> F(p)]
           back == CHOOSE f : Backing(s, sub, a, b, f)
<1>1. ASSUME NEW p \in a..b
      PROVE  F(p) = IF MatchAt(s, sub, p) THEN p ELSE IF p = a THEN -1 ELSE F(p - 1)
  BY LastStep
<1>2. ASSUME NEW p \in a..b, p # a  PROVE p - 1 \in a..b
  BY <1>2
<1> HIDE DEF F
<1>3. \A p \in a..b : g[p] = IF MatchAt(s, sub, p) THEN p ELSE IF p = a THEN -1 ELSE g[p - 1]
  BY <1>1, <1>2
<1>4. g = [p \in a..b |-> g[p]]
  OBVIOUS
<1> HIDE DEF g
<1>5. Backing(s, sub, a, b, g)
  BY <1>3, <1>4 DEF Backing
<1>6. Backing(s, sub, a, b, back)
  BY <1>5
<1>7. RFindBytes(s, sub, a, b) = IF Len(sub) > b - a THEN -1 ELSE back[b - Len(sub)]
  BY DEF RFindBytes, Backing
<1> HIDE DEF back
<1>8. \A p \in a..b : back[p] = IF MatchAt(s, sub, p) THEN p ELSE IF p = a THEN -1 ELSE back[p - 1]
  BY <1>6 DEF Backing
<1> DEFINE S == {p \in a..b : back[p] = F(p)}
<1>9. ASSUME NEW p \in a..b, p > a => p - 1 \in S  PROVE p \in S
  BY <1>1, <1>8, <1>9
<1>10. S \in SUBSET (a..b)
  OBVIOUS
<1> HIDE DEF S
<1>11. S = a..b
  <2>1. \A p \in a..b : (p > a => p - 1 \in S) => p \in S
    BY <1>9
  <2>2. a \in Int /\ b \in Int
    OBVIOUS
  <2> QED BY <1>10, <2>1, <2>2, Upward
<1>12. CASE Len(sub) > b - a
  <2>1. Within(s, sub, a, b) = {}
    BY <1>12 DEF Within
  <2>2. Greatest(Within(s, sub, a, b) \cup {-1}) = -1
    BY <2>1, GreatestOf
  <2> QED BY <1>7, <1>12, <2>2
<1>13. CASE ~(Len(sub) > b - a)
  <2>1. b - Len(sub) \in S
    BY <1>11, <1>13
  <2>2. back[b - Len(sub)] = F(b - Len(sub))
    BY <2>1 DEF S
  <2>3. Until(s, sub, a, b - Len(sub)) = Within(s, sub, a, b) \cup {-1}
    BY DEF Until, Within
  <2> QED BY <1>7, <1>13, <2>2, <2>3 DEF F
<1> QED BY <1>12, <1>13

-----------------------------------------------------------------------------
(* Counting.                                                               *)

Selections(s, sub, p, b) == {P \in SUBSET Within(s, sub, p, b) : Apart(P, Len(sub))}
Most(s, sub, p, b) == Greatest({Cardinality(P) : P \in Selections(s, sub, p, b)})

LEMMA MostFound ==
  ASSUME NEW s, NEW sub, Len(sub) \in Nat, NEW p \in Int, NEW b \in Int
  PROVE  /\ \A P \in Selections(s, sub, p, b) :
              IsFiniteSet(P) /\ Cardinality(P) \in Nat /\ Cardinality(P) <= Most(s, sub, p, b)
         /\ \E P \in Selections(s, sub, p, b) : Cardinality(P) = Most(s, sub, p, b)
<1> DEFINE W == Within(s, sub, p, b)
           T == {Cardinality(P) : P \in Selections(s, sub, p, b)}
<1>1. IsFiniteSet(W)
  <2>1. IsFiniteSet(p..(b - Len(sub)))
    BY FS_Interval
  <2>2. W \in SUBSET (p..(b - Len(sub)))
    BY DEF Within
  <2> HIDE DEF W
  <2> QED BY <2>1, <2>2, FS_Subset
<1>2. ASSUME NEW P \in Selections(s, sub, p, b)
      PROVE  IsFiniteSet(P) /\ Cardinality(P) \in Nat /\ Cardinality(P) <= Cardinality(W)
  <2>1. P \in SUBSET W
    BY DEF Selections
  <2> HIDE DEF W
  <2>2. IsFiniteSet(P) /\ Cardinality(P) <= Cardinality(W)
    BY <1>1, <2>1, FS_Subset
  <2> QED BY <2>2, FS_CardinalityType
<1>3. {} \in Selections(s, sub, p, b)
  BY DEF Selections, Apart
<1>4. T \in SUBSET Nat /\ T # {} /\ \A m \in T : m <= Cardinality(W)
  BY <1>2, <1>3
<1>5. Cardinality(W) \in Nat
  BY <1>1, FS_CardinalityType
<1>6. \A P \in Selections(s, sub, p, b) : Cardinality(P) \in T
  OBVIOUS
<1>7. \A m \in T : \E P \in Selections(s, sub, p, b) : m = Cardinality(P)
  OBVIOUS
<1>8. Most(s, sub, p, b) = Greatest(T)
  BY DEF Most
<1> HIDE DEF T, W
<1>9. Greatest(T) \in T /\ \A m \in T : Greatest(T) >= m
  BY <1>4, <1>5, GreatestFound
<1>10. \A P \in Selections(s, sub, p, b) :
         IsFiniteSet(P) /\ Cardinality(P) \in Nat /\ Cardinality(P) <= Most(s, sub, p, b)
  <2> SUFFICES ASSUME NEW P \in Selections(s, sub, p, b)
               PROVE  IsFiniteSet(P) /\ Cardinality(P) \in Nat /\ Cardinality(P) <= Most(s, sub, p, b)
    OBVIOUS
  <2>1. Cardinality(P) \in Nat /\ Greatest(T) \in Nat /\ Greatest(T) >= Cardinality(P)
    BY <1>4, <1>6, <1>9
  <2> QED BY <1>2, <1>8, <2>1
<1> QED BY <1>7, <1>8, <1>9, <1>10

(* Whatever is selected, an upper bound that is reached is the most.       *)
LEMMA MostOf ==
  ASSUME NEW s, NEW sub, Len(sub) \in Nat, NEW p \in Int, NEW b \in Int, NEW n \in Nat,
         NEW P \in Selections(s, sub, p, b), Cardinality(P) = n,
         \A Q \in Selections(s, sub, p, b) : Cardinality(Q) <= n
  PROVE  Most(s, sub, p, b) = n
<1>1. PICK Q \in Selections(s, sub, p, b) : Cardinality(Q) = Most(s, sub, p, b)
  BY MostFound
<1>2. n <= Most(s, sub, p, b) /\ Most(s, sub, p, b) <= n /\ Most(s, sub, p, b) \in Nat
  BY <1>1, MostFound
<1> QED BY <1>2

(* The first place is one of the most: what else begins a selection leaves *)
(* no more room behind it.                                                 *)
LEMMA MostStep ==
  ASSUME NEW s, NEW sub, sub # <<>>, Len(sub) \in Nat \ {0},
         NEW b \in Int, NEW p \in Nat, p <= b + 1
  PROVE  LET found == FindBytes(s, sub, p, b)
         IN /\ found \in Int
            /\ ~(p + Len(sub) > b \/ found < 0) => found + Len(sub) \in (p + 1)..(b + 1)
            /\ Most(s, sub, p, b)
                 = IF p + Len(sub) > b \/ found < 0 THEN 0 ELSE 1 + Most(s, sub, found + Len(sub), b)
<1> DEFINE n == Len(sub)  W == Within(s, sub, p, b)  f == FindBytes(s, sub, p, b)
           V == Within(s, sub, f + n, b)
<1>0. n \in Nat /\ n > 0 /\ W \in SUBSET Nat
  BY DEF Within
<1>1. f = Least(OrNone(W))
  BY FindIs
<1> HIDE DEF f
<1>2. CASE W = {}
  <2>1. f = -1
    <3>1. OrNone(W) = {-1}
      BY <1>2 DEF OrNone
    <3> HIDE DEF W
    <3> QED BY <1>1, <3>1, NoneFound
  <2>2. {} \in Selections(s, sub, p, b) /\ \A Q \in Selections(s, sub, p, b) : Q = {}
    BY <1>2 DEF Selections, Apart
  <2>3. Cardinality({}) = 0
    BY FS_EmptySet
  <2>4. \A Q \in Selections(s, sub, p, b) : Cardinality(Q) <= 0
    <3> SUFFICES ASSUME NEW Q \in Selections(s, sub, p, b)  PROVE Cardinality(Q) <= 0
      OBVIOUS
    <3>1. Cardinality(Q) = 0
      BY <2>2, <2>3
    <3> QED BY <3>1
  <2>5. Most(s, sub, p, b) = 0
    BY <2>2, <2>3, <2>4, MostOf
  <2> QED BY <2>1, <2>5 DEF f
<1>3. CASE W # {}
  <2>1. f \in W /\ \A q \in W : f <= q
    <3>1. OrNone(W) = W
      BY <1>3 DEF OrNone
    <3> HIDE DEF W
    <3> QED BY <1>0, <1>1, <1>3, <3>1, LeastFound
  <2>2. f \in Nat /\ p <= f /\ f <= b - n /\ MatchAt(s, sub, f)
    BY <2>1 DEF Within
  <2>3. \A q : q \in W <=> q \in p..(b - n) /\ MatchAt(s, sub, q)
    BY DEF Within
  <2>4. \A q : q \in V <=> q \in (f + n)..(b - n) /\ MatchAt(s, sub, q)
    BY DEF Within
  <2>5. \A q : q \in V => q \in W /\ q >= f + n /\ q \in Nat
    <3> SUFFICES ASSUME NEW q, q \in V  PROVE q \in W /\ q >= f + n /\ q \in Nat
      OBVIOUS
    <3>1. q \in (f + n)..(b - n) /\ MatchAt(s, sub, q)
      BY <2>4
    <3>2. q \in p..(b - n) /\ q >= f + n /\ q \in Nat
      BY <1>0, <2>2, <3>1
    <3> QED BY <2>3, <3>1, <3>2
  <2>6. \A q \in W : q >= f + n => q \in V
    <3> SUFFICES ASSUME NEW q \in W, q >= f + n  PROVE q \in V
      OBVIOUS
    <3>1. q \in p..(b - n) /\ MatchAt(s, sub, q)
      BY <2>3
    <3>2. q \in (f + n)..(b - n)
      BY <1>0, <2>2, <3>1
    <3> QED BY <2>4, <3>1, <3>2
  <2>7. f + n \in Int /\ Len(sub) \in Nat
    BY <1>0, <2>2
  <2>8. PICK P \in Selections(s, sub, f + n, b) : Cardinality(P) = Most(s, sub, f + n, b)
    BY <2>7, MostFound
  <2>9. /\ IsFiniteSet(P) /\ Cardinality(P) \in Nat
        /\ \A Q \in Selections(s, sub, f + n, b) : Cardinality(Q) <= Cardinality(P)
    BY <2>7, <2>8, MostFound
  <2>10. P \in SUBSET V /\ Apart(P, n)
    BY DEF Selections
  <2> HIDE DEF V, W
  <2>11. P \cup {f} \in Selections(s, sub, p, b)
    <3>1. P \cup {f} \in SUBSET W
      BY <2>1, <2>5, <2>10
    <3>2. Apart(P \cup {f}, n)
      <4> SUFFICES ASSUME NEW x \in P \cup {f}, NEW y \in P \cup {f}, x < y
                   PROVE  y - x >= n
        BY DEF Apart
      <4>1. CASE x \in P /\ y \in P
        BY <2>10, <4>1 DEF Apart
      <4>2. CASE x = f /\ y \in P
        BY <1>0, <2>2, <2>5, <2>10, <4>2
      <4>3. CASE y = f /\ x \in P
        BY <1>0, <2>2, <2>5, <2>10, <4>3
      <4>4. CASE x = f /\ y = f
        BY <2>2, <4>4
      <4> QED BY <4>1, <4>2, <4>3, <4>4
    <3> QED BY <3>1, <3>2 DEF Selections, W
  <2>12. f \notin P
    BY <1>0, <2>2, <2>5, <2>10
  <2>13. Cardinality(P \cup {f}) = Cardinality(P) + 1
    BY <2>9, <2>12, FS_AddElement
  <2>14. ASSUME NEW Q \in Selections(s, sub, p, b)  PROVE Cardinality(Q) <= Cardinality(P) + 1
    <3>1. Q \in SUBSET W /\ Apart(Q, n) /\ IsFiniteSet(Q) /\ Cardinality(Q) \in Nat
      <4>1. IsFiniteSet(Q) /\ Cardinality(Q) \in Nat
        BY <2>7, MostFound
      <4> QED BY <4>1 DEF Selections, W
    <3>2. CASE Q = {}
      BY <2>9, <3>2, FS_EmptySet
    <3>3. CASE Q # {}
      <4>1. Q \in SUBSET Nat
        BY <1>0, <3>1
      <4> DEFINE m == Least(Q)
      <4>2. m \in Q /\ \A q \in Q : m <= q
        BY <3>3, <4>1, LeastFound
      <4> HIDE DEF m
      <4>3. m \in Nat /\ f <= m
        BY <2>1, <3>1, <4>1, <4>2
      <4>4. ASSUME NEW q \in Q \ {m}  PROVE q \in V
        <5>1. q \in Nat /\ m <= q /\ m # q
          BY <4>1, <4>2
        <5>2. m < q
          BY <4>3, <5>1
        <5>3. q - m >= n
          BY <3>1, <4>2, <5>2 DEF Apart
        <5>4. q >= f + n
          BY <1>0, <2>2, <4>3, <5>1, <5>3
        <5> QED BY <2>6, <3>1, <5>4
      <4>5. Q \ {m} \in Selections(s, sub, f + n, b)
        <5>1. Q \ {m} \in SUBSET V
          BY <4>4
        <5>2. Apart(Q \ {m}, n)
          BY <3>1 DEF Apart
        <5> QED BY <5>1, <5>2 DEF Selections, V
      <4>6. Cardinality(Q \ {m}) = Cardinality(Q) - 1
        BY <3>1, <4>2, FS_RemoveElement
      <4>7. Cardinality(Q \ {m}) <= Cardinality(P)
        BY <2>9, <4>5
      <4> QED BY <2>9, <3>1, <4>6, <4>7
    <3> QED BY <3>2, <3>3
  <2>15. Most(s, sub, p, b) = Cardinality(P) + 1
    BY <2>7, <2>9, <2>11, <2>13, <2>14, MostOf
  <2>16. ~(p + n > b \/ f < 0) /\ f \in Int
    BY <1>0, <2>2
  <2>17. f + n \in (p + 1)..(b + 1)
    BY <1>0, <2>2
  <2>18. Most(s, sub, p, b) = 1 + Most(s, sub, f + n, b)
    BY <2>8, <2>9, <2>15
  <2> QED BY <2>16, <2>17, <2>18 DEF f
<1> QED BY <1>2, <1>3

Tallying(s, sub, a, b, f) ==
  f = [p \in a..(b + 1) |->
         LET found == FindBytes(s, sub, p, b)
         IN IF p + Len(sub) > b \/ found < 0 THEN 0 ELSE 1 + f[found + Len(sub)]]

LEMMA CountIs ==
  ASSUME NEW s, NEW sub, sub # <<>>, Len(sub) \in Nat \ {0},
         NEW b \in Int, NEW a \in Nat, a <= b + 1
  PROVE  CountFrom(s, sub, a, b) = Most(s, sub, a, b)
<1> DEFINE g == [p \in a..(b + 1) |-> Most(s, sub, p, b)]
           found(p) == FindBytes(s, sub, p, b)
           ended(p) == p + Len(sub) > b \/ found(p) < 0
           from == CHOOSE f : Tallying(s, sub, a, b, f)
<1>1. ASSUME NEW p \in a..(b + 1)
      PROVE  /\ ~ended(p) => found(p) + Len(sub) \in (p + 1)..(b + 1) /\ found(p) + Len(sub) \in a..(b + 1)
             /\ Most(s, sub, p, b) = IF ended(p) THEN 0 ELSE 1 + Most(s, sub, found(p) + Len(sub), b)
  <2>1. p \in Nat /\ p <= b + 1
    OBVIOUS
  <2>2. /\ ~ended(p) => found(p) + Len(sub) \in (p + 1)..(b + 1)
        /\ Most(s, sub, p, b) = IF ended(p) THEN 0 ELSE 1 + Most(s, sub, found(p) + Len(sub), b)
    BY <2>1, MostStep
  <2>3. \A q \in (p + 1)..(b + 1) : q \in a..(b + 1)
    OBVIOUS
  <2> HIDE DEF found, ended
  <2> QED BY <2>2, <2>3
<1>2. \A p \in a..(b + 1) : g[p] = IF ended(p) THEN 0 ELSE 1 + g[found(p) + Len(sub)]
  <2> HIDE DEF found, ended
  <2> QED BY <1>1
<1>3. g = [p \in a..(b + 1) |-> g[p]]
  OBVIOUS
<1> HIDE DEF g
<1>4. Tallying(s, sub, a, b, g)
  BY <1>2, <1>3 DEF Tallying
<1>5. Tallying(s, sub, a, b, from)
  BY <1>4
<1>6. CountFrom(s, sub, a, b) = from[a]
  BY DEF CountFrom, Tallying
<1> HIDE DEF from
<1>7. \A p \in a..(b + 1) : from[p] = IF ended(p) THEN 0 ELSE 1 + from[found(p) + Len(sub)]
  BY <1>5 DEF Tallying
<1> HIDE DEF found, ended
<1> DEFINE S == {p \in a..(b + 1) : from[p] = Most(s, sub, p, b)}
<1>8. ASSUME NEW p \in a..(b + 1), \A q \in (p + 1)..(b + 1) : q \in S  PROVE p \in S
  <2>1. ~ended(p) => from[found(p) + Len(sub)] = Most(s, sub, found(p) + Len(sub), b)
    BY <1>1, <1>8
  <2> QED BY <1>1, <1>7, <2>1
<1>9. S \in SUBSET (a..(b + 1))
  OBVIOUS
<1> HIDE DEF S
<1>10. S = a..(b + 1)
  <2>1. a \in Int /\ b + 1 \in Int
    OBVIOUS
  <2> QED BY <1>8, <1>9, <2>1, Downward
<1>11. a \in S
  BY <1>10
<1> QED BY <1>6, <1>11 DEF S

-----------------------------------------------------------------------------
(* Slices.                                                                 *)

LEMMA CutIs ==
  ASSUME NEW C, NEW s \in Seq(C), NEW a \in Nat, NEW b \in Nat, a <= b, b <= Len(s)
  PROVE  /\ Cut(s, a, b) \in Seq(C) /\ Len(Cut(s, a, b)) = b - a
         /\ \A i \in 1..(b - a) : Cut(s, a, b)[i] = s[a + i]
<1>1. Cut(s, a, b) = [i \in 1..(b - a) |-> s[a + i]]
  <2>1. SubSeq(s, a + 1, b) = [i \in 1..(b - (a + 1) + 1) |-> s[(a + 1) + i - 1]]
    OBVIOUS
  <2>2. b - (a + 1) + 1 = b - a /\ \A i \in 1..(b - a) : (a + 1) + i - 1 = a + i
    OBVIOUS
  <2> QED BY <2>1, <2>2 DEF Cut
<1>2. b - a \in Nat /\ \A i \in 1..(b - a) : s[a + i] \in C
  OBVIOUS
<1>3. Cut(s, a, b) \in [1..(b - a) -> C]
  BY <1>1, <1>2
<1>4. Cut(s, a, b) \in Seq(C)
  BY <1>2, <1>3
<1>5. Len(Cut(s, a, b)) = b - a
  BY <1>2, <1>3, <1>4
<1> QED BY <1>1, <1>4, <1>5

LEMMA CutCut ==
  ASSUME NEW C, NEW s \in Seq(C), NEW a \in Nat, NEW b \in Nat, a <= b, b <= Len(s),
         NEW c \in Nat, NEW d \in Nat, c <= d, d <= b - a
  PROVE  Cut(Cut(s, a, b), c, d) = Cut(s, a + c, a + d)
<1> DEFINE t == Cut(s, a, b)  x == Cut(t, c, d)  y == Cut(s, a + c, a + d)
<1>1. t \in Seq(C) /\ Len(t) = b - a /\ \A i \in 1..(b - a) : t[i] = s[a + i]
  <2> HIDE DEF t
  <2> QED BY CutIs DEF t
<1> HIDE DEF t
<1>2. x \in Seq(C) /\ Len(x) = d - c /\ \A i \in 1..(d - c) : x[i] = t[c + i]
  <2>1. t \in Seq(C) /\ c <= d /\ d <= Len(t)
    BY <1>1
  <2>2. Cut(t, c, d) \in Seq(C) /\ Len(Cut(t, c, d)) = d - c
        /\ \A i \in 1..(d - c) : Cut(t, c, d)[i] = t[c + i]
    BY <2>1, CutIs
  <2> QED BY <2>2
<1>3. y \in Seq(C) /\ Len(y) = d - c /\ \A i \in 1..(d - c) : y[i] = s[(a + c) + i]
  <2>1. /\ a + c \in Nat /\ a + d \in Nat /\ a + c <= a + d /\ a + d <= Len(s)
        /\ (a + d) - (a + c) = d - c
    OBVIOUS
  <2> DEFINE e == a + c  f == a + d
  <2> HIDE DEF e, f
  <2>2. e \in Nat /\ f \in Nat /\ e <= f /\ f <= Len(s) /\ f - e = d - c
    BY <2>1 DEF e, f
  <2>3. Cut(s, e, f) \in Seq(C) /\ Len(Cut(s, e, f)) = f - e
        /\ \A i \in 1..(f - e) : Cut(s, e, f)[i] = s[e + i]
    BY <2>2, CutIs
  <2> QED BY <2>2, <2>3 DEF e, f
<1>4. \A i \in 1..(d - c) : t[c + i] = s[(a + c) + i]
  <2> SUFFICES ASSUME NEW i \in 1..(d - c)  PROVE t[c + i] = s[(a + c) + i]
    OBVIOUS
  <2>1. c + i \in 1..(b - a) /\ a + (c + i) = (a + c) + i
    OBVIOUS
  <2> QED BY <1>1, <2>1
<1> HIDE DEF x, y
<1>5. x = [i \in 1..Len(x) |-> x[i]] /\ y = [i \in 1..Len(y) |-> y[i]]
  BY <1>2, <1>3
<1>6. \A i \in 1..(d - c) : x[i] = y[i]
  BY <1>2, <1>3, <1>4
<1>7. x = y
  BY <1>2, <1>3, <1>5, <1>6
<1> QED BY <1>7 DEF x, y, t

(* An empty string is everywhere.                                          *)
LEMMA EmptyPlaces ==
  ASSUME NEW C, NEW s \in Seq(C), NEW start \in {None} \cup Int
  PROVE  Places(s, <<>>, start, None) = {p \in 0..Len(s) : start # None => p >= Offset(s, start)}
<1>1. Len(<<>>) = 0 /\ Len(s) \in Nat
  OBVIOUS
<1>2. \A p \in 0..Len(s) : MatchAt(s, <<>>, p)
  BY <1>1 DEF MatchAt, Cut
<1>3. 0..(Len(s) - Len(<<>>)) = 0..Len(s)
  BY <1>1
<1> QED BY <1>2, <1>3 DEF Places

-----------------------------------------------------------------------------
(* The methods.                                                            *)

(* find and index give the first place, rfind the last, and a string       *)
(* contains what has a place in it (string_methods.c:98-363).              *)
THEOREM FindsFirst ==
  ASSUME NEW C, NEW s \in Seq(C), NEW sub \in Seq(C), sub # <<>>,
         NEW start \in {None} \cup Int, NEW end \in {None} \cup Int
  PROVE  FindsExact(s, sub, start, end)
<1> DEFINE w == Window(s, start, end)  a == w.start  b == w.end
           places == Places(s, sub, start, end)
<1>1. a \in Nat /\ b \in Nat /\ a <= b
  BY WindowIs
<1>2. Len(sub) \in Nat \ {0}
  OBVIOUS
<1>3. places = Within(s, sub, a, b)
  BY PlacesWithin
<1>4. places \in SUBSET Nat
  BY DEF Places
<1>5. StringFind(s, sub, start, end) = FindBytes(s, sub, a, b)
  BY DEF StringFind
<1>6. StringRFind(s, sub, start, end) = RFindBytes(s, sub, a, b)
  BY DEF StringRFind
<1> HIDE DEF w, places
<1>7. StringFind(s, sub, start, end) = Least(OrNone(places))
  BY <1>1, <1>2, <1>3, <1>5, FindIs
<1>8. StringRFind(s, sub, start, end) = Greatest(places \cup {-1})
  BY <1>1, <1>2, <1>3, <1>6, RFindIs
<1>9. StringIndex(StringFind(s, sub, start, end)).ok <=> places # {}
  <2>1. CASE places = {}
    <3>1. OrNone(places) = {-1}
      BY <2>1 DEF OrNone
    <3>2. StringFind(s, sub, start, end) = -1
      BY <1>7, <3>1, NoneFound
    <3> QED BY <2>1, <3>2 DEF StringIndex, Raised, Value
  <2>2. CASE places # {}
    <3>1. OrNone(places) = places
      BY <2>2 DEF OrNone
    <3>2. Least(places) \in Nat
      BY <1>4, <2>2, LeastFound
    <3> QED BY <1>7, <2>2, <3>1, <3>2 DEF StringIndex, Raised, Value
  <2> QED BY <2>1, <2>2
<1>10. StringContains(s, sub) <=> Places(s, sub, None, None) # {}
  BY DEF StringContains, Places
<1> QED BY <1>7, <1>8, <1>9, <1>10 DEF FindsExact, places, OrNone

(* count takes the first place that does not overlap the last one taken,   *)
(* and that way takes the most there are (string_methods.c:365-392).       *)
THEOREM CountsGreedily ==
  ASSUME NEW C, NEW s \in Seq(C), NEW sub \in Seq(C), sub # <<>>,
         NEW start \in {None} \cup Int, NEW end \in {None} \cup Int
  PROVE  CountsMost(s, sub, start, end)
<1> DEFINE w == Window(s, start, end)  a == w.start  b == w.end
<1>1. a \in Nat /\ b \in Nat /\ a <= b + 1 /\ b \in Int
  <2>1. a \in Nat /\ b \in Nat /\ a <= b
    BY WindowIs
  <2> HIDE DEF w
  <2> QED BY <2>1
<1>2. Len(sub) \in Nat \ {0}
  OBVIOUS
<1>3. Places(s, sub, start, end) = Within(s, sub, a, b)
  BY PlacesWithin
<1>4. StringCount(s, sub, start, end) = CountFrom(s, sub, a, b)
  BY DEF StringCount
<1> HIDE DEF w
<1>5. StringCount(s, sub, start, end) = Most(s, sub, a, b)
  BY <1>1, <1>2, <1>4, CountIs
<1> QED BY <1>3, <1>5 DEF CountsMost, Most, Selections

(* A slice is what stands between its bounds (string.c:156-172).           *)
THEOREM SlicesBetween ==
  ASSUME NEW C, NEW s \in Seq(C), NEW start \in {None} \cup Int, NEW end \in {None} \cup Int
  PROVE  SliceExact(s, start, end)
<1> DEFINE w == Window(s, start, end)  a == w.start  b == w.end
           window == StringSlice(s, start, end)
           places == Places(s, <<>>, start, None)
<1>1. a \in Nat /\ b \in Nat /\ a <= b /\ b <= Len(s) /\ Len(s) \in Nat
  BY WindowIs
<1>2. window = Cut(s, a, b)
  BY DEF StringSlice
<1>3. places = {p \in 0..Len(s) : start # None => p >= Offset(s, start)}
  BY EmptyPlaces
<1>4. a = ClampIndex(IF start = None THEN 0 ELSE start, Len(s))
  BY DEF Window
<1> HIDE DEF w, window, places
<1>5. window = [i \in 1..(b - a) |-> s[a + i]] /\ Len(window) = b - a
  <2>1. window \in Seq(C) /\ Len(window) = b - a /\ \A i \in 1..(b - a) : window[i] = s[a + i]
    BY <1>1, <1>2, CutIs
  <2>2. window = [i \in 1..Len(window) |-> window[i]]
    BY <2>1
  <2> QED BY <2>1, <2>2
<1>6. CASE places = {}
  <2>1. a = Len(s)
    <3>1. start # None /\ ~(Len(s) >= Offset(s, start))
      BY <1>1, <1>3, <1>6
    <3> QED BY <1>1, <1>4, <3>1 DEF ClampIndex, Offset
  <2>2. b - a = 0
    BY <1>1, <2>1
  <2> QED BY <1>5, <2>2 DEF SliceExact, window
<1>7. CASE places # {}
  <2>1. PICK q \in 0..Len(s) : start # None => q >= Offset(s, start)
    BY <1>3, <1>7
  <2>2. (start # None => a >= Offset(s, start)) /\ \A p \in places : a <= p
    <3>1. CASE start = None
      BY <1>1, <1>3, <1>4, <3>1 DEF ClampIndex
    <3>2. CASE start # None
      BY <1>1, <1>3, <1>4, <2>1, <3>2 DEF ClampIndex, Offset
    <3> QED BY <3>1, <3>2
  <2>3. a \in places /\ places \in SUBSET Int
    BY <1>1, <1>3, <2>2
  <2>4. Least(places) = a
    BY <2>2, <2>3, LeastOf
  <2> QED BY <1>5, <2>4 DEF SliceExact, window, places
<1> QED BY <1>6, <1>7

(* A string starts or ends with another exactly if its slice has it at its *)
(* first or last place (string_methods.c:394-490).                         *)
THEOREM EndsFound ==
  ASSUME NEW C, NEW s \in Seq(C), NEW sub \in Seq(C), sub # <<>>,
         NEW start \in {None} \cup Int, NEW end \in {None} \cup Int
  PROVE  EndsExact(s, sub, start, end)
<1> DEFINE w == Window(s, start, end)  a == w.start  b == w.end
           window == StringSlice(s, start, end)  n == Len(sub)
<1>1. a \in Nat /\ b \in Nat /\ a <= b /\ b <= Len(s)
  BY WindowIs
<1>2. n \in Nat /\ n > 0
  OBVIOUS
<1>3. window = Cut(s, a, b)
  BY DEF StringSlice
<1>4. StartsWith(s, <<sub>>, start, end) <=> n <= b - a /\ MatchAt(s, sub, a)
  BY DEF StartsWith, PrefixAt
<1>5. EndsWith(s, <<sub>>, start, end) <=> n <= b - a /\ MatchAt(s, sub, b - n)
  BY DEF EndsWith, SuffixAt
<1> HIDE DEF w, window
<1>6. Len(window) = b - a
  BY <1>1, <1>3, CutIs
<1>7. ASSUME NEW p \in 0..((b - a) - n)
      PROVE  MatchAt(window, sub, p) <=> MatchAt(s, sub, a + p)
  <2>1. p \in Nat /\ p + n \in Nat /\ p <= p + n /\ p + n <= b - a /\ a + (p + n) = (a + p) + n
    BY <1>1, <1>2
  <2>2. Cut(Cut(s, a, b), p, p + n) = Cut(s, a + p, a + (p + n))
    BY <1>1, <2>1, CutCut
  <2> QED BY <1>3, <2>1, <2>2 DEF MatchAt
<1>8. Places(window, sub, 0, n) = {p \in 0..((b - a) - n) : MatchAt(window, sub, p) /\ p = 0}
  <2>1. 0 # None /\ n # None /\ Offset(window, 0) = 0 /\ Offset(window, n) = n
    BY <1>2, SearchAssumption DEF Offset
  <2>2. \A p \in 0..((b - a) - n) : p >= 0 /\ p + n <= n <=> p = 0
    BY <1>1, <1>2
  <2> QED BY <1>6, <2>1, <2>2 DEF Places
<1>9. Places(window, sub, -n, None) = {p \in 0..((b - a) - n) : MatchAt(window, sub, p) /\ p = (b - a) - n}
  <2>1. -n # None /\ Offset(window, -n) = -n + (b - a)
    BY <1>2, <1>6, SearchAssumption DEF Offset
  <2>2. \A p \in 0..((b - a) - n) : p >= -n + (b - a) <=> p = (b - a) - n
    BY <1>1, <1>2
  <2> QED BY <1>6, <2>1, <2>2 DEF Places
<1>10. Places(window, sub, 0, n) # {} <=> n <= b - a /\ MatchAt(s, sub, a)
  <2>1. n <= b - a <=> 0 \in 0..((b - a) - n)
    BY <1>1, <1>2
  <2>2. a + 0 = a
    BY <1>1
  <2> QED BY <1>7, <1>8, <2>1, <2>2
<1>11. Places(window, sub, -n, None) # {} <=> n <= b - a /\ MatchAt(s, sub, b - n)
  <2>1. n <= b - a <=> (b - a) - n \in 0..((b - a) - n)
    BY <1>1, <1>2
  <2>2. a + ((b - a) - n) = b - n
    BY <1>1, <1>2
  <2> QED BY <1>7, <1>9, <2>1, <2>2
<1> QED BY <1>4, <1>5, <1>10, <1>11 DEF EndsExact, window

(* Whatever string is searched for whatever string, between whatever       *)
(* bounds, the methods find what is to be found (string_methods.c:98-490). *)
THEOREM SearchesKept == SearchSpec => []SearchesExact
<1> DEFINE SubjectTyped == subject \in Seq(Characters) \cup {None}
<1>1. subject \in {<<>>, None} => SubjectTyped
  <2>1. <<>> \in Seq(Characters)
    OBVIOUS
  <2> QED BY <2>1
<1>2. SubjectTyped /\ [Lengthen]_subject => SubjectTyped'
  BY DEF Lengthen
<1>3. SubjectTyped => SearchesExact
  <2> SUFFICES ASSUME SubjectTyped, subject # None,
                      NEW sub \in Subs \ {<<>>},
                      NEW start \in {None} \cup Offsets, NEW end \in {None} \cup Offsets
               PROVE  /\ FindsExact(subject, sub, start, end)
                      /\ CountsMost(subject, sub, start, end)
                      /\ SliceExact(subject, start, end)
                      /\ EndsExact(subject, sub, start, end)
    BY DEF SearchesExact
  <2>1. /\ subject \in Seq(Characters) /\ sub \in Seq(Characters) /\ sub # <<>>
        /\ start \in {None} \cup Int /\ end \in {None} \cup Int
    BY SearchAssumption
  <2> QED BY <2>1, FindsFirst, CountsGreedily, SlicesBetween, EndsFound
<1> HIDE DEF SubjectTyped
<1> QED BY <1>1, <1>2, <1>3, PTL DEF SearchSpec
=============================================================================
