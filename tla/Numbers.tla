------------------------------ MODULE Numbers ------------------------------
(***************************************************************************)
(* Arithmetic on machine words as the interpreter checks it, and iteration *)
(* over a range.  Division truncates in C; Python's rounds down.           *)
(***************************************************************************)
EXTENDS Integers

CONSTANT IntLimit                  \* 2^31 in the code
ASSUME IntLimitAssumption == IntLimit \in Nat \ {0}

Largest == IntLimit - 1
Smallest == -IntLimit
Fits(n) == Smallest <= n /\ n <= Largest
Wrapped(n) == ((n + IntLimit) % (2 * IntLimit)) - IntLimit
(* An operation answers with a number or raises.                           *)
Answer(n) == <<n>>
Overflow == <<"raises", "OverflowError">>
OrOverflow(n) == IF Fits(n) THEN Answer(n) ELSE Overflow
ZeroDivision == <<"raises", "ZeroDivisionError">>

Magnitude(n) == IF n < 0 THEN -n ELSE n
Quotient(a, b) ==
  (IF (a < 0) = (b < 0) THEN 1 ELSE -1) * (Magnitude(a) \div Magnitude(b))
Remainder(a, b) == a - b * Quotient(a, b)

(* The tests that come before the operation keep what they compute within  *)
(* a word.                                                                 *)
Sum2(left, right) ==
  IF \/ right > 0 /\ left > Largest - right
     \/ right < 0 /\ left < Smallest - right THEN Overflow ELSE Answer(left + right)
Difference(left, right) ==
  IF \/ right < 0 /\ left > Largest + right
     \/ right > 0 /\ left < Smallest + right THEN Overflow ELSE Answer(left - right)
Product(left, right) ==
  IF left = 0 \/ right = 0 THEN Answer(0)
  ELSE IF \/ left = -1 /\ right = Smallest
          \/ right = -1 /\ left = Smallest
          \/ left > 0 /\ right > 0 /\ left > Quotient(Largest, right)
          \/ left > 0 /\ right < 0 /\ right < Quotient(-Largest, left) - 1
          \/ left < 0 /\ right > 0 /\ left < Quotient(-Largest, right) - 1
          \/ left < 0 /\ right < 0 /\ left < Quotient(Largest, right)
       THEN Overflow ELSE Answer(Wrapped(left * right))
(* A product of unlike signs is let through, and wraps, where one summand  *)
(* less would fit.                                                         *)
JustBelow(a, b) ==
  a # 0 /\ b # 0 /\ (a < 0) # (b < 0) /\ a * b + (IF a > b THEN a ELSE b) >= -IntLimit
Negation(n) == IF n = Smallest THEN Overflow ELSE Answer(-n)

(* A bug to detect: the signs decide although the division is exact.       *)
RoundedDownAlways(left, right) == (left < 0) # (right < 0)
RoundedDown(left, right) == Remainder(left, right) # 0 /\ (left < 0) # (right < 0)
Divided(left, right, answer) ==
  IF right = 0 THEN ZeroDivision
  ELSE IF left = Smallest /\ right = -1 THEN Overflow
  ELSE Answer(answer)
FloorDivide(left, right) ==
  Divided(left, right, Quotient(left, right) - IF RoundedDown(left, right) THEN 1 ELSE 0)
Modulo(left, right) ==
  Divided(left, right, Remainder(left, right) + IF RoundedDown(left, right) THEN right ELSE 0)

(* What a loop over range(start, stop, step) visits, as far as the limit;  *)
(* after each value the step is added, whatever comes of it.               *)
HasNext(current, stop, step) == IF step > 0 THEN current < stop ELSE current > stop
Stepped(start, stop, step, limit) ==
  LET current[i \in 0..limit] == IF i = 0 THEN start ELSE Wrapped(current[i - 1] + step)
      ended == {i \in 0..limit : ~HasNext(current[i], stop, step)}
      count == IF ended = {} THEN limit ELSE CHOOSE i \in ended : \A j \in ended : i <= j
  IN [i \in 1..count |-> current[i - 1]]
=============================================================================
