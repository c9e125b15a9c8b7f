-------------------------------- MODULE Words --------------------------------
(***************************************************************************)
(* Up to three words, taken one at a time, and what the arithmetic of the  *)
(* interpreter makes of one, of two, and of the three that are a range.    *)
(***************************************************************************)
EXTENDS Numbers, Sequences

VARIABLE operands

IntWord == Smallest..Largest
NoOperands == operands = <<>>
TakeOperand ==
  \E n \in IntWord :
    /\ Len(operands) < 3
    /\ operands' = Append(operands, n)
WordsSpec == NoOperands /\ [][TakeOperand]_operands

-----------------------------------------------------------------------------
(* The whole numbers q with b * q + r = a, r of the sign of b and smaller. *)
Floors(a, b, q) ==
  LET r == a - b * q IN IF b > 0 THEN 0 <= r /\ r < b ELSE b < r /\ r <= 0
RoundedQuotient(a, b) == CHOOSE q \in (-2 * IntLimit)..(2 * IntLimit) : Floors(a, b, q)

(* The numbers from start by step up to the first that is past stop.       *)
RangeLength(start, stop, step) ==
  CHOOSE n \in 0..(2 * IntLimit) :
    /\ ~HasNext(start + n * step, stop, step)
    /\ \A k \in 0..(n - 1) : HasNext(start + k * step, stop, step)
InRange(start, stop, step) ==
  [k \in 1..RangeLength(start, stop, step) |-> start + (k - 1) * step]

(* A product of unlike signs may wrap just below the least word.           *)
ProductIsExact(a, b) ==
  Product(a, b) \in {OrOverflow(a * b)} \cup IF JustBelow(a, b) THEN {Answer(Wrapped(a * b))} ELSE {}
DivisionIsExact(a, b) ==
  IF b = 0 THEN FloorDivide(a, b) = ZeroDivision /\ Modulo(a, b) = ZeroDivision
  ELSE LET q == RoundedQuotient(a, b)
       IN /\ FloorDivide(a, b) = OrOverflow(q)
          /\ Modulo(a, b) = IF Fits(q) THEN Answer(a - b * q) ELSE Overflow
(* A loop visits the numbers first, and no other after them if the number  *)
(* that follows the last one fits.                                         *)
RangeIsExact(start, stop, step) ==
  LET numbers == InRange(start, stop, step)
      steps == Stepped(start, stop, step, 2 * IntLimit)
      n == Len(numbers)
  IN /\ SubSeq(steps, 1, n) = numbers
     /\ n = 0 \/ Fits(numbers[n] + step) => steps = numbers

(* An operation on words gives the number that it gives on the integers, or*)
(* reports that it does not fit; division rounds down, and has no remainder*)
(* where it has no quotient.  A loop over a range visits its numbers and   *)
(* ends, if the number after the last one fits.                            *)
(* (vm.c:375-406, 600-650, 1284-1300, range.c:57-86, builtin_io.c:102-135) *)
WordsExact ==
  /\ Len(operands) = 1 => Negation(operands[1]) = OrOverflow(-operands[1])
  /\ Len(operands) = 2 =>
       /\ Sum2(operands[1], operands[2]) = OrOverflow(operands[1] + operands[2])
       /\ Difference(operands[1], operands[2]) = OrOverflow(operands[1] - operands[2])
       /\ ProductIsExact(operands[1], operands[2])
       /\ DivisionIsExact(operands[1], operands[2])
  /\ Len(operands) = 3 /\ operands[3] # 0 => RangeIsExact(operands[1], operands[2], operands[3])
=============================================================================
