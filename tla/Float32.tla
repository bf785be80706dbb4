------------------------------ MODULE Float32 ------------------------------
(***************************************************************************)
(* The part of Swift's Float (IEEE 754 binary32, round to nearest, ties to *)
(* even) that RequestManager's point budget uses.  A value is an integer   *)
(* number of units of 2^-27, the last place of 0.1 as a Float.  Every sum  *)
(* and difference of the budget is a multiple of that unit, so only the    *)
(* rounding of values of 1/8 and more has to be modelled.                  *)
(***************************************************************************)
EXTENDS Integers

\* The literals 1 and 0.1 as Floats: 0.1 is rounded up to 13421773 / 2^27.
One   == 134217728
Tenth == 13421773

\* The distance between neighbouring Floats of x's magnitude (below 2).
Ulp(x) ==
  LET a == IF x < 0 THEN -x ELSE x
  IN  IF a >= One THEN 16
      ELSE IF a >= One \div 2 THEN 8
      ELSE IF a >= One \div 4 THEN 4
      ELSE IF a >= One \div 8 THEN 2 ELSE 1

\* The Float nearest to x; of two equally near ones, the even one.
Round(x) ==
  LET u == Ulp(x)
      q == x \div u
      r == x % u
  IN  IF 2 * r < u \/ (2 * r = u /\ q % 2 = 0) THEN q * u ELSE (q + 1) * u

FAdd(x, y) == Round(x + y)
FSub(x, y) == Round(x - y)
============================================================================
