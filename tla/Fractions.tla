----------------------------- MODULE Fractions -----------------------------
(* Exact numbers for the constants of expressions, which are floats in the *)
(* code: fractions in lowest terms.  Rounding is not modelled.  NoValue    *)
(* stands for the value of a term that has none, such as 1 / 0.            *)
EXTENDS Integers, FiniteSetsExt

NoValue == [num |-> 0, den |-> 0]

LOCAL Absolute(n) == IF n < 0 THEN -n ELSE n

(* The greatest divisor that n and d > 0 have in common. *)
LOCAL CommonDivisor(n, d) ==
  Max({k \in 1 .. d : n % k = 0 /\ d % k = 0})

Fraction(n, d) ==
  LET sign == IF d < 0 THEN -1 ELSE 1
      k    == CommonDivisor(Absolute(n), Absolute(d))
  IN  [num |-> sign * (Absolute(n) \div k) * (IF n < 0 THEN -1 ELSE 1),
       den |-> Absolute(d) \div k]

Whole(n) == [num |-> n, den |-> 1]
Zero     == Whole(0)
One      == Whole(1)

Sum(a, b)        == Fraction(a.num * b.den + b.num * a.den, a.den * b.den)
Difference(a, b) == Fraction(a.num * b.den - b.num * a.den, a.den * b.den)
Product(a, b)    == Fraction(a.num * b.num, a.den * b.den)
Quotient(a, b)   == IF b = Zero THEN NoValue ELSE Fraction(a.num * b.den, a.den * b.num)
Magnitude(a)     == [a EXCEPT !.num = Absolute(@)]
Less(a, b)       == a.num * b.den < b.num * a.den
=============================================================================
