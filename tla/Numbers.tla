------------------------------ MODULE Numbers ------------------------------
(***************************************************************************)
(* How Python rounds.  Floating-point numbers are integers in a unit of    *)
(* the caller's choice, of which only those with a significand of so many  *)
(* bits exist.                                                             *)
(***************************************************************************)
EXTENDS Integers

\* b ** n.
Power(b, n) ==
  LET p[i \in Nat] == IF i = 0 THEN 1 ELSE b * p[i - 1]
  IN  p[n]

Magnitude(n) == IF n < 0 THEN -n ELSE n

\* n / d, to the nearest integer and to the even one of two (round()).
RoundHalfEven(n, d) ==
  LET below == n \div d
      twice == 2 * (n % d)
  IN  IF twice > d \/ (twice = d /\ below % 2 = 1) THEN below + 1 ELSE below

LastPlace(bits, n) ==
  Power(2, CHOOSE k \in 0..Magnitude(n) :
             /\ Magnitude(n) < Power(2, bits + k)
             /\ k > 0 => Magnitude(n) >= Power(2, bits + k - 1))

\* The floating-point number that stands for n.
RoundTo(bits, n) == RoundHalfEven(n, LastPlace(bits, n)) * LastPlace(bits, n)
=============================================================================
