------------------------------ MODULE Rationals ------------------------------
(***************************************************************************)
(* Exact fractions <<numerator, denominator>>, reduced, the denominator    *)
(* positive.  They stand for the floats the program computes prices,       *)
(* quantities and profits with; its rounding, and the tolerances of 1e-12  *)
(* that absorb it, have no counterpart.                                    *)
(***************************************************************************)
EXTENDS Integers

Abs(n) == IF n < 0 THEN -n ELSE n

Whole(n) == <<n, 1>>

Zero == Whole(0)

(* The greatest common divisor of two numbers.                             *)
Euclid[p \in Nat \X Nat] ==
    IF p[2] = 0 THEN p[1] ELSE Euclid[<<p[2], p[1] % p[2]>>]

Ratio(n, d) ==
    LET g == Euclid[<<Abs(n), Abs(d)>>]
        s == IF d < 0 THEN -1 ELSE 1
    IN <<(s * n) \div g, (s * d) \div g>>

Plus(a, b) == Ratio(a[1] * b[2] + b[1] * a[2], a[2] * b[2])

Minus(a, b) == Ratio(a[1] * b[2] - b[1] * a[2], a[2] * b[2])

Times(a, b) == Ratio(a[1] * b[1], a[2] * b[2])

Over(a, b) == Ratio(a[1] * b[2], a[2] * b[1])

AtMost(a, b) == a[1] * b[2] <= b[1] * a[2]

Below(a, b) == a[1] * b[2] < b[1] * a[2]

Least(a, b) == IF AtMost(a, b) THEN a ELSE b

Greatest(a, b) == IF AtMost(a, b) THEN b ELSE a

(* A reduced fraction.                                                     *)
IsRational(a) == /\ DOMAIN a = {1, 2}
                 /\ a[1] \in Int
                 /\ a[2] \in Nat \ {0}
                 /\ a = Ratio(a[1], a[2])

IsPositive(a) == IsRational(a) /\ Below(Zero, a)
=============================================================================
