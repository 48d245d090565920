----------------------------- MODULE FixedPoint -----------------------------
(***************************************************************************)
(* Decimal of lib-base: fixed-point numbers as naturals that count units   *)
(* of 1/Digits.  Infinity is the largest 256-bit number: a number like any *)
(* other to every operation, which a division by zero returns.             *)
(***************************************************************************)
EXTENDS Integers

CONSTANTS
    Digits,     \* DIGITS: how many units make one
    Infinity    \* INFINITY

ASSUME DigitsAssumption == Digits \in Nat \ {0} /\ Infinity \in Nat

\* mul, div, _divCeil and mulDiv of Decimal.
Mul(x, y) == (x * y) \div Digits
Div(x, y) == IF y = 0 THEN Infinity ELSE (x * Digits) \div y
DivCeil(x, y) == IF y = 0 THEN Infinity ELSE (x * Digits + (y - 1)) \div y
MulDiv(x, m, y) == IF y = 0 THEN Infinity ELSE (x * m) \div y

\* Decimal.min, Decimal.max, and the difference that Trove.subtract clamps to zero.
Least(x, y) == IF x < y THEN x ELSE y
Greatest(x, y) == IF x > y THEN x ELSE y
Minus(x, y) == IF x > y THEN x - y ELSE 0

\* roundedMul: half a unit is rounded up.
RoundedMul(x, y) == (x * y + Digits \div 2) \div Digits

\* pow: one round of squaring and multiplying; a loop that is over changes nothing.
Squared(s) ==
    IF s.exponent <= 1 THEN s
    ELSE [x |-> RoundedMul(s.x, s.x),
          y |-> IF s.exponent % 2 = 1 THEN RoundedMul(s.x, s.y) ELSE s.y,
          exponent |-> s.exponent \div 2]

\* The successive values of x, y and exponent.
Squarings(x, n) ==
    LET loop[k \in 0..n] ==
            IF k = 0 THEN [x |-> x, y |-> Digits, exponent |-> n] ELSE Squared(loop[k - 1])
    IN loop

Pow(x, n) ==
    CASE n = 0 -> Digits
      [] n = 1 -> x
      [] OTHER -> RoundedMul(Squarings(x, n)[n].x, Squarings(x, n)[n].y)
=============================================================================
