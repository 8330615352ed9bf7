---------------------------- MODULE IntegerDivision ----------------------------
(* Division of integers as C++ does it: towards zero.                         *)
EXTENDS Integers

\* The quotient, for a positive divisor.
Quot(a, b) == IF a >= 0 \/ a % b = 0 THEN a \div b ELSE (a \div b) + 1

\* The remainder, which has the sign of the dividend.
Rem(a, b) == a - b * Quot(a, b)
================================================================================
