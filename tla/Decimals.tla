------------------------------ MODULE Decimals ------------------------------
(***************************************************************************)
(* Numbers as the symbols of their decimal digits.                         *)
(***************************************************************************)
EXTENDS Integers, Sequences, TLC

Digits == {"0", "1", "2", "3", "4", "5", "6", "7", "8", "9"}
DigitValue(c) == CHOOSE v \in 0 .. 9 : ToString(v) = c
Decimal(n) ==
  LET digits[m \in 0 .. n] == IF m < 10 THEN <<ToString(m)>>
                              ELSE Append(digits[m \div 10], ToString(m % 10))
  IN  digits[n]
=============================================================================
