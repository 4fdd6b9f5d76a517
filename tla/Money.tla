-------------------------------- MODULE Money --------------------------------
(* The rounding of money (platform/money).                                   *)
EXTENDS Integers

\* Quantize, Amount.Mul, Amount.Div: a / b, half to even.
HalfEven(a, b) ==
    LET q == a \div b
        r == a % b
    IN IF 2 * r > b \/ (2 * r = b /\ q % 2 = 1) THEN q + 1 ELSE q
==============================================================================
