------------------------------ MODULE ExpMath ------------------------------
(***************************************************************************)
(* The fixed-point arithmetic of Exponential.sol and                       *)
(* ExponentialNoError.sol.  An Exp is a Nat, its mantissa: the value x is  *)
(* stored as x * ExpScale (1e18 in the code, small in a model).  Every     *)
(* operation modelled here truncates.                                      *)
(***************************************************************************)
EXTENDS Integers

CONSTANT ExpScale   \* the mantissa of 1.0

ASSUME ExpScaleAssumption == ExpScale \in Nat \ {0}

\* mul_(Exp, Exp) and mulScalarTruncate(Exp, uint): the product, truncated.
MulTruncate(a, b) == (a * b) \div ExpScale

\* getExp(num, denom) and div_(Exp, Exp): the quotient as an Exp.
GetExp(num, denom) == (num * ExpScale) \div denom

\* divScalarByExpTruncate(scalar, Exp): how many units of price e buy s.
DivScalarByExp(s, e) == (s * ExpScale) \div e
=============================================================================
