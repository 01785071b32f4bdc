------------------------- MODULE ExponentialNoError -------------------------
(***************************************************************************)
(* Fixed-point arithmetic of contracts/ExponentialNoError.sol.  An Exp is  *)
(* its mantissa, a natural scaled by EXP_SCALE (1e18 in the contracts, a   *)
(* small number here so that truncation happens on small amounts).         *)
(***************************************************************************)
LOCAL INSTANCE Integers

CONSTANT EXP_SCALE

ASSUME ExpScaleAssumption == EXP_SCALE \in Nat \ {0}

\* mul_(Exp, Exp): product of two mantissas, truncated
MulExp(a, b) == (a * b) \div EXP_SCALE

\* div_(Exp, Exp) and div_(uint, Exp): the quotient of two scaled numbers
DivExp(a, b) == (a * EXP_SCALE) \div b

\* mul_ScalarTruncate(Exp, uint): an amount times a rate, truncated
MulScalarTruncate(a, scalar) == (a * scalar) \div EXP_SCALE

\* mul_ScalarTruncateAddUInt(Exp, uint, uint)
MulScalarTruncateAdd(a, scalar, addend) == MulScalarTruncate(a, scalar) + addend
=============================================================================
