------------------------------ MODULE Decimals ------------------------------
(***************************************************************************)
(* The decimal library as the models use it.  A decimal is a fixed-point   *)
(* integer, One being 1, so Mul rounds where the code has 28 digits; the   *)
(* functions of the library are constants.                                 *)
(***************************************************************************)
EXTENDS Integers, SequencesExt

CONSTANTS One,       \* the fixed-point 1
          Exp(_),    \* the exponential of a decimal
          Log(_),    \* the logarithm of a strictly positive decimal
          Root(_),   \* the square root of a decimal that is not negative
          MaxDecimal \* the largest decimal

ASSUME DecimalsAssumption == One \in Nat \ {0}

Mul(a, b) == (a * b) \div One

Quotient(a, b) == (a * One) \div b

NotNegative(x) == IF x < 0 THEN 0 ELSE x

Added(decimals) == FoldLeft(LAMBDA sum, x : sum + x, 0, decimals)

\* constant_volatility: the standard deviation of a sample, 0 if it has no two.
Dispersion(sample) ==
    LET mean == Added(sample) \div Len(sample)
    IN  IF Len(sample) < 2 THEN 0
        ELSE Root(Added([i \in DOMAIN sample |-> Mul(sample[i] - mean, sample[i] - mean)])
                  \div (Len(sample) - 1))
=============================================================================
