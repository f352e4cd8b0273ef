------------------------------ MODULE Sh2eFloat -----------------------------
(***************************************************************************)
(* The single precision numbers of the SH-2E's floating point unit, as     *)
(* exec.c classifies them, and the host's arithmetic on them.  The format  *)
(* is the smallest with every class of value: a sign, one exponent bit and *)
(* two fraction bits.                                                      *)
(***************************************************************************)
EXTENDS Words

Differ(a, b) == (a + b) % 2

Sign(f) == f \div 8
Exponent(f) == (f \div 4) % 2
Mantissa(f) == f % 4
IsNan(f) == Exponent(f) = 1 /\ Mantissa(f) # 0
IsInf(f) == Exponent(f) = 1 /\ Mantissa(f) = 0
IsZero(f) == Exponent(f) = 0 /\ Mantissa(f) = 0
is_pos_inf(f) == Sign(f) = 0 /\ IsInf(f)
is_neg_inf(f) == Sign(f) = 1 /\ IsInf(f)
__is_snan(f) == Exponent(f) = 1 /\ Mantissa(f) >= 2
is_qnan(f) == IsNan(f) /\ Mantissa(f) < 2
__qnan == 4 + 2
Neg(f) == (f + 8) % 16
Inf(s) == 8 * s + 4
\* The number with sign s and magnitude v, too large a one rounded to infinity.
Rounded(s, v) == 8 * s + (IF v > 3 THEN 4 ELSE v)

\* The host's arithmetic: a NaN operand is passed on with the top fraction
\* bit set, an invalid operation gives the negative default NaN.
HostNan(x, y) == LET z == IF IsNan(x) THEN x ELSE y IN IF z % 4 < 2 THEN z + 2 ELSE z
DefaultNan == 8 + 4 + 2
SumOf(x, y) ==
    LET v(f) == IF Sign(f) = 1 THEN -Mantissa(f) ELSE Mantissa(f)
        sum == v(x) + v(y)
    IN CASE IsNan(x) \/ IsNan(y) -> HostNan(x, y)
         [] IsInf(x) /\ IsInf(y) /\ x # y -> DefaultNan
         [] IsInf(x) \/ IsInf(y) -> IF IsInf(x) THEN x ELSE y
         [] OTHER -> IF sum = 0 THEN 8 * Bool(Sign(x) = 1 /\ Sign(y) = 1)
                     ELSE Rounded(Bool(sum < 0), Abs(sum))
ProductOf(x, y) ==
    LET s == Differ(Sign(x), Sign(y))
    IN CASE IsNan(x) \/ IsNan(y) -> HostNan(x, y)
         [] (IsInf(x) /\ IsZero(y)) \/ (IsZero(x) /\ IsInf(y)) -> DefaultNan
         [] IsInf(x) \/ IsInf(y) -> Inf(s)
         [] OTHER -> Rounded(s, Mantissa(x) * Mantissa(y))
QuotientOf(x, y) ==
    LET s == Differ(Sign(x), Sign(y))
        a == Mantissa(x)
        b == Mantissa(y)
        q == a \div b
        nearest == IF 2 * (a % b) > b \/ (2 * (a % b) = b /\ q % 2 = 1) THEN q + 1 ELSE q
    IN CASE IsNan(x) \/ IsNan(y) -> HostNan(x, y)
         [] IsInf(x) -> Inf(s)
         [] IsInf(y) -> 8 * s
         [] OTHER -> 8 * s + nearest

EqualF(x, y) == ~IsNan(x) /\ ~IsNan(y) /\ (x = y \/ (IsZero(x) /\ IsZero(y)))
Order(f) == CASE IsInf(f) -> IF Sign(f) = 1 THEN -4 ELSE 4
              [] OTHER -> IF Sign(f) = 1 THEN -Mantissa(f) ELSE Mantissa(f)

\* What makes an operation invalid.
Snan2(x, y) == __is_snan(x) \/ __is_snan(y)
OppositeInf(x, y) == (is_neg_inf(x) /\ is_pos_inf(y)) \/ (is_pos_inf(x) /\ is_neg_inf(y))
InfTimesZero(x, y) == (IsInf(x) /\ IsZero(y)) \/ (IsZero(x) /\ IsInf(y))
==============================================================================
