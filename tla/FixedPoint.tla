----------------------------- MODULE FixedPoint -----------------------------
(***************************************************************************)
(* The fixed-point and floating-point arithmetic that Money is built on.   *)
(*                                                                         *)
(* A Money raw value is a signed integer of RawBits bits (i64 in the code) *)
(* read at FIXED_PRECISION decimal digits (9 in the code).  Amounts enter  *)
(* and leave as binary floating-point numbers with FloatBits significant   *)
(* bits (f64: 53).  TLC integers are 32 bits wide, so a model run scales   *)
(* both widths down together: what matters for the properties is the       *)
(* ratio between the digits the raw integer holds and the digits a float   *)
(* keeps, and that the largest amount times the scale still fits the raw. *)
(*                                                                         *)
(* Numbers that are not integers are rationals [num |-> n, den |-> d],     *)
(* reduced, with d > 0, so that equal values are equal records.            *)
(*                                                                         *)
(* fixed.rs (f64_to_fixed_i64, fixed_i64_to_f64, FIXED_PRECISION) is not   *)
(* among the sources; those operators follow spec.md 3 and 4.1.            *)
(***************************************************************************)
EXTENDS Integers

CONSTANTS
    RawBits,          \* width of the raw integer (64 in the code)
    FIXED_PRECISION,  \* decimal digits of a raw value (9 in the code)
    FloatBits         \* significant bits of a float (53 for f64)

ASSUME RawBits \in 3..20 /\ FIXED_PRECISION \in 0..3 /\ FloatBits \in 2..20

-----------------------------------------------------------------------------
(* Two's-complement integers of RawBits bits.                              *)

I64Min == -(2^(RawBits - 1))
I64Max == 2^(RawBits - 1) - 1
I64 == I64Min..I64Max

\* What a wrapping (release-build, unchecked) operation leaves behind.
Wrap(x) == ((x - I64Min) % 2^RawBits) + I64Min

\* i64::checked_add / checked_sub: Some(exact result), or None when it does
\* not fit.  An Option is a sequence of length at most one.
Checked(x) == IF x \in I64 THEN <<x>> ELSE <<>>
CheckedAdd(a, b) == Checked(a + b)
CheckedSub(a, b) == Checked(a - b)

FIXED_SCALAR == 10^FIXED_PRECISION

-----------------------------------------------------------------------------
(* Rationals.                                                              *)

RECURSIVE Gcd(_, _)
Gcd(a, b) == IF b = 0 THEN a ELSE Gcd(b, a % b)

Abs(x) == IF x < 0 THEN -x ELSE x

Rat(n, d) ==
    LET g == Gcd(Abs(n), Abs(d))
        s == IF d < 0 THEN -1 ELSE 1
    IN  [num |-> s * (n \div g), den |-> s * (d \div g)]

Int2Rat(n) == [num |-> n, den |-> 1]
RatMul(q, r) == Rat(q.num * r.num, q.den * r.den)
RatAdd(q, r) == Rat(q.num * r.den + r.num * q.den, q.den * r.den)
RatDiv(q, r) == Rat(q.num * r.den, q.den * r.num)
RatLeq(q, r) == q.num * r.den <= r.num * q.den

\* Nearest integer to n/d (d > 0), halfway cases away from zero: f64::round.
RoundHalfAway(n, d) ==
    IF n >= 0 THEN (2 * n + d) \div (2 * d)
              ELSE -((-2 * n + d) \div (2 * d))

\* Nearest integer to n/d (d > 0), halfway cases to the even neighbour:
\* IEEE 754 round-to-nearest, also the tie rule of Rust's {:.*} formatting.
RoundHalfEven(n, d) ==
    LET q == n \div d
        r2 == 2 * (n - q * d)
    IN  CASE r2 < d -> q
          [] r2 > d -> q + 1
          [] OTHER  -> IF q % 2 = 0 THEN q ELSE q + 1

-----------------------------------------------------------------------------
(* Binary floating point with FloatBits significant bits, no overflow and  *)
(* no subnormals (amounts never get near either end of the f64 range).     *)

\* |q| < 2^k, for any integer k.
BelowPow2(q, k) ==
    IF k >= 0 THEN Abs(q.num) < q.den * 2^k
              ELSE Abs(q.num) * 2^(-k) < q.den

\* The least k with |q| < 2^k, searched from k0; 0 for q = 0.
RECURSIVE BitLength(_, _)
BitLength(q, k0) ==
    IF q.num = 0 THEN 0
    ELSE IF ~BelowPow2(q, k0) THEN BitLength(q, k0 + 1)
    ELSE IF BelowPow2(q, k0 - 1) THEN BitLength(q, k0 - 1)
    ELSE k0

\* The exponent e with 2^(FloatBits-1) <= |q| / 2^e < 2^FloatBits.
FloatExp(q) == BitLength(q, 0) - FloatBits

\* The float nearest to the rational q (ties to even): the rounding every
\* f64 operation, `as f64` cast and str::parse::<f64> applies.
ToFloat(q) ==
    IF q.num = 0 THEN Int2Rat(0)
    ELSE LET e == FloatExp(q)
             m == IF e >= 0 THEN RoundHalfEven(q.num, q.den * 2^e)
                            ELSE RoundHalfEven(q.num * 2^(-e), q.den)
         IN  IF e >= 0 THEN Int2Rat(m * 2^e) ELSE Rat(m, 2^(-e))

\* f64 arithmetic: exact result, then rounded.
FAdd(x, y) == ToFloat(RatAdd(x, y))
FSub(x, y) == ToFloat(RatAdd(x, [num |-> -y.num, den |-> y.den]))
FMul(x, y) == ToFloat(RatMul(x, y))
FDiv(x, y) == ToFloat(RatDiv(x, y))

\* `f as i64`: truncation toward zero, saturating at the ends of i64.
FloatToI64(x) ==
    LET t == IF x.num >= 0 THEN x.num \div x.den ELSE -((-x.num) \div x.den)
    IN  IF t > I64Max THEN I64Max ELSE IF t < I64Min THEN I64Min ELSE t

-----------------------------------------------------------------------------
(* fixed.rs                                                                *)

\* f64_to_fixed_i64(value, precision): scale to `precision` digits, round
\* half away from zero, then widen to FIXED_PRECISION digits.
f64_to_fixed_i64(value, precision) ==
    LET scaled  == FMul(value, Int2Rat(10^precision))
        rounded == FloatToI64(Int2Rat(RoundHalfAway(scaled.num, scaled.den)))
    IN  rounded * 10^(FIXED_PRECISION - precision)

\* fixed_i64_to_f64(raw): `raw as f64 / FIXED_SCALAR`.
fixed_i64_to_f64(raw) ==
    FDiv(ToFloat(Int2Rat(raw)), Int2Rat(FIXED_SCALAR))

=============================================================================
