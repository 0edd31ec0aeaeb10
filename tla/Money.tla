------------------------------- MODULE Money -------------------------------
(***************************************************************************)
(* Money (model/src/types/money.rs): a currency-tagged raw i64 read at     *)
(* FIXED_PRECISION digits, its constructors and its arithmetic and         *)
(* comparison operators.                                                   *)
(*                                                                         *)
(* The caller holds Money values in a few variables (Slots) and calls one  *)
(* operation at a time; an operation reads its operands from slots and     *)
(* writes its result to a slot.  `last` is what the call returned: the     *)
(* operation, its operand slots and whether it returned normally ("ok"),   *)
(* returned an Err ("err") or panicked ("panic").  A panic does not stop   *)
(* the model: the Python binding turns it into an exception and the caller *)
(* goes on with the values it held, which a panic leaves untouched.        *)
(*                                                                         *)
(* `build` is fixed for a run: integer overflow outside checked_* panics   *)
(* in a debug build and wraps in a release build.                          *)
(***************************************************************************)
EXTENDS FixedPoint, Sequences

CONSTANTS
    Currency,    \* currencies of the registry
    Precision,   \* Currency -> 0..FIXED_PRECISION, the registry's precision
    Slots,       \* the caller's Money variables
    Amounts,     \* f64 amounts the caller passes, as decimal rationals
    RawInputs,   \* Currency -> raw values trusted callers pass to from_raw
    ScalarInputs,\* f64 right operands of the Money-by-f64 operators
    NoMoney,     \* an empty slot
    Builds       \* subset of {"debug", "release"}

ASSUME Precision \in [Currency -> 0..FIXED_PRECISION]
ASSUME RawInputs \in [Currency -> SUBSET I64] /\ Builds \subseteq {"debug", "release"}

VARIABLES held, last, build

vars == <<held, last, build>>

-----------------------------------------------------------------------------

\* MONEY_MAX = 9_223_372_036: the largest whole amount whose raw value
\* fits an i64 at FIXED_PRECISION digits.
MONEY_MAX == I64Max \div FIXED_SCALAR
MONEY_MIN == -MONEY_MAX

MoneyRec == [raw : I64, currency : Currency]

\* The f64 value a decimal literal in the caller's code compiles to.
AmountLiterals == {ToFloat(a) : a \in Amounts}

\* The amount a raw value stands for, exactly.
Decoded(m) == Rat(m.raw, FIXED_SCALAR)

ScalarOps == {"add_f64", "sub_f64", "mul_f64", "div_f64"}


Return(op, args, res) == last' = [op |-> op, args |-> args, res |-> res, val |-> <<>>]

\* A call that returns the value v.
ReturnValue(op, args, v) ==
    last' = [op |-> op, args |-> args, res |-> "ok", val |-> <<v>>]

\* Store m in slot d.
Put(d, m) == held' = [held EXCEPT ![d] = m]

-----------------------------------------------------------------------------
(* Constructors.                                                           *)

\* check_in_range_inclusive_f64(amount, MONEY_MIN, MONEY_MAX, "amount")
AmountInRange(amount) ==
    RatLeq(Int2Rat(MONEY_MIN), amount) /\ RatLeq(amount, Int2Rat(MONEY_MAX))

MoneyOf(amount, c) ==
    [raw |-> f64_to_fixed_i64(amount, Precision[c]), currency |-> c]

\* The literals' Money, computed once per run.
InRangeLiterals == {a \in AmountLiterals : AmountInRange(a)}
Minted == [c \in Currency |-> [a \in InRangeLiterals |-> MoneyOf(a, c)]]

\* Money::new_checked: Err when the amount is out of range.
NewChecked(d, amount, c) ==
    /\ IF amount \in InRangeLiterals
         THEN Put(d, Minted[c][amount]) /\ Return("new_checked", <<d, amount, c>>, "ok")
         ELSE UNCHANGED held /\ Return("new_checked", <<d, amount, c>>, "err")
    /\ UNCHANGED build

\* Money::new: new_checked(..).expect(FAILED).
New(d, amount, c) ==
    /\ IF amount \in InRangeLiterals
         THEN Put(d, Minted[c][amount]) /\ Return("new", <<d, amount, c>>, "ok")
         ELSE UNCHANGED held /\ Return("new", <<d, amount, c>>, "panic")
    /\ UNCHANGED build

\* Money::from_raw: no check at all.
FromRaw(d, raw, c) ==
    /\ Put(d, [raw |-> raw, currency |-> c])
    /\ Return("from_raw", <<d>>, "ok")
    /\ UNCHANGED build

-----------------------------------------------------------------------------
(* Operators.  `s`, `t` are operand slots, `d` the slot of the result.     *)

\* Neg: `-self.raw`, an unchecked negation.
Neg(s, d) ==
    LET m == held[s] IN
    /\ m # NoMoney
    /\ IF -m.raw \in I64
         THEN Put(d, [m EXCEPT !.raw = -m.raw]) /\ Return("neg", <<s, d>>, "ok")
       ELSE IF build = "debug"
         THEN UNCHANGED held /\ Return("neg", <<s, d>>, "panic")
         ELSE Put(d, [m EXCEPT !.raw = Wrap(-m.raw)])
              /\ Return("neg", <<s, d>>, "ok")
    /\ UNCHANGED build

\* The body shared by Add/AddAssign and Sub/SubAssign: assert_eq! on the
\* currencies, then checked_add / checked_sub(..).expect(..).
AddRaw(a, b) == CheckedAdd(a, b)
SubRaw(a, b) == CheckedSub(a, b)

\* The checked raw operation of each operator.
RawOp(op, a, b) ==
    IF op \in {"add", "add_assign"} THEN AddRaw(a, b) ELSE SubRaw(a, b)

\* Mutation: the assert_eq! on the currencies left out.
ArithNoCurrencyCheck(op, s, t, d) ==
    LET x == held[s]
        y == held[t]
    IN
    /\ x # NoMoney /\ y # NoMoney
    /\ IF RawOp(op, x.raw, y.raw) = <<>>
         THEN UNCHANGED held /\ Return(op, <<s, t, d>>, "panic")
         ELSE Put(d, [raw |-> RawOp(op, x.raw, y.raw)[1], currency |-> x.currency])
              /\ Return(op, <<s, t, d>>, "ok")
    /\ UNCHANGED build

Arith(op, s, t, d) ==
    LET x == held[s]
        y == held[t]
    IN
    /\ x # NoMoney /\ y # NoMoney
    /\ IF x.currency # y.currency \/ RawOp(op, x.raw, y.raw) = <<>>
         THEN UNCHANGED held /\ Return(op, <<s, t, d>>, "panic")
         ELSE Put(d, [raw |-> RawOp(op, x.raw, y.raw)[1], currency |-> x.currency])
              /\ Return(op, <<s, t, d>>, "ok")
    /\ UNCHANGED build

Add(s, t, d) == Arith("add", s, t, d)
Sub(s, t, d) == Arith("sub", s, t, d)

\* AddAssign / SubAssign: `self.raw = ...` in place, so the result slot is
\* the left operand's own.
AddAssign(s, t) == Arith("add_assign", s, t, s)
SubAssign(s, t) == Arith("sub_assign", s, t, s)

\* Ord::cmp and PartialOrd::lt/le/gt/ge: assert_eq! on the currencies,
\* then compare raw values.
CmpOrd(x, y) ==
    IF x.raw < y.raw THEN "Less" ELSE IF x.raw = y.raw THEN "Equal" ELSE "Greater"

Cmp(s, t) ==
    LET x == held[s]
        y == held[t]
    IN
    /\ x # NoMoney /\ y # NoMoney
    /\ Return("cmp", <<s, t>>,
              IF x.currency # y.currency THEN "panic" ELSE CmpOrd(x, y))
    /\ UNCHANGED <<held, build>>

-----------------------------------------------------------------------------
(* Queries: they read a slot and change nothing but what the call returns. *)

\* PartialEq::eq: raw and currency compared, with no assert_eq! on the
\* currencies.
Eq(s, t) ==
    LET x == held[s]
        y == held[t]
    IN
    /\ x # NoMoney /\ y # NoMoney
    /\ Return("eq", <<s, t>>,
              IF x.raw = y.raw /\ x.currency = y.currency THEN "true" ELSE "false")
    /\ UNCHANGED <<held, build>>

\* Money::is_zero.
IsZero(s) ==
    /\ held[s] # NoMoney
    /\ Return("is_zero", <<s>>, IF held[s].raw = 0 THEN "true" ELSE "false")
    /\ UNCHANGED <<held, build>>

\* i64 division, truncating toward zero.
TruncDiv(a, b) == IF a >= 0 THEN a \div b ELSE -((-a) \div b)

\* Mutation: the raw rescaled by 10^precision instead of the digits it has
\* beyond the currency's precision.
as_decimal_scale_swapped(m) ==
    [mantissa |-> TruncDiv(m.raw, 10^Precision[m.currency]),
     scale |-> Precision[m.currency]]

\* Money::as_decimal: the raw rescaled down to the currency's precision by
\* i64 division, then read as a Decimal [mantissa, scale].
as_decimal(m) ==
    [mantissa |-> TruncDiv(m.raw, 10^(FIXED_PRECISION - Precision[m.currency])),
     scale |-> Precision[m.currency]]

AsDecimal(s) ==
    /\ held[s] # NoMoney
    /\ ReturnValue("as_decimal", <<s>>, as_decimal(held[s]))
    /\ UNCHANGED <<held, build>>

\* Money::as_f64: fixed_i64_to_f64(self.raw).
as_f64(m) == fixed_i64_to_f64(m.raw)

AsF64(s) ==
    /\ held[s] # NoMoney
    /\ ReturnValue("as_f64", <<s>>, as_f64(held[s]))
    /\ UNCHANGED <<held, build>>

\* Add<f64>, Sub<f64>, Mul<f64>, Div<f64> for Money: self.as_f64() op rhs,
\* an f64 result; the Money is left as it was.
ScalarResult(op, m, x) ==
    CASE op = "add_f64" -> FAdd(as_f64(m), x)
      [] op = "sub_f64" -> FSub(as_f64(m), x)
      [] op = "mul_f64" -> FMul(as_f64(m), x)
      [] op = "div_f64" -> FDiv(as_f64(m), x)

ScalarOp(op, s, x) ==
    /\ held[s] # NoMoney
    /\ ReturnValue(op, <<s>>, ScalarResult(op, held[s], x))
    /\ UNCHANGED <<held, build>>

-----------------------------------------------------------------------------

Init ==
    /\ held = [s \in Slots |-> NoMoney]
    /\ last = [op |-> "none", args |-> <<>>, res |-> "ok", val |-> <<>>]
    /\ build \in Builds

Calls ==
    \/ \E d \in Slots, a \in AmountLiterals, c \in Currency :
          NewChecked(d, a, c) \/ New(d, a, c)
    \/ \E d \in Slots, c \in Currency : \E r \in RawInputs[c] : FromRaw(d, r, c)
    \/ \E s, d \in Slots : Neg(s, d)
    \/ \E s, t, d \in Slots : Add(s, t, d) \/ Sub(s, t, d)
    \/ \E s, t \in Slots : AddAssign(s, t) \/ SubAssign(s, t) \/ Cmp(s, t)

Queries ==
    \/ \E s \in Slots : IsZero(s) \/ AsDecimal(s) \/ AsF64(s)
    \/ \E s \in Slots, op \in ScalarOps, x \in ScalarInputs : ScalarOp(op, s, x)
    \/ \E s, t \in Slots : Eq(s, t)

Next == Calls \/ Queries

Spec == Init /\ [][Next]_vars

-----------------------------------------------------------------------------
(* Properties.                                                             *)

\* Arithmetic never wraps (spec 4.1: overflow is checked and fatal).  Every
\* negation, addition or subtraction that returns normally stores the
\* exact mathematical result of its operands, so that x + (-x) is zero.
ExactResult(op, x, y) ==
    CASE op \in {"add", "add_assign"} -> x.raw + y.raw
      [] op \in {"sub", "sub_assign"} -> x.raw - y.raw
      [] op = "neg"                   -> -x.raw

NoSilentOverflow ==
    [][ (last'.op \in {"add", "sub", "add_assign", "sub_assign", "neg"}
         /\ last'.res = "ok")
        => LET a == last'.args
               x == held[a[1]]
               y == IF last'.op = "neg" THEN x ELSE held[a[2]]
           IN  held'[a[Len(a)]].raw = ExactResult(last'.op, x, y) ]_vars

\* The amount and currency each held Money stands for.
LedgerValue ==
    [s \in Slots |-> IF held[s] = NoMoney THEN NoMoney
                     ELSE [amount |-> Decoded(held[s]), currency |-> held[s].currency]]

\* The last call as the ledger sees it: an Err or a panic is a failure.
LedgerCall == [op |-> last.op, args |-> last.args, ok |-> last.res \notin {"err", "panic"}]

Ledger == INSTANCE MoneyLedger
    WITH value <- LedgerValue, call <- LedgerCall,
         QueryOps <- {"eq", "is_zero", "as_decimal", "as_f64"} \cup ScalarOps,
         TickOf <- [c \in Currency |-> Rat(1, 10^Precision[c])],
         Lo <- Int2Rat(MONEY_MIN), Hi <- Int2Rat(MONEY_MAX),
         Trusted <- UNION {{[amount |-> Rat(r, FIXED_SCALAR), currency |-> c] :
                                r \in RawInputs[c]} : c \in Currency}

\* Spec 3 and 4.1: Money implements exact decimal arithmetic per currency.
\* After any sequence of calls, every call that returns normally does what
\* the abstract MoneyLedger does for that call: new / new_checked store
\* the nearest tick of the amount, from_raw the trusted value, -x, x + y,
\* x - y, x += y and x -= y the exact result of their own operands, which
\* must share one currency, and cmp answers only for one currency; a call
\* that panics or returns an Err, and every query, changes nothing.
\* Mixing currencies in arithmetic or in cmp, wrapping on overflow,
\* swapping an operator, or rounding to a wrong tick breaks it.
MoneyRefinement == Ledger!Spec

\* as_decimal is exact (spec 4.1: the decimal view of the value, rescaled
\* from the internal fixed scale): the Decimal
\* it returns for any Money the caller holds, after any sequence of calls,
\* stands for exactly the amount the raw encodes.  The i64 division in
\* as_decimal truncates, so this fails as soon as a held raw has digits
\* below the currency's precision.
DecimalExact ==
    [][ last'.op = "as_decimal"
        => LET d == last'.val[1]
               m == held[last'.args[1]]
           IN  Rat(d.mantissa, 10^d.scale) = Decoded(m) ]_vars

\* Spec 3, Money invariant (1): every Money held decodes to an amount in
\* [MONEY_MIN, MONEY_MAX].
MoneyInRange ==
    \A s \in Slots :
        held[s] # NoMoney =>
            /\ RatLeq(Int2Rat(MONEY_MIN), Decoded(held[s]))
            /\ RatLeq(Decoded(held[s]), Int2Rat(MONEY_MAX))

=============================================================================
