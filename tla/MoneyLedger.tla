---------------------------- MODULE MoneyLedger ----------------------------
(***************************************************************************)
(* What Money promises its caller (spec 3 and 4.1), with amounts as exact  *)
(* rationals and no raw integers, floats or overflow: a Money is an amount *)
(* and a currency.  The caller keeps Money in variables (Slots) and makes  *)
(* one call at a time; `call` is the last call: its operation, its        *)
(* arguments (slots, and a minted amount and currency), and whether it     *)
(* returned normally (ok).                                                 *)
(*   - new / new_checked(amount, c) return normally only for an amount   *)
(*     in [Lo, Hi], and store the tick of c nearest to it (either tick     *)
(*     when it lies half-way between two);                                 *)
(*   - from_raw loads a trusted value as it is;                            *)
(*   - neg, add, sub, add_assign and sub_assign store the exact result of  *)
(*     their own operands, which must be in one currency;                  *)
(*   - cmp answers only for operands in one currency;                      *)
(*   - any call may fail instead (out of range, overflow), and then        *)
(*     changes nothing; the queries change nothing.                        *)
(* The rationals are those of FixedPoint.                                  *)
(***************************************************************************)
EXTENDS FixedPoint

CONSTANTS
    Slots,      \* the caller's Money variables
    Currency,   \* the currencies of the registry
    TickOf,     \* Currency -> the currency's tick, a positive rational
    Lo, Hi,     \* MONEY_MIN and MONEY_MAX, as rationals
    Trusted,    \* values a trusted source loads
    QueryOps,   \* the operations that only read (eq, is_zero, as_f64, ...)
    NoMoney     \* an empty variable

VARIABLES value, call

vars == <<value, call>>

MoneyValue(q, c) == [amount |-> q, currency |-> c]

InRange(q) == RatLeq(Lo, q) /\ RatLeq(q, Hi)

RatNeg(q) == [num |-> -q.num, den |-> q.den]

\* The ticks k * TickOf[c] nearest to q: |q / tick - k| <= 1/2.
NearestTicks(q, c) ==
    LET x == RatDiv(q, TickOf[c])
        k0 == x.num \div x.den
    IN  {RatMul(Int2Rat(k), TickOf[c]) :
            k \in {k \in {k0, k0 + 1} : 2 * Abs(x.num - k * x.den) <= x.den}}

Negation(x) == MoneyValue(RatNeg(x.amount), x.currency)
Sum(x, y) == MoneyValue(RatAdd(x.amount, y.amount), x.currency)
Difference(x, y) == MoneyValue(RatAdd(x.amount, RatNeg(y.amount)), x.currency)

\* The call just made returned normally.
Returned(op, args) == call' = [op |-> op, args |-> args, ok |-> TRUE]

\* Only variable d changed.
OnlyChanged(d) == \A s \in Slots \ {d} : value'[s] = value[s]

SameCurrency(s, t) ==
    /\ value[s] # NoMoney /\ value[t] # NoMoney
    /\ value[s].currency = value[t].currency

-----------------------------------------------------------------------------

\* new / new_checked(amount, c) into d: the call's own amount and currency.
Mint(d) ==
    /\ call'.op \in {"new", "new_checked"} /\ call'.ok /\ call'.args[1] = d
    /\ LET a == call'.args[2]
           c == call'.args[3]
       IN  /\ InRange(a)
           /\ \E t \in NearestTicks(a, c) :
                 value' = [value EXCEPT ![d] = MoneyValue(t, c)]

Load(d) ==
    /\ Returned("from_raw", <<d>>)
    /\ value'[d] \in Trusted /\ OnlyChanged(d)

Negate(s, d) ==
    /\ Returned("neg", <<s, d>>)
    /\ value[s] # NoMoney
    /\ value' = [value EXCEPT ![d] = Negation(value[s])]

\* x + y into d, or x += y (d is x's own variable).
Plus(s, t, d) ==
    /\ Returned("add", <<s, t, d>>) \/ (d = s /\ Returned("add_assign", <<s, t, s>>))
    /\ SameCurrency(s, t)
    /\ value' = [value EXCEPT ![d] = Sum(value[s], value[t])]

Minus(s, t, d) ==
    /\ Returned("sub", <<s, t, d>>) \/ (d = s /\ Returned("sub_assign", <<s, t, s>>))
    /\ SameCurrency(s, t)
    /\ value' = [value EXCEPT ![d] = Difference(value[s], value[t])]

Compare(s, t) ==
    /\ Returned("cmp", <<s, t>>)
    /\ SameCurrency(s, t)
    /\ UNCHANGED value

Query == call'.op \in QueryOps /\ UNCHANGED value

\* A call that fails leaves every variable as it was.
Fail == ~call'.ok /\ UNCHANGED value

Init ==
    /\ value = [s \in Slots |-> NoMoney]
    /\ call = [op |-> "none", args |-> <<>>, ok |-> TRUE]

Next ==
    \/ Query \/ Fail
    \/ \E s, t, d \in Slots :
          \/ Mint(d) \/ Load(d) \/ Negate(s, d)
          \/ Plus(s, t, d) \/ Minus(s, t, d) \/ Compare(s, t)

Spec == Init /\ [][Next]_vars

=============================================================================
