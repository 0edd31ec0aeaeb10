----------------------------- MODULE MoneyText -----------------------------
(***************************************************************************)
(* The textual form of Money (money.rs: Display, FromStr, From<&str>,      *)
(* Serialize, Deserialize) composed with the Money operations of module    *)
(* Money.  Serialize writes `to_string()` to a wire (the JSON the value is *)
(* embedded in), Deserialize reads the oldest text back with               *)
(* Money::from(&str).  Texts from elsewhere (ForeignTexts) are parsed with *)
(* from_str and with Deserialize directly.                                 *)
(*                                                                         *)
(* A text is the sequence of its whitespace-separated tokens.  A token is  *)
(* a decimal numeral [digits |-> n, places |-> k] (the text of n / 10^k,   *)
(* after any '_' separators are stripped), a currency code (an element of  *)
(* Currency), or a token that is neither (Junk, UnknownCode).              *)
(***************************************************************************)
EXTENDS Money

CONSTANTS
    MaxWire,       \* texts in flight on the wire
    ForeignTexts,  \* texts handed to from_str / deserialize from elsewhere
    Junk,          \* a token that does not parse as an f64
    UnknownCode    \* a token that is not a code of the registry

VARIABLES wire

textVars == <<held, last, build, wire>>

Numeral(n, k) == [digits |-> n, places |-> k]

-----------------------------------------------------------------------------

\* Mutation: the amount truncated to `precision` places instead of rounded.
to_string_truncating(m) ==
    LET p == Precision[m.currency]
        f == fixed_i64_to_f64(m.raw)
    IN  <<Numeral((f.num * 10^p) \div f.den, p), m.currency>>

\* Display: format!("{:.*} {}", precision, self.as_f64(), self.currency):
\* the f64 value printed exactly to `precision` places, ties to even.
to_string(m) ==
    LET p == Precision[m.currency]
        f == fixed_i64_to_f64(m.raw)
    IN  <<Numeral(RoundHalfEven(f.num * 10^p, f.den), p), m.currency>>

\* str::parse::<f64> (after .replace('_', "")): the float nearest to the
\* numeral; anything else is a ParseFloatError.
IsNumeral(tok) == tok \notin Currency \cup {Junk, UnknownCode}

ParseF64(tok) ==
    IF IsNumeral(tok)
      THEN <<ToFloat(Rat(tok.digits, 10^tok.places))>>
      ELSE <<>>

\* Currency::from_str: a lookup in the registry.
ParseCurrency(tok) == IF tok \in Currency THEN <<tok>> ELSE <<>>

\* FromStr::from_str: Err on a wrong token count, an unparseable amount or
\* an unknown code; otherwise Self::new(amount, currency), which panics on
\* an out-of-range amount.
from_str(text) ==
    CASE Len(text) # 2                  -> [res |-> "err"]
      [] ParseF64(text[1]) = <<>>       -> [res |-> "err"]
      [] ParseCurrency(text[2]) = <<>>  -> [res |-> "err"]
      [] ~AmountInRange(ParseF64(text[1])[1]) -> [res |-> "panic"]
      [] OTHER -> [res |-> "ok",
                   money |-> MoneyOf(ParseF64(text[1])[1], text[2])]

\* From<&str> (used by Deserialize): from_str(..).unwrap().
from_unwrap(text) ==
    LET r == from_str(text)
    IN  IF r.res = "err" THEN [res |-> "panic"] ELSE r

\* The text of every Money, computed once per run.
DisplayText == [m \in MoneyRec |-> to_string(m)]

-----------------------------------------------------------------------------

\* Serialize: serializer.serialize_str(&self.to_string()).
Serialize(s) ==
    /\ held[s] # NoMoney
    /\ Len(wire) < MaxWire
    /\ wire' = Append(wire, DisplayText[held[s]])
    /\ Return("serialize", <<s>>, "ok")
    /\ UNCHANGED <<held, build>>

\* Deserialize: read a String, then Money::from(money_str.as_str()).
DeserializeText(d, text) ==
    LET r == from_unwrap(text) IN
    /\ IF r.res = "ok" THEN Put(d, r.money) ELSE UNCHANGED held
    /\ Return("deserialize", <<d>>, r.res)
    /\ UNCHANGED build

Deserialize(d) ==
    /\ wire # <<>>
    /\ DeserializeText(d, Head(wire))
    /\ wire' = Tail(wire)

DeserializeForeign(d, text) ==
    /\ DeserializeText(d, text)
    /\ UNCHANGED wire

\* Money::from_str on a foreign text.
FromStr(d, text) ==
    LET r == from_str(text) IN
    /\ IF r.res = "ok" THEN Put(d, r.money) ELSE UNCHANGED held
    /\ Return("from_str", <<d>>, r.res)
    /\ UNCHANGED <<build, wire>>

-----------------------------------------------------------------------------

TextInit == Init /\ wire = <<>>

TextNext ==
    \/ Calls /\ UNCHANGED wire
    \/ \E s \in Slots : Serialize(s) \/ Deserialize(s)
    \/ \E d \in Slots, text \in ForeignTexts :
          FromStr(d, text) \/ DeserializeForeign(d, text)

TextSpec == TextInit /\ [][TextNext]_textVars

-----------------------------------------------------------------------------
(* Properties.                                                             *)

\* Spec 8, round trip: every Money written to the wire reads back as the
\* same Money, in the order written.  The texts on the wire stand for the
\* Money from_str makes of them (the refinement mapping); a text it cannot
\* read stands for NoMoney, which no Send writes.
WireValue(text) ==
    LET r == from_str(text) IN IF r.res = "ok" THEN r.money ELSE NoMoney

\* Every text Serialize can write, and the Money each one stands for,
\* computed once.
WireTexts == {DisplayText[m] : m \in MoneyRec}
WireDecoding == [text \in WireTexts |-> WireValue(text)]

Wire == INSTANCE MoneyWire
            WITH MoneyValue <- MoneyRec,
                 wire <- [i \in DOMAIN wire |-> WireDecoding[wire[i]]]

RoundTrip == Wire!Spec

\* Spec 4.1 and 7: malformed or out-of-range text is an input-validation
\* failure that from_str reports as an Err; it never panics.
FromStrNeverPanics ==
    [][ last'.op = "from_str" => last'.res # "panic" ]_textVars

\* Spec 7: a malformed serialized Money is a recoverable error of the
\* deserialiser, never a panic of the process reading the JSON.
DeserializeNeverPanics ==
    [][ last'.op = "deserialize" => last'.res # "panic" ]_textVars

=============================================================================
