# TLA+ models of nautbt's value layer and Tardis normalizer

This directory has TLA+ models of three Rust files:

- `model/src/types/money.rs` (Money);
- `model/src/instruments/futures_contract.rs` (FuturesContract);
- `adapters/src/tardis/parse.rs` (the Tardis normalizer).

It also models the parts of `nautilus_core` those files call and that are not among the sources: `fixed.rs` and `correctness.rs`. Those parts are modelled from `spec.md` and are marked `spec_modelled` in `PROJECT.json`.

## The system

| Part | State | Operations | Interacts with |
|---|---|---|---|
| FixedPointValue (`fixed.rs`) | none (pure) | `f64_to_fixed_i64`, `fixed_i64_to_f64` | used by Money |
| Money | a value: `raw: i64` at FIXED_PRECISION = 9 digits, plus a `currency` | `new_checked`, `new`, `from_raw`, `-`, `+`, `-`, `+=`, `-=`, `cmp`/`lt`/…, Display, FromStr, From<&str>, Serialize, Deserialize, and the queries `as_f64`, `as_decimal`, … | the currency registry (code and precision); serde |
| FuturesContract | an immutable record | `new_checked`, `new`, equality and hash by `id`, derived Serialize/Deserialize, Instrument accessors | Price, Quantity, Currency; serde |
| Tardis normalizer | none (pure) | `parse_symbol_str`, `parse_instrument_id`, `parse_order_side`, `parse_aggressor_side`, `parse_option_kind`, `parse_timestamp`, `parse_book_action`, `parse_bar_spec` | `Exchange::as_venue` |

Nothing in the code is concurrent, persisted or sent between processes. What is hard lies elsewhere:

- sequences of calls by the caller that drive a value to an edge, such as an i64 or MONEY_MAX, a float that no longer resolves a tick, or a wrong currency;
- the composition of two conversions, Display then FromStr;
- the order of checks and the messages they report;
- parsers over inputs no test enumerates.

The models therefore treat the caller as the environment. The caller holds a few Money variables (`Slots`) and calls one operation at a time. A panic is an outcome (`res = "panic"`), after which the caller keeps the values it held. This is what the Python binding does when it turns a panic into an exception.

## Modules

| Module | Models | State | Actions |
|---|---|---|---|
| `FixedPoint` | i64 two's complement, `checked_add`/`checked_sub`, wrapping, f64 rounding, `fixed.rs` | none (operators) | — |
| `Money` (EXTENDS FixedPoint) | `money.rs`, constructors and operators | `held` (the caller's Money variables), `last` (the call and its outcome), `build` (debug or release) | `NewChecked`, `New`, `FromRaw`, `Neg`, `Add`, `Sub`, `AddAssign`, `SubAssign`, `Cmp` (the `Calls`), and the queries `Eq`, `IsZero`, `AsDecimal`, `AsF64` and `ScalarOp` (the Money-by-f64 operators), which return a value in `last.val` and change nothing else |
| `MoneyLedger` (EXTENDS FixedPoint, for its rationals) | abstract specification of spec 3 and 4.1: Money as an exact rational amount and a currency | `value` (the caller's Money variables), `call` (the last call: operation, arguments, whether it returned normally) | each step is one call: `Mint` stores the tick of the call's own currency nearest to the call's own in-range amount; `Load` a trusted value; `Negate`, `Plus`, `Minus` the exact result of the call's own operands in one currency; `Compare` answers only within one currency; `Query` and `Fail` change nothing |
| `MoneyWire` | abstract specification: a FIFO wire of Money values | `held`, `wire` | `Local`, `Send`, `Receive` |
| `MoneyText` (EXTENDS Money) | Display, FromStr, From<&str>, Serialize, Deserialize | adds `wire`, the texts serialized and not yet read | `Serialize`, `Deserialize`, `DeserializeForeign`, `FromStr`, plus every Money call (the read-only queries are left to `Money`) |
| `FuturesContract` | `new_checked`, `new`, PartialEq/Hash | `last` (the call, its arguments and its result) | `NewChecked`, `New` |
| `FuturesInstrument` | a holder of one contract: the constructors, derived Serialize/Deserialize, and the Instrument accessors (`InstrumentView`) | `held` (the contract kept), `json` (the last JSON object written) | `NewChecked`, `New`, `Serialize`, `Deserialize` |
| `InstrumentCapability` | abstract specification of spec 4.2: the instrument held answers every capability query from an admissible set | `instrument` | `List` |
| `TardisParse` | every function of `parse.rs` | `record` (the raw record), `output` (the parse result) | one action per parse function |

How the code corresponds to the model:

- **Integers keep their width.** TLC integers are 32-bit, so the widths are scaled down together:
  - the raw is RawBits = 6 bits, giving the range [-32, 31];
  - FIXED_PRECISION is 1, so MONEY_MAX = 31 div 10 = 3, exactly as `9_223_372_036 = i64::MAX div 10^9`;
  - floats keep FloatBits significant bits (f64: 53).
  What decides whether Display round-trips is whether a float near amount v still resolves half a tick: v·2^-FloatBits < 10^-p/2. `MC_MoneyText.tla` gives the thresholds for f64 and for the model.
- **Floats are rationals** rounded to FloatBits bits, ties to even:
  - `f64::round` is half away from zero;
  - `as i64` truncates and saturates;
  - `{:.*}` formatting rounds the exact float value, ties to even.
- **Texts are token sequences.** A text is the sequence of its whitespace-separated tokens. A numeral is `[digits, places]`; other tokens are a currency, `Junk` (not an f64) or `UnknownCode`.
- **Tardis strings are character sequences.** A bar-spec string is a sequence of one-character strings, because its characters are what `parse_bar_spec` branches on.
- **A JSON object of a FuturesContract is the record of its fields.** The derived serde impls write and read each field under its name and nothing else. So what a text can carry is exactly a field record. A text written by another producer is one of `ForeignJson`.
- **The Instrument accessors are one record.** `InstrumentView(c)` gives the answer of every accessor over the modelled fields: `<<x>>` for `Some(x)` and `<<>>` for `None`. The refinement mapping sends the holder's contract to this record. `FutureCapabilities` is the set of answers spec 4.2 and spec 3 admit for a future.
- **`build`** decides what an unchecked i64 overflow does: it panics in debug and wraps in release.

## Runs

| Run | cfg | Expect | Checks |
|---|---|---|---|
| money_core | `MC_Money.cfg` | pass | `DecimalExact` and `MoneyRefinement` (Money implements `MoneyLedger` through `LedgerValue`, which reads each raw as the exact amount raw / 10^FIXED_PRECISION, and `LedgerCall`, which reads an Err or a panic as a failed call) over every sequence of calls and queries, with two currencies (precision 0 and 1), six amounts including out-of-range ones, and from_raw |
| money_range | `MC_Money_range.cfg` | violation | `MoneyInRange`: new(-0.2) + new(-3) stores -3.2 < MONEY_MIN |
| money_release_neg | `MC_Money_release.cfg` | violation | `NoSilentOverflow` in release: -(i64::MIN) wraps |
| money_roundtrip | `MC_MoneyText_exact.cfg` | pass | `RoundTrip`: MoneyText refines MoneyWire for a precision-0 and a precision-1 currency when floats resolve a tick (10 bits), with the malformed texts of the money.rs tests fed to from_str and Deserialize |
| money_roundtrip_float | `MC_MoneyText_fine.cfg` | violation | `RoundTrip` with 5-bit floats: -2.7 is written "-2.8" |
| money_fromstr | `MC_MoneyText_fromstr.cfg` | violation | `FromStrNeverPanics`: "3.1 CcyWhole" panics in Money::new |
| money_deserialize | `MC_MoneyText_deser.cfg` | violation | `DeserializeNeverPanics`: "0USD" panics through unwrap |
| futures_instrument | `MC_FuturesInstrument.cfg` | pass | `InstrumentRefinement`: through new_checked and new over all 768 argument combinations, Serialize and Deserialize, the holder implements `InstrumentCapability` |
| futures_instrument_foreign | `MC_FuturesInstrument_foreign.cfg` | violation | `InstrumentRefinement` when a JSON object from another producer is deserialized |
| futures_contract_errors | `MC_FuturesContract_errors.cfg` | violation | `ErrorNamesOffendingField`: a blank exchange is reported as `isin` |
| tardis_parse | `MC_TardisParse.cfg` | pass | `BarSpecMatchesGrammar`, `FieldParsersMatchSpec`, with bar specs that reach every unit including `ticks` |

Each passing property has a mutant in `PROJECT.json`: a plausible bug in the mapped code that TLC then reports. The mutants are:

- a missing `assert_eq!` on the currencies, which `MoneyRefinement` reports because the ledger has no step that adds amounts of two currencies;
- a truncating Display;
- the first `_` segment taken instead of the last;
- the amount tested before the snapshot flag;
- `as_decimal` dividing by 10^precision instead of 10^(FIXED_PRECISION - precision);
- `price_precision()` answering the size precision.

### Findings

1. **Out-of-range sums (money.rs:245).** Money arithmetic checks i64 overflow only, so sums beyond ±MONEY_MAX are stored. This contradicts spec 3.
2. **Unchecked negation (money.rs:228).** Negation is unchecked: it panics in debug and wraps in release. This contradicts spec 4.1.
3. **Display loses digits (money.rs:343).** Display goes through f64, so precision-9 amounts above about 4.5e6 do not survive `to_string` then `from_str`. This contradicts spec 8.
4. **`from_str` panics (money.rs:150).** It panics on an out-of-range amount. This contradicts spec 4.1 and 7.
5. **Deserialize panics (money.rs:366 via 156).** It panics on malformed text. This contradicts spec 7.
6. **Wrong field name (futures_contract.rs:98).** The exchange check reports the parameter name `isin`. This contradicts spec 4.2.
7. **Deserialize skips validation (futures_contract.rs:37).** The derived Deserialize builds a contract from any JSON object. A contract whose price precision disagrees with its increment is accepted, and its accessors then report inconsistent terms. This contradicts spec 3: a contract is constructed once via a validating factory.

### Bounds and why they are enough

- **Money.** Two slots are enough for every binary operation, including both operands in one slot (`x + x`, `x += x`). The amounts are chosen so that each of these happens:
  - an amount lies outside the range;
  - at precision 0, -0.2 rounds toward zero, 0.7 away from zero, and 0.5 lies half-way between two ticks;
  - sums reach both ends of i64 and of [MONEY_MIN, MONEY_MAX].
  The round-trip runs use {-3, 0.3, 3}. Sums of these reach the multiples of 0.3 in [-3, 3], and those plus or minus 3, and cannot leave the range without overflowing the raw, so a failed round trip is due to the float alone.
- **Wire.** For the round trip, a wire of one text is enough because the wire is FIFO with a single reader. The exact round-trip run uses both currencies, so that Deserialize of a text written in one currency meets a slot of the other.
- **Views.** No action reads `last` (or, in MoneyText, anything but `held`, `build` and `wire`), so the Money and MoneyText runs use a VIEW without it. Successors depend only on the viewed variables, so the view loses no behaviour of them. But a state whose view was already seen is not explored again, so an invariant that read `last` would be checked only on the first such state. The runs with a view therefore check only invariants of the viewed variables and action properties. TLC evaluates action properties on every step it generates, including a step into a state already seen, so they see `last'` of every call. Without the view the two-currency round trip ran past five minutes. Three slots, with or without the view, also ran past five minutes, so two slots stay.
- **The Money refinement.** `MoneyLedger` is checked as an action property on every step of money_core. Its next-state relation tests the one changed variable against what the operations can make of the current values, so that no set of all mintable values is built on each step; the check adds about 20 s. The ledger keeps every amount in range only at minting: sums beyond [MONEY_MIN, MONEY_MAX] are exact arithmetic to it, so they are the subject of money_range, not of the refinement. `new` and `new_checked` record their amount and currency in `last.args`, so a constructor that truncates instead of rounding, or stores the value under another currency, is reported.
- **Scalar inputs.** The f64 right operands are {-2, 0.5}: a negative whole number and a binary fraction, exact in every float width, which keep the rational intermediates inside TLC's 32-bit integers.
- **FuturesContract.** Every check fails alone and together with the ones after it.
- **FuturesInstrument.** The holder keeps one contract, because the refinement is a property of each contract held and Serialize and Deserialize act on one contract at a time. The foreign object differs from a valid contract in one field, the price precision.
- **MoneyText.** The malformed texts name the run's one currency, and the valid one is 0.3, so that from_str cannot take a sum out of range and a failed round trip stays due to the float alone.
- **Tardis.**
  - Bar specs cover all 111,111 strings of up to 5 characters over `_ 0 1 9 m s v o l x`. This includes several segments, empty segments, digit-only last segments, empty steps, steps that overflow the 4-bit usize ("19m"), every unit except `ticks`, and unknown suffixes.
  - `ticks` needs 6 characters. The run adds all 137,257 strings of up to 6 characters over `_ 1 t i c k s`. These include `1ticks`, its prefixes and other suffixes of its letters; a `match` without the `ticks` arm passes on the first alphabet alone.
  - Timestamps run up to the largest value whose product fits u64.

### Fairness

No property is a liveness property. Every operation is a single call that returns or panics within the caller's own step, and nothing waits on anything else, so there is no progress to promise beyond what each step already shows. The only actor is the caller, which is never obliged to call anything: a weak-fairness conjunct on its calls would assume behaviour the code does not control. So no fairness is assumed, and the abstract specifications (`MoneyLedger`, `MoneyWire`, `InstrumentCapability`) are safety specifications without fairness conjuncts.

`MC_TardisParse.cfg` sets `CHECK_DEADLOCK FALSE` because each behaviour is one parse call. The parse functions keep no state, so a feed is a sequence of independent such calls. Enumerating a next record after each call would square the state graph without adding behaviour.

## Not modelled

- **Queries that return text or hashes:** `to_formatted_string`, Hash and Debug of Money. They change no state, and the spec says nothing of them beyond what Display already shows.
- **Accessors of fields the model does not carry:** raw symbol, currency, timestamps, multiplier, lot size, and the price and quantity bounds. Each returns its field unchanged.
- **The caller's store of contracts keyed by id:** no such collection is among the sources, so the hazard of a stale contract kept under an equal id has no property.
- **Defined outside the sources:**
  - the currency registry is the constants `Currency` and `Precision`;
  - `Exchange::as_venue` is the constant `VenueOf`.
- **Out of scope (spec 1):** the pyo3 binding.

## Plan for later work

1. **A release-build run of `parse_timestamp`** past its precondition, if the spec ever promises more than the caller's guarantee.
2. **Deeper Money sequences:** three slots. They ran past five minutes in every form tried, so they need a faster machine or a smaller amount set.
3. **MoneyText with the queries,** so that the Decimal view of a deserialized value is checked too.
