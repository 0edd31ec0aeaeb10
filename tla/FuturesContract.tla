-------------------------- MODULE FuturesContract --------------------------
(***************************************************************************)
(* FuturesContract (model/src/instruments/futures_contract.rs): the        *)
(* validating factory new_checked, the aborting wrapper new, the defaults  *)
(* the factory fills in, and identity by id.  FuturesInstrument adds the   *)
(* holder of a contract, serde and the Instrument accessors.               *)
(*                                                                         *)
(* The caller constructs one contract at a time; `last` is the call, its   *)
(* arguments and what it returned.  Only the fields the                    *)
(* factory reads or defaults are modelled; the others are copied through   *)
(* unchanged and carry no behaviour.  A string field is a model value for  *)
(* its class: empty, all whitespace, or a proper code.                     *)
(***************************************************************************)
EXTENDS Integers

CONSTANTS
    Ids,          \* instrument ids
    Empty,        \* ""
    Blank,        \* a string of whitespace only
    Code,         \* a proper code ("XCME", "ES")
    Precisions,   \* price precisions the caller passes
    Raws,         \* raw values of price increments the caller passes
    Quantities,   \* min_quantity values the caller passes
    Decimals,     \* margin values the caller passes
    NoValue       \* Option::None

Texts == {Empty, Blank, Code}

VARIABLE last

vars == <<last>>

-----------------------------------------------------------------------------

\* check_valid_string (nautilus_core::correctness): Err when the string is
\* empty or all whitespace.
ValidString(s) == s = Code

\* The price increment is a Price [raw, precision].
Prices == [raw : Raws, precision : Precisions]

\* One call's arguments.
Args == [id : Ids, exchange : Texts \cup {NoValue}, underlying : Texts,
         price_precision : Precisions, price_increment : Prices,
         min_quantity : Quantities \cup {NoValue},
         margin_init : Decimals \cup {NoValue},
         margin_maint : Decimals \cup {NoValue}]

UnwrapOr(o, default) == IF o = NoValue THEN default ELSE o

\* The checks of new_checked, in order, and the parameter name each one
\* reports: check_valid_string_optional(exchange, stringify!(isin)),
\* check_valid_string(underlying, ..), check_equal_u8(price_precision,
\* price_increment.precision, ..), check_positive_i64(price_increment.raw).
CheckNames == <<"isin", "underlying", "price_precision", "price_increment.raw">>

CheckOk(i, a) ==
    CASE i = 1 -> a.exchange = NoValue \/ ValidString(a.exchange)
      [] i = 2 -> ValidString(a.underlying)
      [] i = 3 -> a.price_precision = a.price_increment.precision
      [] i = 4 -> a.price_increment.raw > 0

\* The `?` after each check: the first failing one is the error.
FirstFailing(a) ==
    LET failing == {i \in 1..4 : ~CheckOk(i, a)}
    IN  CHOOSE i \in failing : \A j \in failing : i <= j

\* Ok(Self { .. }): the arguments, with size_precision 0, size_increment 1,
\* margins defaulting to 0 and min_quantity to 1.
Built(a) ==
    [id |-> a.id, exchange |-> a.exchange, underlying |-> a.underlying,
     price_precision |-> a.price_precision, price_increment |-> a.price_increment,
     size_precision |-> 0, size_increment |-> 1,
     margin_init |-> UnwrapOr(a.margin_init, 0),
     margin_maint |-> UnwrapOr(a.margin_maint, 0),
     min_quantity |-> UnwrapOr(a.min_quantity, 1)]

new_checked(a) ==
    IF \A i \in 1..4 : CheckOk(i, a)
      THEN [res |-> "ok", contract |-> Built(a)]
      ELSE [res |-> "err", field |-> CheckNames[FirstFailing(a)]]

\* PartialEq / Hash: by id alone.
ContractEq(x, y) == x.id = y.id

-----------------------------------------------------------------------------
(* Actions.                                                                *)

\* FuturesContract::new_checked.
NewChecked(a) ==
    last' = [op |-> "new_checked", args |-> a, ret |-> new_checked(a)]

\* FuturesContract::new: new_checked(..).expect(FAILED).
New(a) ==
    LET r == new_checked(a) IN
    last' = [op |-> "new", args |-> a,
             ret |-> IF r.res = "ok" THEN r ELSE [res |-> "panic"]]

Init == last = [op |-> "none"]

Next == \E a \in Args : NewChecked(a) \/ New(a)

Spec == Init /\ [][Next]_vars

-----------------------------------------------------------------------------
(* Properties.                                                             *)

\* Every contract new_checked can return.
Contracts ==
    [id : Ids, exchange : Texts \cup {NoValue}, underlying : Texts,
     price_precision : Precisions, price_increment : Prices,
     size_precision : {0}, size_increment : {1},
     margin_init : Decimals \cup {0}, margin_maint : Decimals \cup {0},
     min_quantity : Quantities \cup {1}]

\* Spec 4.2: a validation error identifies the offending field, that of
\* the first check (in the order exchange, underlying, price_precision,
\* price_increment) the arguments fail.
SpecFieldNames == <<"exchange", "underlying", "price_precision", "price_increment.raw">>

ErrorNamesOffendingField ==
    [][ (last'.op = "new_checked" /\ last'.ret.res = "err")
        => last'.ret.field = SpecFieldNames[FirstFailing(last'.args)] ]_vars

==============================================================================
