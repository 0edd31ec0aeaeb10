------------------------- MODULE FuturesInstrument -------------------------
(***************************************************************************)
(* A FuturesContract as an Instrument (futures_contract.rs): the contract  *)
(* a holder keeps, the JSON the derived Serialize writes of it, the        *)
(* derived Deserialize that reads a contract back, and the Instrument      *)
(* accessors every consumer queries.                                       *)
(*                                                                         *)
(* The holder keeps one contract (`held`) and the last JSON text it wrote  *)
(* or received (`json`).  The derived serde impls write and read every     *)
(* field by name, so a JSON object is the record of its fields; a text     *)
(* written elsewhere is one of `ForeignJson`.  The constructors are those  *)
(* of FuturesContract.                                                     *)
(***************************************************************************)
EXTENDS Integers

CONSTANTS
    Ids, Empty, Blank, Code, Precisions, Raws, Quantities, Decimals, NoValue,
    ForeignJson,   \* JSON objects of the contract's fields written elsewhere
    NoContract,    \* nothing held yet
    NoJson         \* nothing written yet

VARIABLES held, json

vars == <<held, json>>

FC == INSTANCE FuturesContract WITH last <- [op |-> "none"]

-----------------------------------------------------------------------------
(* The Instrument impl (futures_contract.rs:197-310), over the modelled    *)
(* fields.  An Option is a sequence: <<x>> or <<>>.                        *)

\* Mutation: price_precision() answering self.size_precision.
InstrumentViewPriceSlip(c) ==
    [instrument_class |-> "Future", underlying |-> <<c.underlying>>,
     base_currency |-> <<>>, isin |-> <<>>, option_kind |-> <<>>,
     exchange |-> c.exchange, strike_price |-> <<>>, is_inverse |-> FALSE,
     price_precision |-> c.size_precision, size_precision |-> 0,
     price_increment |-> c.price_increment, size_increment |-> 1,
     min_quantity |-> c.min_quantity, max_notional |-> <<>>,
     min_notional |-> <<>>]

InstrumentView(c) ==
    [instrument_class |-> "Future", underlying |-> <<c.underlying>>,
     base_currency |-> <<>>, isin |-> <<>>, option_kind |-> <<>>,
     exchange |-> c.exchange, strike_price |-> <<>>, is_inverse |-> FALSE,
     price_precision |-> c.price_precision, size_precision |-> 0,
     price_increment |-> c.price_increment, size_increment |-> 1,
     min_quantity |-> c.min_quantity, max_notional |-> <<>>,
     min_notional |-> <<>>]

-----------------------------------------------------------------------------
(* Actions.                                                                *)

\* new_checked: an Ok contract is kept; an Err leaves the holder as it was.
NewChecked(a) ==
    LET r == FC!new_checked(a) IN
    /\ held' = IF r.res = "ok" THEN r.contract ELSE held
    /\ UNCHANGED json

\* new: new_checked(..).expect(..); a panic leaves the holder as it was.
New(a) ==
    LET r == FC!new_checked(a) IN
    /\ r.res = "ok"
    /\ held' = r.contract
    /\ UNCHANGED json

\* #[derive(Serialize)]: every field written under its name.
Serialize ==
    /\ held # NoContract
    /\ json' = held
    /\ UNCHANGED held

\* #[derive(Deserialize)]: every field read from its name, with no call to
\* new_checked, from the text written last or from one written elsewhere.
Deserialize(j) ==
    /\ held' = j
    /\ UNCHANGED json

Init == held = NoContract /\ json = NoJson

Next ==
    \/ \E a \in FC!Args : NewChecked(a) \/ New(a)
    \/ Serialize
    \/ \E j \in ({json} \ {NoJson}) \cup ForeignJson : Deserialize(j)

Spec == Init /\ [][Next]_vars

-----------------------------------------------------------------------------
(* Properties.                                                             *)

\* Spec 4.2 and 3: the answers a futures contract gives to the capability
\* queries: an underlying that is a proper symbol, no base currency, isin,
\* option kind, strike or notional bounds, not inverse, size precision 0 and
\* increment 1, a positive price increment at the reported price precision,
\* and a minimum quantity.
FutureCapabilities ==
    { v \in [instrument_class : {"Future"},
             underlying : {<<Code>>},
             base_currency : {<<>>}, isin : {<<>>}, option_kind : {<<>>},
             exchange : {NoValue, Code}, strike_price : {<<>>},
             is_inverse : {FALSE}, price_precision : Precisions,
             size_precision : {0}, price_increment : FC!Prices,
             size_increment : {1}, min_quantity : Quantities \cup {1},
             max_notional : {<<>>}, min_notional : {<<>>}] :
        /\ v.price_precision = v.price_increment.precision
        /\ v.price_increment.raw > 0 }

Abstract == INSTANCE InstrumentCapability
    WITH Capabilities <- FutureCapabilities, NoInstrument <- NoContract,
         instrument <- IF held = NoContract THEN NoContract
                                            ELSE InstrumentView(held)

\* The contract the holder keeps always answers the capability queries as
\* a futures contract must (spec 4.2), whether it came from new_checked,
\* new, or a Deserialize of what Serialize wrote: the holder implements
\* the abstract InstrumentCapability specification.
InstrumentRefinement == Abstract!Spec

==============================================================================
