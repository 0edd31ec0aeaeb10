---------------------------- MODULE TardisParse ----------------------------
(***************************************************************************)
(* The Tardis market-data normalizer (adapters/src/tardis/parse.rs): pure  *)
(* functions from raw exchange fields to the canonical model.              *)
(*                                                                         *)
(* Each behaviour is one call: a raw record of some kind arrives and the   *)
(* parser for its kind maps it to its value.  The functions keep no state  *)
(* between calls, so a feed is a sequence of such independent calls and a  *)
(* behaviour ends after its call.  A string is a sequence of one-character *)
(* strings; the raw bar specs are every string of up to a length over an   *)
(* alphabet, for each [chars, len] of BarSpecShapes.  A parse that         *)
(* panics yields [panic |-> message].                                      *)
(***************************************************************************)
EXTENDS Integers, SequencesExt

CONSTANTS
    BarSpecShapes, \* set of [chars, len]: alphabets and longest lengths
    UsizeBits,    \* width of usize (64 in the code)
    U64Bits,      \* width of u64 (64 in the code)
    Exchange,     \* Tardis exchanges
    VenueOf,      \* Exchange -> venue (Exchange::as_venue)
    Symbols,      \* raw symbols, as sequences of one-character strings
    SideTexts,    \* raw side / aggressor strings
    Amounts       \* raw book amounts (f64 values)

ASSUME VenueOf \in [Exchange -> STRING]

VARIABLES record, output

feedVars == <<record, output>>

\* The call's result: <<>> before the call, <<value>> after it.
None == <<>>

-----------------------------------------------------------------------------
(* Strings.                                                                *)

\* The ASCII digits, in order, and the ASCII letters with their upper case.
DigitChars == <<"0", "1", "2", "3", "4", "5", "6", "7", "8", "9">>
Digits == {DigitChars[i] : i \in 1..10}
DigitValue == [d \in Digits |-> (CHOOSE i \in 1..10 : DigitChars[i] = d) - 1]

LowerChars == <<"a","b","c","d","e","f","g","h","i","j","k","l","m",
                "n","o","p","q","r","s","t","u","v","w","x","y","z">>
UpperChars == <<"A","B","C","D","E","F","G","H","I","J","K","L","M",
                "N","O","P","Q","R","S","T","U","V","W","X","Y","Z">>

\* char::to_uppercase on ASCII: letters map to upper case, others to themselves.
UpperChar(c) ==
    IF \E i \in 1..26 : LowerChars[i] = c
      THEN UpperChars[CHOOSE i \in 1..26 : LowerChars[i] = c]
      ELSE c

\* str::split(sep).collect(): the segments between separators, in order;
\* always at least one (possibly empty) segment.
RECURSIVE Split(_, _)
Split(s, sep) ==
    IF s = <<>> THEN <<<<>>>>
    ELSE LET rest == Split(Tail(s), sep) IN
         IF Head(s) = sep THEN <<<<>>>> \o rest
         ELSE <<<<Head(s)>> \o Head(rest)>> \o Tail(rest)

UsizeMax == 2^UsizeBits - 1
U64Max == 2^U64Bits - 1

\* <usize as FromStr>::from_str on a string of ASCII digits: Err on an
\* empty string or on overflow.
RECURSIVE DigitsValue(_)
DigitsValue(s) ==
    IF s = <<>> THEN 0
    ELSE DigitsValue(SubSeq(s, 1, Len(s) - 1)) * 10 + DigitValue[s[Len(s)]]

ParseUsize(s) ==
    IF s = <<>> \/ DigitsValue(s) > UsizeMax THEN <<>> ELSE <<DigitsValue(s)>>

-----------------------------------------------------------------------------
(* parse.rs                                                                *)

\* parse_symbol_str: symbol.to_uppercase().
parse_symbol_str(symbol) == [i \in DOMAIN symbol |-> UpperChar(symbol[i])]

\* parse_instrument_id: InstrumentId::new(Symbol(upper-cased), venue).
parse_instrument_id(exchange, symbol) ==
    [symbol |-> parse_symbol_str(symbol), venue |-> VenueOf[exchange]]

parse_order_side(value) ==
    CASE value = "bid" -> "Buy"
      [] value = "ask" -> "Sell"
      [] OTHER         -> "NoOrderSide"

parse_aggressor_side(value) ==
    CASE value = "buy"  -> "Buyer"
      [] value = "sell" -> "Seller"
      [] OTHER          -> "NoAggressor"

parse_option_kind(value) ==
    CASE value = "Call" -> "Call"
      [] value = "Put"  -> "Put"

\* parse_timestamp: value_us * NANOSECONDS_IN_MICROSECOND on u64, which
\* panics on overflow in a debug build and wraps in a release build.
parse_timestamp(value_us) ==
    IF value_us * 1000 <= U64Max THEN value_us * 1000 ELSE [panic |-> "overflow"]

\* parse_book_action: a snapshot entry is an Add whatever its amount.
\* Mutation: the amount tested before the snapshot flag.
parse_book_action_amount_first(is_snapshot, amount) ==
    IF amount = 0 THEN "Delete"
    ELSE IF is_snapshot THEN "Add"
    ELSE "Update"

parse_book_action(is_snapshot, amount) ==
    IF is_snapshot THEN "Add"
    ELSE IF amount = 0 THEN "Delete"
    ELSE "Update"

\* The match on the suffix: the aggregation, or "none" for the panic arm.
AggregationOf(suffix) ==
    CASE suffix = <<"m", "s">>               -> "Millisecond"
      [] suffix = <<"s">>                    -> "Second"
      [] suffix = <<"m">>                    -> "Minute"
      [] suffix = <<"t", "i", "c", "k", "s">> -> "Tick"
      [] suffix = <<"v", "o", "l">>           -> "Volume"
      [] OTHER                               -> "none"

\* Mutation: the first '_'-delimited part taken instead of the last.
parse_bar_spec_first_part(value) ==
    LET part     == Split(value, "_")[1]
        nondigit == {i \in DOMAIN part : part[i] \notin Digits}
    IN
    IF nondigit = {} THEN [panic |-> "Invalid bar spec"]
    ELSE
    LET split_idx == CHOOSE i \in nondigit : \A j \in nondigit : i <= j
        step_str  == SubSeq(part, 1, split_idx - 1)
        suffix    == SubSeq(part, split_idx, Len(part))
    IN
    CASE ParseUsize(step_str) = <<>> -> [panic |-> "Invalid step"]
      [] AggregationOf(suffix) = "none" -> [panic |-> "Unsupported bar aggregation type"]
      [] OTHER -> [step |-> ParseUsize(step_str)[1],
                   aggregation |-> AggregationOf(suffix),
                   price_type |-> "Last"]

\* parse_bar_spec: split on '_', take the last part, split it at the first
\* non-digit char, parse the digits as usize and look up the suffix.
parse_bar_spec(value) ==
    LET parts     == Split(value, "_")
        last_part == parts[Len(parts)]
        nondigit  == {i \in DOMAIN last_part : last_part[i] \notin Digits}
    IN
    IF nondigit = {} THEN [panic |-> "Invalid bar spec"]
    ELSE
    LET split_idx == CHOOSE i \in nondigit : \A j \in nondigit : i <= j
        step_str  == SubSeq(last_part, 1, split_idx - 1)
        suffix    == SubSeq(last_part, split_idx, Len(last_part))
    IN
    CASE ParseUsize(step_str) = <<>> -> [panic |-> "Invalid step"]
      [] AggregationOf(suffix) = "none" -> [panic |-> "Unsupported bar aggregation type"]
      [] OTHER -> [step |-> ParseUsize(step_str)[1],
                   aggregation |-> AggregationOf(suffix),
                   price_type |-> "Last"]

-----------------------------------------------------------------------------
(* The feed.                                                               *)

BarSpecTexts ==
    UNION {UNION {[1..n -> sh.chars] : n \in 0..sh.len} : sh \in BarSpecShapes}

\* The raw values of each kind of record.
ValuesOf(kind) ==
    CASE kind = "bar_spec"       -> BarSpecTexts
      [] kind = "order_side"     -> SideTexts
      [] kind = "aggressor_side" -> SideTexts
      [] kind = "option_kind"    -> {"Call", "Put"}
      [] kind = "timestamp"      -> 0..(U64Max \div 1000)
      [] kind = "book_action"    -> BOOLEAN \X Amounts
      [] kind = "instrument_id"  -> Exchange \X Symbols

Kinds == {"bar_spec", "order_side", "aggressor_side", "option_kind",
          "timestamp", "book_action", "instrument_id"}

Records == UNION {[kind : {k}, value : ValuesOf(k)] : k \in Kinds}

\* Each action is one call of a parse function on the record held.
ParseWith(kind, Fn(_)) ==
    /\ output = None
    /\ record.kind = kind
    /\ output' = <<Fn(record.value)>>
    /\ UNCHANGED record

BarSpec      == ParseWith("bar_spec", parse_bar_spec)
OrderSide    == ParseWith("order_side", parse_order_side)
Aggressor    == ParseWith("aggressor_side", parse_aggressor_side)
OptionKind   == ParseWith("option_kind", parse_option_kind)
Timestamp    == ParseWith("timestamp", parse_timestamp)
BookAction   == ParseWith("book_action", LAMBDA v : parse_book_action(v[1], v[2]))
InstrumentId == ParseWith("instrument_id", LAMBDA v : parse_instrument_id(v[1], v[2]))

FeedInit == record \in Records /\ output = None

FeedNext ==
    \/ BarSpec \/ OrderSide \/ Aggressor \/ OptionKind
    \/ Timestamp \/ BookAction \/ InstrumentId

FeedSpec == FeedInit /\ [][FeedNext]_feedVars

-----------------------------------------------------------------------------
(* The specification of each parser (spec.md 4.3), written independently  *)
(* of the code: the grammar of a bar spec by its segments, the field       *)
(* parsers by their decision tables.                                       *)

\* The last '_'-delimited segment: everything after the last '_'.
LastSegment(v) == SubSeq(v, SelectLastInSeq(v, LAMBDA c : c = "_") + 1, Len(v))

AllDigits(r) == \A i \in DOMAIN r : r[i] \in Digits

\* step is the maximal leading digit run; the unit is what follows it.
StepRun(seg) ==
    CHOOSE r \in Prefixes(seg) :
        AllDigits(r) /\ \A q \in Prefixes(seg) : AllDigits(q) => Len(q) <= Len(r)

StepValue(run) == FoldLeft(LAMBDA acc, d : acc * 10 + DigitValue[d], 0, run)

UnitAggregation ==
    (<<"m", "s">> :> "Millisecond") @@ (<<"s">> :> "Second")
    @@ (<<"m">> :> "Minute") @@ (<<"t", "i", "c", "k", "s">> :> "Tick")
    @@ (<<"v", "o", "l">> :> "Volume")

SpecBarSpec(v) ==
    LET seg  == LastSegment(v)
        run  == StepRun(seg)
        unit == SubSeq(seg, Len(run) + 1, Len(seg))
    IN
    CASE unit = <<>>
           -> [panic |-> "Invalid bar spec"]
      [] run = <<>> \/ StepValue(run) > UsizeMax
           -> [panic |-> "Invalid step"]
      [] unit \notin DOMAIN UnitAggregation
           -> [panic |-> "Unsupported bar aggregation type"]
      [] OTHER
           -> [step |-> StepValue(run), aggregation |-> UnitAggregation[unit],
               price_type |-> "Last"]

\* The field parsers' decision tables.
SpecField(r) ==
    CASE r.kind = "order_side" ->
            IF r.value \in {"bid", "ask"}
              THEN ("bid" :> "Buy" @@ "ask" :> "Sell")[r.value] ELSE "NoOrderSide"
      [] r.kind = "aggressor_side" ->
            IF r.value \in {"buy", "sell"}
              THEN ("buy" :> "Buyer" @@ "sell" :> "Seller")[r.value] ELSE "NoAggressor"
      [] r.kind = "option_kind" -> r.value
      [] r.kind = "timestamp" -> 1000 * r.value
      [] r.kind = "book_action" ->
            IF r.value[1] THEN "Add" ELSE IF r.value[2] = 0 THEN "Delete" ELSE "Update"
      [] r.kind = "instrument_id" ->
            [symbol |-> [i \in DOMAIN r.value[2] |-> UpperChar(r.value[2][i])],
             venue |-> VenueOf[r.value[1]]]

-----------------------------------------------------------------------------
(* Properties.                                                             *)

\* Spec 4.3: parse_bar_spec accepts exactly the strings of the grammar
\* <...>_<step><unit>, returns the step and unit they spell, and fails with
\* the message the grammar assigns to each malformed string: "Invalid bar
\* spec", "Invalid step" (also on usize overflow) or "Unsupported bar
\* aggregation type".
BarSpecMatchesGrammar ==
    (output # None /\ record.kind = "bar_spec") => output[1] = SpecBarSpec(record.value)

\* Spec 4.3 and 7: the side, aggressor, option-kind, timestamp, book-action
\* and instrument-id parsers are total and follow their decision tables:
\* unknown strings map to the sentinels, and a snapshot entry is an Add
\* even when its amount is zero.
FieldParsersMatchSpec ==
    (output # None /\ record.kind # "bar_spec") => output[1] = SpecField(record)

=============================================================================
