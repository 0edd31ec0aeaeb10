------------------------ MODULE InstrumentCapability ------------------------
(***************************************************************************)
(* Abstract specification of the Instrument capability set (spec 4.2) as a *)
(* holder of one instrument sees it: at any moment it holds no instrument  *)
(* or one whose every capability query has an answer from the set of       *)
(* admissible answers.  Listing an instrument, or superseding it with      *)
(* republished terms, replaces the answers as a whole.                     *)
(***************************************************************************)
CONSTANTS
    Capabilities,   \* the admissible answer records of an instrument kind
    NoInstrument    \* nothing held yet

VARIABLE instrument

Init == instrument = NoInstrument

\* An instrument is listed, or superseded by one with republished terms.
List == \E c \in Capabilities : instrument' = c

Spec == Init /\ [][List]_instrument

==============================================================================
