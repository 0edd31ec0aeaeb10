CONSTANTS
    BarSpecShapes <- MC_BarSpecShapes
    UsizeBits = 4
    U64Bits = 14
    Exchange <- MC_Exchange
    VenueOf <- MC_VenueOf
    Symbols <- MC_Symbols
    SideTexts <- MC_SideTexts
    Amounts <- MC_Amounts
    Bitmex = Bitmex
    HuobiDm = HuobiDm
    HuobiDmSwap = HuobiDmSwap

SPECIFICATION FeedSpec

\* Each behaviour is one parse call, which ends it.
CHECK_DEADLOCK FALSE

INVARIANT BarSpecMatchesGrammar
INVARIANT FieldParsersMatchSpec
