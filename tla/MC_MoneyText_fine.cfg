CONSTANTS
    RawBits = 6
    FIXED_PRECISION = 1
    FloatBits = 5
    CcyWhole = CcyWhole
    CcyFine = CcyFine
    Currency = {CcyFine}
    Precision <- MC_Precision
    Amounts <- MC_AmountsInRange
    RawInputs <- MC_RawInputs
    Slots = {s1, s2}
    ScalarInputs = {}
    NoMoney = NoMoney
    Builds = {"debug"}
    MaxWire = 1
    ForeignTexts = {}
    Junk = Junk
    UnknownCode = UnknownCode

SYMMETRY MC_Symmetry
SPECIFICATION TextSpec
PROPERTY RoundTrip
