CONSTANTS
    RawBits = 6
    FIXED_PRECISION = 1
    FloatBits = 5
    CcyWhole = CcyWhole
    CcyFine = CcyFine
    Currency = {CcyWhole}
    Precision <- MC_Precision
    Amounts <- MC_Amounts
    RawInputs <- MC_RawInputs
    Slots = {s1, s2}
    ScalarInputs = {}
    NoMoney = NoMoney
    Builds = {"debug"}
    MaxWire = 2
    ForeignTexts <- MC_ForeignTexts
    Junk = Junk
    UnknownCode = UnknownCode

SYMMETRY MC_Symmetry
SPECIFICATION TextSpec
PROPERTY FromStrNeverPanics
