CONSTANTS
    RawBits = 6
    FIXED_PRECISION = 1
    FloatBits = 10
    CcyWhole = CcyWhole
    CcyFine = CcyFine
    Currency <- MC_Currency
    Precision <- MC_Precision
    Amounts <- MC_Amounts
    RawInputs <- MC_RawInputs
    Slots = {s1, s2}
    ScalarInputs <- MC_ScalarInputs
    NoMoney = NoMoney
    Builds = {"release"}

SYMMETRY MC_Symmetry
SPECIFICATION Spec
PROPERTY NoSilentOverflow
