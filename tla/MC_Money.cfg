CONSTANTS
    RawBits = 6
    FIXED_PRECISION = 1
    FloatBits = 10
    CcyWhole = CcyWhole
    CcyFine = CcyFine
    Currency <- MC_Currency
    Precision <- MC_Precision
    Amounts <- MC_Amounts
    RawInputs <- MC_RawInputs
    Slots = {s1, s2}
    ScalarInputs <- MC_ScalarInputs
    NoMoney = NoMoney
    Builds = {"debug"}

SYMMETRY MC_Symmetry
VIEW MC_View
SPECIFICATION Spec
PROPERTY MoneyRefinement
PROPERTY DecimalExact
