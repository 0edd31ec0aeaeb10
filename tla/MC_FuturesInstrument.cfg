CONSTANTS
    Ids = {ESZ4}
    Empty = Empty
    Blank = Blank
    Code = Code
    Precisions = {0, 2}
    Raws <- MC_Raws
    Quantities = {5}
    Decimals = {1}
    NoValue = NoValue
    ForeignJson = {}
    NoContract = NoContract
    NoJson = NoJson

SPECIFICATION Spec
PROPERTY InstrumentRefinement
