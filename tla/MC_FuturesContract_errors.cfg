CONSTANTS
    Ids = {ESZ4}
    Empty = Empty
    Blank = Blank
    Code = Code
    Precisions = {0, 2}
    Raws <- MC_Raws
    Quantities = {5}
    Decimals = {1}
    NoValue = NoValue

SPECIFICATION Spec

PROPERTY ErrorNamesOffendingField
