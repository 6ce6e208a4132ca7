SPECIFICATION Spec
CONSTANTS
    MaxOrder = 1
    Filter = Filter
    Filters = {Filter}
    NoFilter = NoFilter
    NoStatement = NoStatement
    MaxRecno = 3
    MaxKey = 2
    FilterKeys = {1}
    NoKey = NoKey
    Starts <- MCStarts
    Kept = {"GO_TOP"}
    MaxChanges = 2
INVARIANT TypeOK StatementsFit
PROPERTY RefinesRowCursor NoLostUpdate
VIEW WithoutCall
