\* One program with two work areas, that calls SDB_LOCKCONTEXT and inserts at once.
SPECIFICATION Spec
CONSTANTS
    a1 = a1
    a2 = a2
    c1 = c1
    c2 = c2
    p1 = p1
    p2 = p2
    Area = {a1, a2}
    Connection = {c1}
    Program = {p1}
    connectionOf <- TwoAreasConnection
    programOf <- TwoAreasProgram
    MaxRecno = 1
    InsertImmediate = TRUE
    UsesLockContext = TRUE
    KeepDuplicates = TRUE
    NoClient = NoClient
SYMMETRY AreaSymmetry
INVARIANTS
    SharedHasContext
