\* Two programs, one work area each.
SPECIFICATION Spec
CONSTANTS
    a1 = a1
    a2 = a2
    c1 = c1
    c2 = c2
    p1 = p1
    p2 = p2
    Area = {a1, a2}
    Connection = {c1, c2}
    Program = {p1, p2}
    connectionOf <- OneEachConnection
    programOf <- OneEachProgram
    MaxRecno = 1
    InsertImmediate = FALSE
    UsesLockContext = FALSE
    KeepDuplicates = TRUE
    NoClient = NoClient
SYMMETRY ProgramSymmetry
INVARIANTS
    TypeOK
    FileLockIsHeld
    TableFlagIsExact
    FileLockExcludes
    ExclusiveIsAlone
    NoContextHoldsNothing
PROPERTIES
    UnlockGivesUp
