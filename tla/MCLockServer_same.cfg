\* Two contexts with a record of the same number, cfl_hash replacing the entry
\* of a key, and CLOSE_ALL.
SPECIFICATION Spec
CONSTANTS
    c1 = c1
    c2 = c2
    r1 = r1
    r2 = r2
    NoClient = NoClient
    Client = {a, b}
    Context = {c1, c2}
    Recno = {r1, r2}
    Records <- SameNumber
    KeepDuplicates = FALSE
    SendsCloseAll = TRUE
    MaxOpen = 2
SYMMETRY Symmetry
INVARIANTS
    FileLockExcludesRecords
