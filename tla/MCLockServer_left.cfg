\* Two contexts with a record of the same number, cfl_hash keeping duplicate keys.
SPECIFICATION Spec
CONSTANTS
    c1 = c1
    c2 = c2
    r1 = r1
    r2 = r2
    NoClient = NoClient
    Client = {a, b}
    Context = {c1, c2}
    Recno = {r1, r2}
    Records <- SameNumber
    KeepDuplicates = TRUE
    SendsCloseAll = FALSE
    MaxOpen = 2
INVARIANTS
    EmptyWhenAllLeft
