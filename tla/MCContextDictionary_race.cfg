CONSTANTS
    Worker = {w1, w2, w3}
    Database = {d1}
    Schema = {s1, s2}
    Table = {t1}
    Value = {empty, v1}
    Empty = empty
    None = None
SPECIFICATION Spec
SYMMETRY Symmetry
INVARIANTS
    TypeOK
    HeldIsListed
PROPERTIES
    RefinesRegistry
