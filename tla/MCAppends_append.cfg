SPECIFICATION Spec
CONSTANTS
    Program = {p, q}
    CacheSize = 2
    MaxAttempts = 3
    RefreshAttempts = 3
    Outside = {4}
    MaxNumber = 6
INVARIANT TypeOK AppendsDoNotCollide
PROPERTY AppendsReturn
