CONSTANTS
    r1 = r1
    r2 = r2
    Req <- TwoReqs
    Intro = 1
    Daily = 1
    MaxDay = 2
    MaxRuns = 5
SPECIFICATION Spec
SYMMETRY Symm
INVARIANTS
    TypeOK
    FreePerDay
    IntroBounded
PROPERTY
    NoEarlyRefusal
