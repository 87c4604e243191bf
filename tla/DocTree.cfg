CONSTANTS
    Devices = {a, b}
    Ids = {home, p, q}
    Home = home
    NoId = NoId
    WalkLimit = 3
    MaxTs = 3
    MaxQueued = 2
SPECIFICATION Spec
SYMMETRY MCSymmetry
INVARIANTS
    TypeOK
    TreeOK
    HomeSafe
    LatestRenameWins
PROPERTY ClocksAdvance
CHECK_DEADLOCK FALSE
