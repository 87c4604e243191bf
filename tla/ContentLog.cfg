CONSTANTS
    Devices = {a, b}
    Ops = {o1, o2}
    MaxId = 3
SPECIFICATION Spec
SYMMETRY MCSymmetry
INVARIANTS
    TypeOK
    VersionIdentifiesContent
    HashDescribesContent
    RoomUpToDate
PROPERTY ImplementsStore
