CONSTANTS
    Ids = {f, x}
    Top = Top
    Absent = Absent
    Oldest = 1
SPECIFICATION Spec
SYMMETRY Symmetry
INVARIANTS
    NothingLost
    OnlyCutsStick
