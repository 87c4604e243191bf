SPECIFICATION Spec
CONSTANTS
    ann = ann
    bob = bob
    a2 = a2
    b1 = b1
    Users = {ann, bob}
    Devices = {a1, a2}
    UserOf <- MCUserOf
    Creator = a1
    Demos = {}
    NoUser = NoUser
    NoKey = NoKey
    MaxVersion = 2
    MaxStale = 1
INVARIANTS
    SealedAtCurrentVersion
CHECK_DEADLOCK FALSE
