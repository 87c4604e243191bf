SPECIFICATION Spec
CONSTANTS
    ann = ann
    bob = bob
    a2 = a2
    b1 = b1
    Users = {ann, bob}
    Devices = {a1, a2, b1}
    UserOf <- MCUserOf
    Creator = a1
    Demos = {ann, bob}
    NoUser = NoUser
    NoKey = NoKey
    MaxVersion = 3
    MaxStale = 1
CONSTRAINT MCBound
INVARIANTS
    TypeOK
    LabelsCurrent
    DepartedNeedRotation
    OwnerKeepsKey
    MembersHoldCurrentKey
    ChainUnbroken
PROPERTIES
    ImplementsGroup
CHECK_DEADLOCK FALSE
