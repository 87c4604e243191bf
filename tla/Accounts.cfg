CONSTANTS
    Emails = {a, b}
    Ids = {x, y}
    None = None
    MaxInvitations = 3
SPECIFICATION Spec
SYMMETRY MCSymmetry
INVARIANTS
    TypeOK
    InvitationSpent
    HomeKept
CHECK_DEADLOCK FALSE
