CONSTANTS
    Devices = {a, b}
    Sockets = {a, b}
    Docs = {p, q}
    Rooms = {p, q}
    Window = 2
    Off = Off
    Nowhere = Nowhere
SPECIFICATION Spec
INVARIANT TypeOK
PROPERTIES
    ThrottleHolds
    OnlySilentDropped
    StoredIsHeard
    VanishedLeave
