CONSTANTS
    i1 = i1
    i2 = i2
    host = host
    guest = guest
    Accounts = {host, guest}
    Ids = {i1, i2}
    UploaderOf <- MCUploaderOf
    Host = host
    Limit <- MCLimit
    Requests = {r1}
    Sizes <- MCSizes
    MaxUsed = 3
    NoLimit = NoLimit
    NoId = NoId
    NoAccount = NoAccount
SPECIFICATION Spec
INVARIANTS
    TypeOK
    UsageMatchesLedger
    RoomKept
    ConfirmedHasFile
CHECK_DEADLOCK FALSE
