CONSTANTS
    i1 = i1
    i2 = i2
    host = host
    guest = guest
    Accounts = {host, guest}
    Ids = {i1}
    UploaderOf <- MCUploaderOf
    Host = host
    Limit <- MCLimit
    Requests = {r1, r2}
    Sizes <- MCSizes
    MaxUsed = 4
    NoLimit = NoLimit
    NoId = NoId
    NoAccount = NoAccount
SYMMETRY MCSymmetry
SPECIFICATION Spec
PROPERTY ConfirmedStays
CHECK_DEADLOCK FALSE
