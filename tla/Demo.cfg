CONSTANTS
    Ids = {x, y, z}
    None = None
    MaxDemo = 2
    Hour = 2
    DemoHours = 1
    TrialHours = 1
    MaxTime = 3
SPECIFICATION Spec
INVARIANTS
    TypeOK
    PurgedIsGone
    SessionEndsWithAccount
PROPERTIES
    TrialSurvives
    ExpiredIsPurged
CHECK_DEADLOCK FALSE
