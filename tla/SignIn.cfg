CONSTANTS
    Addresses = {a, b}
    MaxNonces = 2
    MaxChallenges = 5
SPECIFICATION SignInSpec
SYMMETRY MCSymmetry
INVARIANTS
    SignInTypeOK
    OneAttempt
    PromptAnswerCounts
CHECK_DEADLOCK FALSE
