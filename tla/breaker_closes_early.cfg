SPECIFICATION Spec
CONSTANTS
    get = get
    like = like
    edit = edit
    Requests <- Everyone
    Bodyless <- NoBody
    SafeMethod <- Safe
    MaxAttempts = 2
    FailureThreshold = 1
    OpenFor = 2
    MaxTime = 3
PROPERTY RemainsOpen
CHECK_DEADLOCK FALSE
