SPECIFICATION FairSpec
CONSTANTS
    get = get
    like = like
    edit = edit
    Requests <- Everyone
    Bodyless <- NoBody
    SafeMethod <- Safe
    MaxAttempts = 2
    FailureThreshold = 2
    OpenFor = 1
    MaxTime = 2
INVARIANTS StateMatchesCount TripsOnRequestsNotAttempts CoolOffHonoured AppliedWithinPolicy
CHECK_DEADLOCK FALSE
PROPERTY EveryRequestEnds
