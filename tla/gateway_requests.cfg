SPECIFICATION GatewaySpec
CONSTANTS
    get = get
    edit = edit
    Requests <- Both
    Bodyless <- OnlyGet
    SafeMethod <- OnlyGet
    Streamed <- OnlyGet
    MaxAttempts = 3
    FailureThreshold = 1
    OpenFor = 2
    LookupTimeout = 1
    AttemptTimeout = 1
    Backoff = 1
    WriteTimeout = 4
    MaxTime = 8
    LastArrival = 0
INVARIANTS RecordsMatchAnswers HeadersWithinBudget LostAnswersWereLate
CHECK_DEADLOCK FALSE
