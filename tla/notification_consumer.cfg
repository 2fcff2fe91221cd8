SPECIFICATION FairSpec
CONSTANTS
    MaxEvents = 2
    Attempts = 2
    MaxSessions = 3
INVARIANTS CommitsOnlyHandled DuplicatesExplained
PROPERTIES DeliversInOrder EventsAreHandled
CHECK_DEADLOCK FALSE
