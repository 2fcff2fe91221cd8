SPECIFICATION Spec
CONSTANTS
    s1 = s1
    l1 = l1
    q1 = q1
    Sessions <- OneSession
    Logouts <- OneLogout
    Checks <- OneCheck
    Calls <- AllCalls
    HasPassword = TRUE
    HasDatabase = TRUE
    StateTTL = 2
    TokenTTL = 4
    SessionTTL = 5
    Second = 2
    MaxTime = 7
INVARIANTS NoEarlyRefusal KeysExpire LoggedOutStaysOut AnswersAreOwn
PROPERTY ActsAsRegistry
CHECK_DEADLOCK FALSE
