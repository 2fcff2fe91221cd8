SPECIFICATION Spec
CONSTANTS
    ann = ann
    bob = bob
    a1 = a1
    a2 = a2
    a3 = a3
    b1 = b1
    b2 = b2
    Users <- TwoUsers
    Requests <- FiveRequests
    UserOf <- Asker
    Refused <- NoID
    MaxChanges = 2
SYMMETRY AnnsAlike
INVARIANTS AnswersAreReal ServedOnceServedAlways
CHECK_DEADLOCK FALSE
