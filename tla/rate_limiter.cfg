SPECIFICATION Spec
CONSTANTS
    ann = ann
    bob = bob
    a1 = a1
    a2 = a2
    a3 = a3
    b1 = b1
    Users <- TwoUsers
    Requests <- FourRequests
    UserOf <- Owner
    Limit = 2
    Window = 2
    MaxStall = 2
    MaxTime = 5
SYMMETRY AnnsAlike
INVARIANTS LimitPerWindow WindowsApart DeniedAtLimit
CHECK_DEADLOCK FALSE
