SPECIFICATION Spec
CONSTANTS
    ann = ann
    bob = bob
    c1 = c1
    u1 = u1
    u2 = u2
    d1 = d1
    d2 = d2
    l1 = l1
    blank = blank
    Users <- TwoUsers
    Requests <- SevenRequests
    Op <- Ops
    Actor <- Actors
    Target <- Targets
    Invalid <- Blanks
CHECK_DEADLOCK FALSE
INVARIANTS OnlyAuthorsChange AnswersAreTrue PostsAccounted
PROPERTY RequestsAreAtomic
