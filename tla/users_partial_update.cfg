SPECIFICATION Spec
CONSTANTS
    ann = ann
    bob = bob
    name = name
    bio = bio
    setName = setName
    setBio = setBio
    follow = follow
    again = again
    unfollow = unfollow
    self = self
    long = long
    Blank = Blank
    Users <- TwoUsers
    Fields <- TwoFields
    Requests <- SevenRequests
    Op <- Ops
    Actor <- Actors
    Target <- Targets
    Patch <- Patches
    TooLong <- Lengthy
PROPERTY PartialUpdates
CHECK_DEADLOCK FALSE
