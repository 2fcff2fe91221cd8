SPECIFICATION Spec
CONSTANTS
    ann = ann
    bob = bob
    name = name
    bio = bio
    setName = setName
    setBio = setBio
    follow = follow
    again = again
    unfollow = unfollow
    self = self
    long = long
    Blank = Blank
    Users <- TwoUsers
    Fields <- TwoFields
    Requests <- SevenRequests
    Op <- Ops
    Actor <- Actors
    Target <- Targets
    Patch <- Patches
    TooLong <- Lengthy
SYMMETRY FollowsAlike
INVARIANTS FollowSticks OneEventPerFollow FollowsAccounted FieldsAreTheUsersOwn FollowsOfUsers
PROPERTY FollowsAreAtomic
CHECK_DEADLOCK FALSE
