SPECIFICATION FairSpec
CONSTANTS
    ann = ann
    bob = bob
    cat = cat
    Users <- TwoUsers
    Authors <- OneAuthor
    AuthorOf <- ByCat
    MaxEvents = 2
    MaxSessions = 2
    maxFeedItems = 1
INVARIANTS SteadyFollowersServed FeedKeepsNewest
PROPERTIES DeliversInOrder PostsAreHandled
CHECK_DEADLOCK FALSE
