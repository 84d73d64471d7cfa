CONSTANTS
    Clients = {"c1"}
    Kinds = {"plain"}
    Limit = 3
    MaxPosts = 1
    MaxRelease = 0
SPECIFICATION FairSpec
PROPERTY DestructorReturns
CHECK_DEADLOCK FALSE
