SPECIFICATION FairSpec
CONSTANTS
    get1 = get1
    post = post
    Requests = {get1, post}
    Retryable = {get1}
    Attempts = 2
    AuthOutside = {get1}
    Replies <- MCReplies
    DefaultLife = 3
    Skew = 1
    Horizon = 2
    MaxRevoked = 2
INVARIANTS CacheEndsInTime CallsBounded RejectedUnderNewToken
PROPERTY EveryRequestEnds
CHECK_DEADLOCK FALSE
