SPECIFICATION FairSpec
CONSTANTS
    a = a
    b = b
    c = c
    Ids = {a, b, c}
    BadIds = {c}
    Lists <- MCLists
    NoPolicy = NoPolicy
    OtherSizes = {0, 2}
    MaxRequests = 1
    MaxVersion = 3
    MaxFaults = 1
    MaxRestarts = 1
PROPERTIES VersionCatchesUp StopReturns EventuallyStored
CHECK_DEADLOCK FALSE
