SPECIFICATION Spec
CONSTANTS
    a = a
    b = b
    c = c
    Ids = {a, b, c}
    BadIds = {c}
    Lists <- MCLists
    NoPolicy = NoPolicy
    OtherSizes = {0, 2}
    MaxRequests = 0
    MaxVersion = 2
    MaxFaults = 1
    MaxRestarts = 0
INVARIANT AckMeansStored
CHECK_DEADLOCK FALSE
