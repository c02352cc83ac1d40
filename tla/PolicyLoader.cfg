SPECIFICATION Spec
CONSTANTS
    a = a
    b = b
    c = c
    Ids = {a, b, c}
    BadIds = {c}
    Lists <- MCLists
    NoPolicy = NoPolicy
    OtherSizes = {0, 2}
    MaxRequests = 2
    MaxVersion = 3
    MaxFaults = 2
    MaxRestarts = 1
INVARIANTS TypeOK CaughtUp PendingInList
PROPERTY Distributes
CHECK_DEADLOCK FALSE
