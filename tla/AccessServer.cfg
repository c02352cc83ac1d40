SPECIFICATION FairSpec
CONSTANTS
    MaxClients = 3
    Faults = {"wallet", "start", "auth", "receive"}
INVARIANTS NothingLost ServedAlive
PROPERTIES AllAnswered Exits
CHECK_DEADLOCK FALSE
