SPECIFICATION FairSpec
CONSTANTS
    Period = 1
    FirstTime = 1
    MaxTime = 2
    Builds = {{"can", "canopen"}, {"canopen", "gps"}, {"gps", "modbus"}}
INVARIANTS LockedWritesLive ReadersDataAlive
PROPERTIES OverwriteOnlyEarly ReaderStops
CHECK_DEADLOCK FALSE
