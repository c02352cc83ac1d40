SPECIFICATION FairSpec
CONSTANTS
    Txs = {t1, t2, t3}
    Ids = {p}
    None = None
    Slots = 2
    Interval = 2
    Timeout = 1
    MaxFaults = 1
INVARIANTS ThreadsTracked ClearedOnce RecordsKept
PROPERTIES VerifiedHasCause StoreReturns WaitEnds
CHECK_DEADLOCK FALSE
