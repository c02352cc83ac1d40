SPECIFICATION Spec
CONSTANTS
    Modulus = 6
    Threshold = 3
    MaxFailures = 1
INVARIANT NotifyMeansThreshold
CHECK_DEADLOCK FALSE
