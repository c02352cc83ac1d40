SPECIFICATION FairSpec
CONSTANTS
    Modulus = 6
    Threshold = 3
    MaxFailures = 1
INVARIANT GrowthNoticed
PROPERTIES StopHonoured PaymentNoticed
CHECK_DEADLOCK FALSE
