SPECIFICATION Spec
CONSTANTS
    MaxClients = 1
    Faults = {}
INVARIANT GrantedMeansGrant
CHECK_DEADLOCK FALSE
