CONSTANTS
    s1 = s1
    a1 = a1
    a2 = a2
    c1 = c1
    Routes = {s1, a1, a2, c1}
    Mode <- MCMode
    LogContent = TRUE
    LogRejections = TRUE
    Messages <- MCMessages
    MaxTries = 2
    MaxDbErrors = 1
    MaxCrashes = 1
    Allowed = 1
CHECK_DEADLOCK FALSE
SPECIFICATION BridgeFairSpec
INVARIANTS
    TypeOK
    AcceptedIsHandedOver
    NoAsyncBeforeSync
    SingleRouteRetryIsSafe
    RefusalsRecorded
    QueuedOncePerFault
PROPERTIES
    
    AcceptedIsDelivered
