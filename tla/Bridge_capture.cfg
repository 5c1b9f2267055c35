CONSTANTS
    s1 = s1
    a1 = a1
    a2 = a2
    c1 = c1
    Routes = {c1}
    Mode <- MCMode
    LogContent = TRUE
    LogRejections = TRUE
    MaxTries = 1
    MaxDbErrors = 1
    MaxCrashes = 0
    Messages <- MCCaptured
    Allowed = 1
CHECK_DEADLOCK FALSE
SPECIFICATION BridgeSpec
INVARIANT CapturedMailIsStored
