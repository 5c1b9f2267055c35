CONSTANTS
    s1 = s1
    a1 = a1
    Routes = {s1, a1}
    Jobs <- MCJobs
    RouteOf <- MCRouteOf
    Mode <- MCMode
    Messages <- MCMessages
    Goroutines = {g1}
    Concurrency = 1
    ClaimFactor = 1
    MaxRetries = 2
    RetryBackoff = 1
    LogContent = FALSE
    LogRejections = FALSE
    MaxTries = 2
    MaxDbErrors = 1
    MaxStops = 1
SPECIFICATION SystemSpec
INVARIANT AcceptedIsKept
PROPERTY ImplementsBridge
