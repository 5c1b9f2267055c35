CONSTANTS
    j1 = j1
    j2 = j2
    r1 = r1
    r2 = r2
    Jobs = {j1, j2}
    Routes = {r1, r2}
    RouteOf <- MCRouteOf
    Goroutines = {g1, g2}
    Concurrency = 1
    ClaimFactor = 1
    MaxRetries = 2
    RetryBackoff = 1
    LogContent = TRUE
    MaxDbErrors = 1
    MaxStops = 1
SPECIFICATION FairSpec
PROPERTY EveryJobSettles
INVARIANTS
    RemovalLogged
    ConcurrencyBound
