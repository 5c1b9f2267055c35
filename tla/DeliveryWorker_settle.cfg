CONSTANTS
    j1 = j1
    j2 = j2
    r1 = r1
    r2 = r2
    Jobs = {j1, j2}
    Routes = {r1, r2}
    RouteOf <- MCRouteOf
    Goroutines = {g1, g2}
    Concurrency = 1
    ClaimFactor = 4
    MaxRetries = 2
    RetryBackoff = 1
    LogContent = FALSE
    MaxDbErrors = 0
    MaxStops = 1
SPECIFICATION Spec
PROPERTY SettledBeforeNextTick
