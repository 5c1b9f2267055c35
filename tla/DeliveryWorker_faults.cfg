CONSTANTS
    j1 = j1
    j2 = j2
    r1 = r1
    r2 = r2
    Jobs = {j1, j2}
    Routes = {r1, r2}
    RouteOf <- MCRouteOf
    Goroutines = {g1, g2}
    Concurrency = 2
    ClaimFactor = 1
    MaxRetries = 2
    RetryBackoff = 1
    LogContent = FALSE
    MaxDbErrors = 1
    MaxStops = 1
SPECIFICATION Spec
SYMMETRY Symmetry
INVARIANTS
    TypeOK
    NoLostJob
    PostsBounded
    DuplicatesBounded
    NoDoubleProcessing
    FreshClaim
PROPERTY ImplementsQueue
