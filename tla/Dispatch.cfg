SPECIFICATION FairSpec
CONSTANTS
    Requests = {r1}
    Deliveries = {d1, d2}
    TTL = 1
    MaxTime = 2
    MaxRestarts = 1
    None = None
INVARIANTS UsedOnceUntilExpiry ExecutedMeansRan RunsAreAllowed
PROPERTIES DispatchEnds RevokedNeverRuns
CHECK_DEADLOCK FALSE
