SPECIFICATION FairSpec
CONSTANTS
    Runs = {r1, r2}
    Operators = {o1, o2}
    Runners = {u1, u2}
    None = None
INVARIANTS OneWorker OutstandingBound
PROPERTIES ClaimedEnds PendingIsServed
CHECK_DEADLOCK FALSE
