SPECIFICATION Spec
CONSTANTS
    Threads = {w1, w2}
    Requests = {q1, q2}
    MaxCalls = 2
    MaxEvents = 4
    None = None
SYMMETRY Symmetry
INVARIANTS DecidedOnPrefix CallLimit BrokenOnlyByReseal
PROPERTIES OnlyWithdrawn BrokenForGood ImplementsSequentialTrail
CHECK_DEADLOCK FALSE
