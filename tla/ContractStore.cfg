SPECIFICATION Spec
CONSTANTS
    Operators = {o1, o2}
    Gateways = {g1}
    Contracts = {c1}
    MaxVersion = 2
    MaxTime = 1
    RequireContract = FALSE
    None = None
SYMMETRY Symmetry
INVARIANTS OneActive GovernedStaysGoverned
PROPERTY ClearedUnderItsContract
CHECK_DEADLOCK FALSE
