SPECIFICATION Spec
CONSTANTS
    Operators = {o1, o2}
    Gateways = {g1}
    Contracts = {c1}
    MaxVersion = 1
    MaxTime = 1
    RequireContract = TRUE
    None = None
SYMMETRY Symmetry
PROPERTY TerminalIsFinal
CHECK_DEADLOCK FALSE
