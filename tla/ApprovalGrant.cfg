\* One request, three threads redeeming it, two operators reviewing it.
SPECIFICATION Spec
CONSTANTS
    Requests = {r1}
    Redeemers = {w1, w2, w3}
    Operators = {o1, o2}
    Contents = {c1, c2}
    MaxVersion = 2
    MaxTime = 2
    TTL = 1
    None = None
SYMMETRY Symmetry
INVARIANTS SingleUse RunsAsApproved GrantCommitsWithRun
PROPERTIES ClearedUnderBoundContract ImplementsSingleUseGrant
CHECK_DEADLOCK FALSE
