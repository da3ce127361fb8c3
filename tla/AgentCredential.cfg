SPECIFICATION CredentialSpec
CONSTANTS
    Tokens = {t0, t1, t2, t3}
    FirstToken = t0
    Operators = {o1, o2}
    Calls = {c1}
    NoToken = noToken
INVARIANTS ActiveBound RevokedStaysOut
CHECK_DEADLOCK FALSE
