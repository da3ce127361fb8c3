SPECIFICATION FairSpec
CONSTANTS
    m1 = m1
    m2 = m2
    m3 = m3
    Requests = {m1, m2, m3, read, delete, update, extract, foreign, denied}
    Read = read
    Delete = delete
    Update = update
    Extract = extract
    Foreign = foreign
    Denied = denied
    Contents = {proper, forged}
    Proper = proper
    Forged = forged
    Payload = proper
    DecisionOf <- MCDecisionOf
    RequestOf <- MCRequestOf
    Threads = {g1, g2}
    MaxTurns = 2
    MaxRetries = 1
    Patience = 2
    Deadline = 2
    None = None
INVARIANTS TypeOK ToldTruly PassIsEarned FailsForCause
PROPERTIES ProgramEnds
CHECK_DEADLOCK FALSE
