SPECIFICATION FairSpec
CONSTANTS
    t1 = t1
    t2 = t2
    a1 = a1
    b1 = b1
    b2 = b2
    b3 = b3
    Tenants = {t1, t2}
    Agents = {a1}
    OrgOf <- MCOrgOf
    Mailboxes = {b1, b2, b3}
    AccountsOf <- MCAccountsOf
    Rows = {1, 2}
    Handlers = {h1, h2}
    Calls = {c1}
    Lifetime = 1
    Slack = 0
    None = None
INVARIANTS OwnMailbox
PROPERTIES RevokeDisarms MailboxSettles
CHECK_DEADLOCK FALSE
