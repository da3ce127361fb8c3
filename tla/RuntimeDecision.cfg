SPECIFICATION MCSpec
CONSTANTS
    Requests <- MCRequests
    InitialPermissions <- MCInitialPermissions
    MorePermissions <- MCMorePermissions
    Policies <- MCPolicies
    Contracts <- MCContracts
    Patterns <- MCPatterns
    RequireContract = TRUE
    Any = Any
    None = None
    NoneActive = NoneActive
    MaxEvents = 4
    MaxChanges = 1
INVARIANTS WithinLimit FollowsItsWorkflow OffWorkflowIsBlocked SimulationAgrees OneSignalPerPattern OneRunPerGrant
CHECK_DEADLOCK FALSE
