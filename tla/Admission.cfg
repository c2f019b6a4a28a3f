SPECIFICATION Spec
CONSTANTS
    Accounts = {a1, a2}
    Workspaces = {w1}
    Requests = {r1, r2, r3}
    Limits <- TwoPlans
    MaxCached = 1
    MaxSequence = 6
SYMMETRY Symmetry
INVARIANTS
    OneStatePerAccount
    GuardsCounted
    TunnelLimitRespected
    WorkspaceQuotaRespected
PROPERTIES
    PlanPrevails
