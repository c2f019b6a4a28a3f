SPECIFICATION Spec
CONSTANTS
    Budgets = {b1, b2}
    Workspaces = {w1, w2}
    Sessions = {s1, s2}
    Limit = 2
    MaxCached = 1
    MaxRead = 2
    MaxSequence = 3
VIEW WithoutHistory
SYMMETRY Symmetry
INVARIANTS
    SharedBudget
    AllowanceRespected
    NoDoubleCharge
    ClosedTunnelPersisted
