SPECIFICATION Spec
CONSTANTS
    Accounts = {a1}
    Workspaces = {w1, w2}
    Requests = {r1, r2}
    Limits <- OnePlan
    MaxCached = 1
    MaxSequence = 4
INVARIANTS
    AccountQuotaRespected
