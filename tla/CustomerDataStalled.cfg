SPECIFICATION FairSpec
CONSTANTS
    Budgets = {b1}
    Workspaces = {w1}
    Sessions = {s1}
    Limit = 2
    MaxCached = 1
    MaxRead = 2
    MaxSequence = 2
PROPERTIES
    TunnelsEnd
