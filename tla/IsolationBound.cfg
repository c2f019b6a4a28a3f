SPECIFICATION Spec
CONSTANTS
    Identities = {i1, i2}
    Requests = {r1}
    Conns = {c1, c2}
    Capacity = 1
    Ttl = 1
    MaxTime = 1
    MaxFresh = 4
INVARIANTS
    StoreBounded
