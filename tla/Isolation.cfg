SPECIFICATION Spec
CONSTANTS
    Identities = {i1, i2}
    Requests = {r1, r2}
    Conns = {c1, c2}
    Capacity = 1
    Ttl = 1
    MaxTime = 2
    MaxFresh = 3
SYMMETRY Symmetry
INVARIANTS
    TypeOK
    CircuitIsolation
    PoolIsolation
    RetryUsesFreshToken
PROPERTIES
    NoStaleMaterial
    MaterialStable
