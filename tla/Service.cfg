SPECIFICATION Spec
CONSTANTS
    Environments <- SomeEnvironments
    Databases <- SomeDatabases
    UsizeMax = 7
    CounterMax = 3
    DefaultConnections = 2
    DefaultCachedAccounts = 2
    LeasesPerConnection = 2
    MAX_CONNECTION_TASKS = 1
    CACHE_DEFAULT_MAX_TTL = 1
    CACHE_ABSOLUTE_MAX_TTL = 2
    DefaultDrain = 2
    DefaultForceStop = 1
    MAX_BRIDGE_TASK_SHUTDOWN_SECONDS = 2
    SHUTDOWN_GRACE_MARGIN_SECONDS = 1
    SCHEMA_VERSION = 1
    Conns = {c1, c2}
    Ports = {p1, p2}
    Bridges = {b1}
    IdentityOf <- Tenants
    Heads <- FirstHeads
    LaterHeads <- NextHeads
    LocalHeads <- OwnHeads
    Responses <- Answers
    CacheCapacity = 1
    MaxGroups = 2
SYMMETRY Symmetry
INVARIANTS
    DownstreamExact
    Attributed
    LeasesExact
    CacheIsolated
    CacheFresh
    CapacitiesFit
    OpenOnlyOnLoopback
PROPERTIES
    DatabaseIntact
    ImplementsTenantHttp
