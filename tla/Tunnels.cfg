SPECIFICATION FairSpec
CONSTANTS
    Tasks = {t1, t2}
    Dests = {d1, d2}
    MaxPermits <- Permits
    BreakerCapacity = 1
    Threshold = 2
    Cooldown = 2
    MaxTime = 3
INVARIANTS
    TypeOK
    PermitsConserved
    DrainExact
    DrainConfirmed
PROPERTIES
    BreakerProtects
    DrainEnds
    SetupEnds
