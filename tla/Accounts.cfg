SPECIFICATION Spec
CONSTANTS
    Emails = {e1, e2}
    StripeIds = {}
    Plans = {o1, o2}
    Offers <- PlanOffers
    Names = {n1, n2}
    Inactive = {suspended}
    PublicIds = {p1, p2, p3}
    Fingerprints = {f1}
    Callers = {c1}
    NoStripe = NoStripe
    Attempts = 2
    MaxWorkspaces = 2
    MaxKeys = 3
    MaxDevices = 2
    MaxRows = 7
    MaxUpdates = 1
    MaxGrants = 2
SYMMETRY Symmetry
INVARIANTS
    LookupTotal
    PlanIntact
    GrantsScoped
    CredentialsPinned
    OneActivePerLine
PROPERTIES
    RotationKeepsAccess
    RevocationFinal
