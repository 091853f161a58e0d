SPECIFICATION Spec
CONSTANTS
    Endpoints = {e1}
    Namespaces = {n1, n2}
    Lease = 1
    Registry = 2
    Timeout = 2
    GrantTTL = 2
    FenceTTL = 2
    MaxGen = 2
    MaxEpoch = 2
    MaxLate = 1
    Budget = 5
SYMMETRY NamespaceSymmetry
CONSTRAINT WithinBudget
INVARIANTS
    StartResumable
    ServingIsRegistered
    DrainIsFinal
    RevocationBound
    RevokedStaysOut
PROPERTIES
    TakeoverIsClean
