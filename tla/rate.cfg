SPECIFICATION Spec
CONSTANTS
    i1 = i1
    d1 = d1
    d2 = d2
    d3 = d3
    Ips <- MCIps
    Devices <- MCDevices
    Burst = 1
    Refill = 4
    StaleAfter = 4
    Second = 2
    MaxTime = 10
SYMMETRY Symmetry
INVARIANTS
    TypeOK
    AdmissionBound
    RetryAfterSuffices
PROPERTY
    EvictionInvisible
