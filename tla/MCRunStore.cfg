SPECIFICATION Spec
CONSTANTS
    Workers = {w1, w2}
    Tenants = {bank_a, bank_b}
    RunIds = {i1, i2}
    Rules = {r1, r2}
    Backends = {"sql", "cosmos"}
    MaxRequests = 2
    MaxEdits = 1
    MaxFaults = 2
SYMMETRY MCSymmetry
INVARIANTS
    ToldIsWhole
    MetricsComeLast
    TenantsSeeTheirOwn
PROPERTY Publication
CHECK_DEADLOCK FALSE
