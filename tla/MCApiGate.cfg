SPECIFICATION GateSpec
CONSTANTS
    Clients = {c1, c2, c3}
    Limit = 2
    Window = 2
    MaxTracked = 2
    TTL = 2
    MaxLag = 1
SYMMETRY MCSymmetry
INVARIANTS
    RevokedSoonRefused
    RotatedSoonAccepted
    ForgottenForNewer
CHECK_DEADLOCK FALSE
