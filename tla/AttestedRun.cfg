SPECIFICATION Spec
CONSTANTS
    Signers = {alice, bob}
    Versions = {v1, v2}
    Junk = Junk
    MaxEntries = 3
    MaxTears = 1
    MaxEdits = 2
INVARIANTS
    SerialSigningVerifies
    LostOnlyByTears
    ClearedIsSigned
CHECK_DEADLOCK FALSE
