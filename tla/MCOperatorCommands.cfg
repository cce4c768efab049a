SPECIFICATION Spec
CONSTANTS
    Runs <- MCRuns
    MaxDecisions = 1
    MaxSweeps = 1
    MaxCommands = 1
CONSTRAINT Serving
INVARIANTS
    StatusIsBacked
    SealedIsSettled
    VerifiedLogIsTheEvidence
    FailureIsExplained
CHECK_DEADLOCK FALSE
