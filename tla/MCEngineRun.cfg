SPECIFICATION Spec
CONSTANTS
    N = 2
    RuleSpecs <- MCRuleSpecs
    Keys = {k1, k2}
    Checks = {q1}
    MaxAlerts = 2
    MaxAnalyst = 1
    None = None
INVARIANTS
    EveryIssueTicketed
    GatesPrecedeFiring
    StopIsFinal
    CasesMatchLog
    PinnedArtifactsHold
PROPERTIES
    ImplementsEvidenceLog
CHECK_DEADLOCK FALSE
