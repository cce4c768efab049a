SPECIFICATION CompareSpec
CONSTANTS
    Places = {p1, p2}
    NoPlace = NoPlace
    NewRules = {1, 2}
    LegacyRules = {l1, l2}
    Severities = {"low", "high"}
    None = None
    Carried = {"high"}
    rule_severities <- MCRuleSeverities
    MaxNew = 3
    MaxLegacy = 2
SYMMETRY MCSymmetry
INVARIANTS
    ReportIgnoresOrder
CHECK_DEADLOCK FALSE
