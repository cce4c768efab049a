SPECIFICATION Spec
CONSTANTS
    Facts <- MCFacts
    Alerts <- MCAlerts
    Sla <- MCSla
    MaxClock = 2
    MaxClicks = 2
    MaxStops = 1
INVARIANTS
    FileFollowsLog
    ResolvedOnce
    FilingsReachTheFunnel
    NoOvertaking
CHECK_DEADLOCK FALSE
