SPECIFICATION Spec
CONSTANTS
    Facts <- MCFacts
    Alerts <- MCAlerts
    Sla <- MCSla
    MaxClock = 2
    MaxClicks = 1
    MaxStops = 1
INVARIANT ClosedIsCounted
CHECK_DEADLOCK FALSE
