SPECIFICATION Spec
CONSTANTS
    v1 = v1
    v2 = v2
    NoMetric = NoMetric
    NotMade = NotMade
    RANGE = 3
    Year = 4
    Cap = 1
    Viewers <- TwoViewers
    MaxReqs = 2
    MaxDay = 4
INVARIANTS TypeOK CountsNoLaterRequest DeletedHaveMetric
PROPERTIES MetricsWrittenOnce RequestsLeaveMemory
