SPECIFICATION Spec
CONSTANTS
    v1 = v1
    v2 = v2
    NoMetric = NoMetric
    NotMade = NotMade
    RANGE = 4
    Year = 5
    Cap = 1
    Viewers <- OneViewer
    MaxReqs = 2
    MaxDay = 5
INVARIANT CountedByDay
